-------------------------- MODULE SchedulerProofs --------------------------
(***************************************************************************)
(* Proofs about KernelHeap, and about Scheduler for every table size, time *)
(* slice, heap, set of sizes, nesting depth and protocol.  The inductive   *)
(* invariant of the scheduler has two parts.                               *)
(*                                                                         *)
(* Core holds whatever sizes kmalloc is called with.  It adds to the       *)
(* properties                                                              *)
(*   - FrameInv: two calls of sched_run_threads that execute the same slot *)
(*     execute the same thread, and then the outer one is in again: this   *)
(*     is what keeps a return from ending a thread that still executes;    *)
(*   - OneMode: what the protocol "one" guarantees.                        *)
(* Memory holds as long as no size wrapped the exhaustion check.  It adds  *)
(*   - the heap's own invariant (a stack handed out is above all others);  *)
(*   - Budget: every tid handed out cost THREAD_STACK_SIZE bytes of heap,  *)
(*     and the heap never gets them back;                                  *)
(*   - LiveStates: only ZOMBIE slots are free.                             *)
(***************************************************************************)
EXTENDS Scheduler, SequenceTheorems, TLAPS

-----------------------------------------------------------------------------
\* The kernel heap, for every heap, address space and set of sizes.  What makes
\* its properties inductive is that every live block ends at or below the heap
\* pointer, which itself is aligned and inside the heap.
BelowPtr ==
  /\ HeapPtr % 8 = 0
  /\ HeapPtr \in HEAP_START .. (HEAP_START + HEAP_SIZE - 1)
  /\ \A b \in blocks : b.base + b.size <= HeapPtr

HeapClean == BlocksDisjoint /\ BlocksInHeap /\ BelowPtr

HeapIInv == HeapTypeOK /\ (~wrapped => HeapClean)

-----------------------------------------------------------------------------
\* ALIGN_UP of a u64 is a u64; it is the smallest multiple of 8 that holds size
\* bytes, as long as the sum does not wrap.
LEMMA AlignUpFacts ==
  ASSUME NEW size \in 0 .. (U64 - 1)
  PROVE  /\ AlignUp(size) \in 0 .. (U64 - 1)
         /\ size + 7 < U64 => /\ AlignUp(size) % 8 = 0
                              /\ size <= AlignUp(size) /\ AlignUp(size) <= size + 7
BY HeapAssumption DEF AlignUp, Wrap

LEMMA AlignedSum ==
  ASSUME NEW a \in Nat, NEW b \in Nat, a % 8 = 0, b % 8 = 0
  PROVE  (a + b) % 8 = 0
OBVIOUS

\* The heap as the boot leaves it.
LEMMA HeapInitInv == HeapInit => HeapIInv
<1> SUFFICES ASSUME HeapInit PROVE HeapIInv
  BY Zenon
<1>1. simple_heap_ptr = 0 /\ blocks = {} /\ wrapped \in BOOLEAN
  BY Zenon DEF HeapInit
<1>2. HeapTypeOK
  BY <1>1, HeapAssumption DEF HeapTypeOK
<1>3. HeapClean
  BY <1>1, HeapAssumption DEF HeapClean, BlocksDisjoint, BlocksInHeap, BelowPtr, HeapPtr
<1> QED BY <1>2, <1>3, Zenon DEF HeapIInv

\* Whatever the size, the pointer stays a u64 and the block has an address.
LEMMA KmallocTypeOK ==
  ASSUME NEW size \in 0 .. (U64 - 1), HeapTypeOK, KmallocOk(size)
  PROVE  HeapTypeOK'
<1> USE HeapAssumption
<1> DEFINE new == [base |-> HeapPtr, size |-> size]
<1>1. HeapPtr \in 0 .. (U64 - 1)
  BY DEF HeapPtr, HeapTypeOK
<1>2. AlignUp(size) \in 0 .. (U64 - 1)
  BY AlignUpFacts, Zenon
<1>3. simple_heap_ptr' \in 0 .. (U64 - 1)
  BY <1>1, <1>2 DEF KmallocOk, Wrap
<1>4. blocks' = blocks \cup {new} /\ size # 0 /\ wrapped' \in BOOLEAN
  BY Zenon DEF KmallocOk, HeapTypeOK
<1>5. new \in [base : 0 .. (U64 - 1), size : 1 .. (U64 - 1)]
  BY <1>1, <1>4
<1> QED BY <1>3, <1>4, <1>5, Zenon DEF HeapTypeOK

\* A block kmalloc returns without wrapping lies above all the others and inside
\* the heap, and the pointer moves behind it.
LEMMA KmallocOkClean ==
  ASSUME NEW size \in 0 .. (U64 - 1), HeapTypeOK, HeapClean, KmallocOk(size), ~wrapped'
  PROVE  /\ HeapClean'
         /\ HeapPtr \in Nat /\ HeapPtr' = HeapPtr + AlignUp(size)
<1> USE HeapAssumption
<1> DEFINE s == AlignUp(size)
           new == [base |-> HeapPtr, size |-> size]
<1>1. size \in Nat /\ HeapPtr \in Nat
  BY DEF HeapClean, BelowPtr
<1>2. size + 7 < U64 /\ HeapPtr + s < U64
  <2>1. ~(size + 7 >= U64) /\ ~(HeapPtr + s >= U64)
    BY Zenon DEF KmallocOk, Wraps
  <2>2. s \in 0 .. (U64 - 1)
    BY AlignUpFacts, Zenon
  <2> QED BY <1>1, <2>1, <2>2
<1>3. s \in Nat /\ s % 8 = 0 /\ size <= s /\ s <= size + 7
  BY <1>2, AlignUpFacts
<1> HIDE DEF s
<1>4. /\ simple_heap_ptr' = HeapPtr + s
      /\ HeapPtr + s < HEAP_START + HEAP_SIZE
  BY <1>1, <1>2, <1>3 DEF KmallocOk, Fits, Wrap, s
<1>5. HeapPtr' = HeapPtr + s
  BY <1>1, <1>3, <1>4 DEF HeapPtr, HeapClean, BelowPtr
<1>6. (HeapPtr + s) % 8 = 0
  BY <1>1, <1>3, AlignedSum, Zenon DEF HeapClean, BelowPtr
<1>7. blocks' = blocks \cup {new} /\ size # 0
  BY Zenon DEF KmallocOk
<1>8. new.base = HeapPtr /\ new.size = size
  BY Zenon
<1> HIDE DEF new
<1>9. \A b \in blocks : /\ b.base \in Nat /\ b.size \in Nat
                        /\ b.base + b.size <= HeapPtr
  BY DEF HeapClean, HeapTypeOK, BelowPtr
<1>10. BlocksDisjoint'
  BY <1>1, <1>7, <1>8, <1>9, Zenon DEF HeapClean, BlocksDisjoint, BelowPtr
<1>11. BlocksInHeap'
  BY <1>1, <1>3, <1>4, <1>7, <1>8 DEF HeapClean, BlocksInHeap, BelowPtr
<1>12. BelowPtr'
  <2>1. HeapPtr' % 8 = 0
    BY <1>5, <1>6, Zenon
  <2>2. HeapPtr' \in HEAP_START .. (HEAP_START + HEAP_SIZE - 1)
    BY <1>1, <1>3, <1>4, <1>5 DEF HeapClean, BelowPtr
  <2>3. \A b \in blocks' : b.base + b.size <= HeapPtr'
    BY <1>1, <1>3, <1>5, <1>7, <1>8, <1>9
  <2> QED BY <2>1, <2>2, <2>3, Zenon DEF BelowPtr
<1> QED BY <1>1, <1>5, <1>10, <1>11, <1>12, Zenon DEF HeapClean, s

\* kfree, and a kmalloc that returns NULL, leave fewer or the same blocks.
LEMMA FewerBlocksInv ==
  ASSUME HeapTypeOK, simple_heap_ptr' \in {simple_heap_ptr, HeapPtr}, blocks' \subseteq blocks,
         UNCHANGED wrapped
  PROVE  /\ HeapTypeOK'
         /\ HeapPtr' = HeapPtr
         /\ HeapClean => HeapClean'
<1>1. HeapPtr' = HeapPtr
  BY HeapAssumption, Zenon DEF HeapPtr
<1>2. HeapTypeOK'
  BY HeapAssumption DEF HeapTypeOK, HeapPtr
<1> QED BY <1>1, <1>2, Zenon DEF HeapClean, BlocksDisjoint, BlocksInHeap, BelowPtr

\* Any kmalloc keeps the invariant.
LEMMA KmallocInv ==
  ASSUME NEW size \in 0 .. (U64 - 1), HeapIInv, kmalloc(size)
  PROVE  HeapIInv'
<1>1. CASE KmallocOk(size)
  <2>1. ~wrapped' => ~wrapped
    BY <1>1, Zenon DEF KmallocOk
  <2> QED BY <1>1, <2>1, KmallocTypeOK, KmallocOkClean, Zenon DEF HeapIInv
<1>2. CASE KmallocNull(size)
  BY <1>2, FewerBlocksInv, Zenon DEF KmallocNull, heapVars, HeapIInv
<1> QED BY <1>1, <1>2, Zenon DEF kmalloc

\* The heap's invariant holds for every sequence of kmalloc and kfree with any
\* sizes.
THEOREM HeapInvariant == HeapSpec => []HeapIInv
<1>1. HeapIInv /\ [HeapNext]_heapVars => HeapIInv'
  <2> SUFFICES ASSUME HeapIInv, [HeapNext]_heapVars PROVE HeapIInv'
    BY Zenon
  <2>1. ASSUME NEW size \in Sizes, kmalloc(size) PROVE HeapIInv'
    BY <2>1, KmallocInv, HeapAssumption, Zenon
  <2>2. ASSUME NEW b \in blocks, kfree(b.base) PROVE HeapIInv'
    BY <2>2, FewerBlocksInv, Zenon DEF kfree, HeapIInv
  <2>3. CASE UNCHANGED heapVars
    BY <2>3, FewerBlocksInv, Zenon DEF heapVars, HeapIInv
  <2> QED BY <2>1, <2>2, <2>3, Zenon DEF HeapNext
<1> QED BY <1>1, HeapInitInv, PTL DEF HeapSpec

\* Live kmalloc blocks never overlap and lie inside the heap, up to the last
\* byte asked for, as long as no size wrapped the exhaustion check.
THEOREM HeapBlocksSound == HeapSpec => []HeapSound
<1>1. HeapIInv => HeapSound
  BY Zenon DEF HeapIInv, HeapClean, HeapSound
<1> QED BY <1>1, HeapInvariant, PTL

-----------------------------------------------------------------------------
\* The scheduler.

FrameInv ==
  /\ run_pc = "idle" => callers = <<>>
  /\ \A n \in Levels : Frame(n).slot \in Slots
  /\ ExecutingSlotKept
  /\ \A m, n \in Levels : m < n /\ Frame(m).slot = Frame(n).slot => m \in again

OneMode ==
  Protocol = "one" =>
    /\ again = {}
    /\ scheduler_enabled =>
         /\ run_pc = "idle"
         /\ \A i \in Slots : state[i] = "RUNNING" => i = current_thread
    /\ ~scheduler_enabled =>
         /\ \A i \in Slots : state[i] = "RUNNING" <=> \E n \in Levels : Frame(n).slot = i
         /\ current_thread # NULL => Top # 0 /\ current_thread = Frame(Top).slot
         /\ run_pc = "exec" /\ ~run_nested => current_thread = run_i

Core == TypeOK /\ CurrentIsRunning /\ SlicesPositive /\ FrameInv /\ OneMode

Budget ==
  /\ next_tid \in 1 .. (U32 - 1)
  /\ HEAP_START + (next_tid - 1) * THREAD_STACK_SIZE <= HeapPtr
  /\ active_thread_count = next_tid - 1

LiveStates == \A i \in Slots : tid[i] = 0 => state[i] = "ZOMBIE"

Memory == ~wrapped => HeapClean /\ StacksOwned /\ TidsFresh /\ Budget /\ LiveStates

SchedIInv == Core /\ Memory

-----------------------------------------------------------------------------
\* The stack of calls of sched_run_threads.

\* NULL is no slot, and levels count from 1.
LEMMA Basics ==
  /\ NULL \notin Slots
  /\ TypeOK => Top \in Nat /\ Len(callers) \in Nat /\ DOMAIN callers = 1 .. Len(callers)
BY SchedAssumption DEF NULL, Slots, Top, TypeOK

\* A step outside of sched_run_threads leaves it alone.
LEMMA FramesUnchanged ==
  ASSUME UNCHANGED runVars
  PROVE  Top' = Top /\ Levels' = Levels /\ \A n : Frame(n)' = Frame(n)
BY Zenon DEF runVars, Top, Levels, Frame, Executed

\* What a nested call pushes is what the calling level executes.
LEMMA FramesPushed ==
  ASSUME TypeOK, run_pc = "exec", run_pc' = "scan",
         callers' = Append(callers, Executed(run_i, run_tid))
  PROVE  Top' = Top /\ Levels' = Levels /\ \A n \in Levels : Frame(n)' = Frame(n)
BY Basics DEF Top, Levels, Frame, Executed, TypeOK

\* The end of a nested call takes up what it pushed.
LEMMA FramesPopped ==
  ASSUME TypeOK, run_pc = "scan", callers # <<>>, run_pc' = "exec",
         run_i' = callers[Len(callers)].slot, run_tid' = callers[Len(callers)].tid,
         callers' = SubSeq(callers, 1, Len(callers) - 1)
  PROVE  /\ Top' = Top /\ Levels' = Levels /\ \A n \in Levels : Frame(n)' = Frame(n)
         /\ callers' \in Seq([slot : Slots, tid : 0 .. (U32 - 1)])
         /\ Len(callers') <= MaxNesting
         /\ run_i' \in Slots /\ run_tid' \in 0 .. (U32 - 1)
<1> DEFINE F == [slot : Slots, tid : 0 .. (U32 - 1)]
<1>1. callers \in Seq(F) /\ Len(callers) <= MaxNesting /\ MaxNesting \in Nat
  BY SchedAssumption DEF TypeOK
<1>2. \A e \in F : e.slot \in Slots /\ e.tid \in 0 .. (U32 - 1) /\ e = Executed(e.slot, e.tid)
  BY DEF Executed
<1> HIDE DEF F
<1>3. Len(callers) \in Nat /\ Len(callers) > 0
  BY <1>1
<1>4. callers[Len(callers)] \in F
  BY <1>1, <1>3
<1>5. /\ callers' \in Seq(F)
      /\ Len(callers') = Len(callers) - 1
      /\ \A n \in 1 .. (Len(callers) - 1) : callers'[n] = callers[n]
  <2> DEFINE m == Len(callers) - 1
  <2>1. m \in Nat /\ \A n \in 1 .. m : callers[n] \in F
    BY <1>1, <1>3
  <2> HIDE DEF m
  <2>2. /\ SubSeq(callers, 1, m) \in Seq(F)
        /\ Len(SubSeq(callers, 1, m)) = IF 1 <= m THEN m - 1 + 1 ELSE 0
        /\ \A n \in 1 .. (m - 1 + 1) : SubSeq(callers, 1, m)[n] = callers[1 + n - 1]
    BY <2>1, SubSeqProperties
  <2>3. callers' = SubSeq(callers, 1, m)
    BY Zenon DEF m
  <2>4. Len(callers') = m /\ \A n \in 1 .. m : callers'[n] = callers[n]
    BY <2>1, <2>2, <2>3
  <2> QED BY <2>2, <2>3, <2>4, Zenon DEF m
<1>6. Top = Len(callers) /\ Top' = Len(callers)
  BY <1>3, <1>5 DEF Top
<1>7. callers[Len(callers)] = Executed(run_i', run_tid')
  BY <1>2, <1>4, Zenon
<1>8. ASSUME NEW n \in Levels PROVE Frame(n)' = Frame(n)
  <2>1. n \in Int /\ n <= Len(callers) /\ 1 <= n
    BY <1>3, <1>6 DEF Levels
  <2>2. CASE n = Len(callers)
    <3>1. ~(n <= Len(callers')) /\ n <= Len(callers)
      BY <1>3, <1>5, <2>1, <2>2
    <3> QED BY <1>7, <2>2, <3>1, Zenon DEF Frame, Executed
  <2>3. CASE n # Len(callers)
    <3>1. n <= Len(callers') /\ n <= Len(callers) /\ n \in 1 .. (Len(callers) - 1)
      BY <1>3, <1>5, <2>1, <2>3
    <3> QED BY <1>5, <3>1, Zenon DEF Frame
  <2> QED BY <2>2, <2>3, Zenon
<1>9. Len(callers') <= MaxNesting
  BY <1>1, <1>3, <1>5
<1>10. Levels' = Levels
  BY <1>6, Zenon DEF Levels
<1>11. run_i' \in Slots /\ run_tid' \in 0 .. (U32 - 1)
  BY <1>2, <1>4, Zenon
<1> QED BY <1>5, <1>6, <1>8, <1>9, <1>10, <1>11, Zenon DEF F

\* The call of an entry point adds a level.
LEMMA FramesEntered ==
  ASSUME TypeOK, run_pc = "scan", run_pc' = "exec", UNCHANGED callers
  PROVE  /\ Top' = Top + 1 /\ Levels' = Levels \cup {Top + 1}
         /\ Levels = DOMAIN callers /\ \A n \in Levels : n < Top + 1
         /\ \A n \in Levels : Frame(n) = callers[n] /\ Frame(n)' = callers[n]
         /\ \A n : n = Top + 1 => Frame(n)' = Executed(run_i', run_tid')
<1>1. /\ Top = Len(callers) /\ Top' = Len(callers) + 1 /\ Len(callers) \in Nat
      /\ DOMAIN callers = 1 .. Len(callers)
  BY Basics DEF Top
<1>2. /\ Levels' = Levels \cup {Top + 1} /\ Levels = DOMAIN callers
      /\ \A n \in Levels : n < Top + 1
  BY <1>1 DEF Levels
<1>3. \A n \in Levels : Frame(n) = callers[n] /\ Frame(n)' = callers[n]
  BY <1>1 DEF Levels, Frame
<1>4. ~(Top + 1 <= Len(callers'))
  BY <1>1
<1>5. \A n : n = Top + 1 => Frame(n)' = Executed(run_i', run_tid')
  BY <1>4, Zenon DEF Frame, Executed
<1> QED BY <1>1, <1>2, <1>3, <1>5, Zenon

\* Its return removes that level.
LEMMA FramesReturned ==
  ASSUME TypeOK, run_pc = "exec", run_pc' = "scan", UNCHANGED callers
  PROVE  /\ Top \in Levels /\ Top = Len(callers) + 1 /\ Levels' = Levels \ {Top}
         /\ Frame(Top) = Executed(run_i, run_tid)
         /\ \A n \in Levels' : Frame(n)' = Frame(n) /\ n < Top
BY Basics DEF Top, Levels, Frame, Executed

-----------------------------------------------------------------------------
\* sched_init establishes the invariant.
LEMMA SchedInitInv == Init => SchedIInv
<1> SUFFICES ASSUME Init PROVE SchedIInv
  BY Zenon
<1> USE SchedAssumption, HeapAssumption
<1>1. HeapIInv
  BY HeapInitInv, Zenon DEF Init
<1>2. /\ Len(callers) = 0 /\ Levels = {} /\ NULL \notin Slots
      /\ callers \in Seq([slot : Slots, tid : 0 .. (U32 - 1)])
  BY DEF Init, Levels, Top, NULL, Slots
<1>3. TypeOK
  <2>1. 0 \in 0 .. (U32 - 1) /\ 1 \in 0 .. (U32 - 1) /\ 0 \in 0 .. (U64 - 1)
    OBVIOUS
  <2>2. 0 \in 0 .. DEFAULT_TIME_SLICE /\ 0 \in 0 .. MAX_THREADS /\ 0 <= MaxNesting
    OBVIOUS
  <2> QED BY <1>1, <1>2, <2>1, <2>2, Zenon DEF Init, TypeOK, HeapIInv
<1>4. FrameInv /\ OneMode /\ CurrentIsRunning /\ SlicesPositive
  BY <1>2, Zenon DEF Init, FrameInv, ExecutingSlotKept, OneMode, CurrentIsRunning,
     SlicesPositive
<1>5. HeapClean /\ ~wrapped
  BY <1>1, Zenon DEF HeapIInv, Init, HeapInit
<1>6. StacksOwned /\ LiveStates
  BY Zenon DEF Init, StacksOwned, LiveStates
<1>7. TidsFresh /\ Budget
  BY DEF Init, TidsFresh, Budget, HeapInit, HeapPtr, THREAD_STACK_SIZE
<1> QED BY <1>3, <1>4, <1>5, <1>6, <1>7, Zenon DEF SchedIInv, Core, Memory

-----------------------------------------------------------------------------
\* The table, whatever happens to the heap.

\* A step outside of sched_run_threads under which every live thread stays one.
LEMMA TableStep ==
  ASSUME Core, TypeOK', CurrentIsRunning', SlicesPositive', OneMode',
         UNCHANGED runVars,
         \A i \in Slots : tid[i] # 0 /\ state[i] # "ZOMBIE" =>
           tid'[i] = tid[i] /\ state'[i] # "ZOMBIE"
  PROVE  Core'
<1>1. Levels' = Levels /\ \A n : Frame(n)' = Frame(n)
  BY FramesUnchanged, Zenon
<1>2. UNCHANGED <<run_pc, callers, again>>
  BY Zenon DEF runVars
<1>3. ExecutingSlotKept'
  BY <1>1, <1>2, Zenon DEF Core, FrameInv, ExecutingSlotKept
<1>4. FrameInv'
  BY <1>1, <1>2, <1>3, Zenon DEF Core, FrameInv
<1> QED BY <1>4, Zenon DEF Core

\* Nor does a change of the table that makes no thread RUNNING or the reverse,
\* and leaves current_thread alone, concern the protocol.
LEMMA OneModeKept ==
  ASSUME OneMode, UNCHANGED <<runVars, current_thread, scheduler_enabled>>,
         \A i \in Slots : state'[i] = "RUNNING" <=> state[i] = "RUNNING"
  PROVE  OneMode'
<1>1. Top' = Top /\ Levels' = Levels /\ \A n : Frame(n)' = Frame(n)
  BY FramesUnchanged, Zenon DEF runVars
<1>2. Frame(Top)' = Frame(Top)
  BY <1>1, Zenon DEF Frame, runVars
<1> QED BY <1>1, <1>2, Zenon DEF OneMode, runVars


\* What sched_yield can do to the table: nothing, or exchange the roles of
\* the current thread and a READY one.
Exchange ==
  \/ UNCHANGED <<current_thread, state>>
  \/ \E next \in Slots :
       /\ scheduler_enabled
       /\ current_thread \in Slots
       /\ next # current_thread
       /\ Ready(next)
       /\ current_thread' = next
       /\ state' = [state EXCEPT ![next] = "RUNNING", ![current_thread] = "READY"]

\* What cleanup_zombie_threads can do: give slots of ZOMBIEs and their stacks
\* back.
Cleanup ==
  \/ UNCHANGED <<tid, stack_base, blocks>>
  \/ cleanup_zombie_threads

LEMMA YieldExchanges ==
  ASSUME TypeOK, Yield(state, active_thread_count)
  PROVE  Exchange
BY Zenon DEF Exchange, Yield, Switch, find_next_thread, Ready, TypeOK

\* sched_yield makes no ZOMBIE and revives none, and what it leaves as
\* current_thread is RUNNING.
LEMMA ExchangeFacts ==
  ASSUME Core, Exchange
  PROVE  /\ state' \in [Slots -> {"READY", "RUNNING", "ZOMBIE"}]
         /\ current_thread' \in Slots \cup {NULL}
         /\ \A i \in Slots : state'[i] = "ZOMBIE" <=> state[i] = "ZOMBIE"
         /\ current_thread' # NULL => state'[current_thread'] = "RUNNING"
         /\ current_thread' # NULL => tid[current_thread'] # 0
         /\ (\A i \in Slots : state[i] = "RUNNING" => i = current_thread)
              => (\A i \in Slots : state'[i] = "RUNNING" => i = current_thread')
         /\ ~scheduler_enabled => UNCHANGED <<current_thread, state>>
<1>1. CASE UNCHANGED <<current_thread, state>>
  BY <1>1, Zenon DEF Core, TypeOK, CurrentIsRunning
<1>2. ASSUME NEW next \in Slots, scheduler_enabled, current_thread \in Slots,
             next # current_thread, Ready(next), current_thread' = next,
             state' = [state EXCEPT ![next] = "RUNNING", ![current_thread] = "READY"]
      PROVE  /\ state' \in [Slots -> {"READY", "RUNNING", "ZOMBIE"}]
             /\ current_thread' \in Slots
             /\ \A i \in Slots : state'[i] = "ZOMBIE" <=> state[i] = "ZOMBIE"
             /\ state'[current_thread'] = "RUNNING"
             /\ tid[current_thread'] # 0
             /\ (\A i \in Slots : state[i] = "RUNNING" => i = current_thread)
                  => (\A i \in Slots : state'[i] = "RUNNING" => i = current_thread')
  <2>0. state \in [Slots -> {"READY", "RUNNING", "ZOMBIE"}]
    BY Zenon DEF Core, TypeOK
  <2>1. current_thread # NULL
    BY <1>2, Basics, Zenon
  <2>2. state[current_thread] = "RUNNING" /\ state[next] = "READY" /\ tid[next] # 0
    BY <1>2, <2>1, Zenon DEF Core, CurrentIsRunning, Ready, ReadyIn
  <2>3. /\ state'[next] = "RUNNING"
        /\ state'[current_thread] = "READY"
        /\ \A i \in Slots \ {next, current_thread} : state'[i] = state[i]
    BY <1>2, <2>0, Zenon
  <2>4. state' \in [Slots -> {"READY", "RUNNING", "ZOMBIE"}]
    BY <1>2, <2>0, Zenon
  <2>5. \A i \in Slots : state'[i] = "ZOMBIE" <=> state[i] = "ZOMBIE"
    BY <2>2, <2>3, Zenon
  <2>6. (\A i \in Slots : state[i] = "RUNNING" => i = current_thread)
           => (\A i \in Slots : state'[i] = "RUNNING" => i = current_thread')
    BY <1>2, <2>3, Zenon
  <2> QED BY <1>2, <2>2, <2>3, <2>4, <2>5, <2>6, Zenon
<1> QED BY <1>1, <1>2, Zenon DEF Exchange

\* cleanup_zombie_threads frees ZOMBIE slots only.
LEMMA CleanupFacts ==
  ASSUME TypeOK, Cleanup
  PROVE  /\ tid' \in [Slots -> 0 .. (U32 - 1)]
         /\ stack_base' \in [Slots -> 0 .. (U64 - 1)]
         /\ \A i \in Slots : tid'[i] # 0 =>
              tid'[i] = tid[i] /\ stack_base'[i] = stack_base[i]
         /\ \A i \in Slots : tid'[i] = 0 => tid[i] = 0 \/ state'[i] = "ZOMBIE"
         /\ blocks' \subseteq blocks
<1> USE SchedAssumption, HeapAssumption
<1>0. /\ tid \in [Slots -> 0 .. (U32 - 1)]
      /\ stack_base \in [Slots -> 0 .. (U64 - 1)]
  BY Zenon DEF TypeOK
<1>1. CASE UNCHANGED <<tid, stack_base, blocks>>
  BY <1>0, <1>1
<1>2. CASE cleanup_zombie_threads
  <2> DEFINE zombies == {i \in Slots : Reclaimable(i)}
  <2>1. /\ tid' = [i \in Slots |-> IF i \in zombies THEN 0 ELSE tid[i]]
        /\ stack_base' = [i \in Slots |-> IF i \in zombies THEN 0 ELSE stack_base[i]]
        /\ blocks' = {b \in blocks : \A i \in zombies : b.base # stack_base[i]}
        /\ \A i \in zombies : i \in Slots /\ state'[i] = "ZOMBIE" /\ tid[i] # 0
    BY <1>2 DEF cleanup_zombie_threads, Reclaimable
  <2> HIDE DEF zombies
  <2>2. tid' \in [Slots -> 0 .. (U32 - 1)] /\ stack_base' \in [Slots -> 0 .. (U64 - 1)]
    BY <1>0, <2>1
  <2>3. \A i \in Slots : tid'[i] # 0 =>
          i \notin zombies /\ tid'[i] = tid[i] /\ stack_base'[i] = stack_base[i]
    BY <2>1, Zenon
  <2>4. \A i \in Slots : tid'[i] = 0 => tid[i] = 0 \/ state'[i] = "ZOMBIE"
    BY <2>1, Zenon
  <2> QED BY <2>1, <2>2, <2>3, <2>4, Zenon
<1> QED BY <1>1, <1>2, Zenon DEF Cleanup

\* As long as stacks are owned, it leaves the stack of every thread that stays
\* allocated.
LEMMA CleanupStacks ==
  ASSUME TypeOK, StacksOwned, ~wrapped, Cleanup, NEW i \in Slots, tid'[i] # 0
  PROVE  [base |-> stack_base[i], size |-> THREAD_STACK_SIZE] \in blocks'
<1> USE SchedAssumption, HeapAssumption
<1>1. tid'[i] = tid[i]
  BY CleanupFacts, Zenon
<1>2. /\ stack_base \in [Slots -> 0 .. (U64 - 1)]
      /\ [base |-> stack_base[i], size |-> THREAD_STACK_SIZE] \in blocks
      /\ \A j \in Slots : tid[j] # 0 /\ i # j =>
             \/ stack_base[i] + 8192 <= stack_base[j]
             \/ stack_base[j] + 8192 <= stack_base[i]
  BY <1>1 DEF TypeOK, StacksOwned, THREAD_STACK_SIZE
<1>3. CASE cleanup_zombie_threads
  <2> DEFINE zombies == {j \in Slots : Reclaimable(j)}
  <2>1. /\ tid'[i] = IF i \in zombies THEN 0 ELSE tid[i]
        /\ blocks' = {b \in blocks : \A j \in zombies : b.base # stack_base[j]}
        /\ \A j \in zombies : j \in Slots /\ tid[j] # 0
    BY <1>3 DEF cleanup_zombie_threads, Reclaimable
  <2> HIDE DEF zombies
  <2>2. \A j \in zombies : stack_base[i] # stack_base[j]
    BY <1>2, <2>1
  <2> QED BY <1>2, <2>1, <2>2
<1>4. CASE UNCHANGED blocks
  BY <1>2, <1>4
<1> QED BY <1>3, <1>4, Zenon DEF Cleanup

\* A yield, then a cleanup, with some time slice charged: what sched_yield
\* and sched_tick are made of.
LEMMA YieldCleanupCore ==
  ASSUME Core, Exchange, Cleanup,
         time_slice' \in [Slots -> 0 .. DEFAULT_TIME_SLICE],
         \A i \in Slots : tid[i] # 0 => time_slice'[i] \in 1 .. DEFAULT_TIME_SLICE,
         scheduler_ticks' \in 0 .. (U32 - 1),
         UNCHANGED <<simple_heap_ptr, wrapped, next_tid, active_thread_count,
                     scheduler_enabled, runVars>>
  PROVE  Core'
<1>0. TypeOK /\ OneMode
  BY Zenon DEF Core
<1>1. TypeOK'
  <2>1. HeapTypeOK'
    BY <1>0, CleanupFacts, Zenon DEF TypeOK, HeapTypeOK
  <2>2. UNCHANGED <<run_pc, run_i, run_tid, callers, run_nested, again>>
    BY Zenon DEF runVars
  <2>3. /\ tid' \in [Slots -> 0 .. (U32 - 1)] /\ stack_base' \in [Slots -> 0 .. (U64 - 1)]
        /\ state' \in [Slots -> {"READY", "RUNNING", "ZOMBIE"}]
        /\ current_thread' \in Slots \cup {NULL}
    BY <1>0, ExchangeFacts, CleanupFacts, Zenon
  <2> QED BY <1>0, <2>1, <2>2, <2>3, Zenon DEF TypeOK
<1>2. CurrentIsRunning'
  <2>1. SUFFICES ASSUME current_thread' # NULL
                 PROVE  tid'[current_thread'] # 0 /\ state'[current_thread'] = "RUNNING"
    BY Zenon DEF CurrentIsRunning
  <2>2. /\ state'[current_thread'] = "RUNNING" /\ tid[current_thread'] # 0
        /\ current_thread' \in Slots
    BY <2>1, ExchangeFacts, Zenon
  <2>3. tid'[current_thread'] # 0
    BY <1>0, <2>2, CleanupFacts, Zenon
  <2> QED BY <2>2, <2>3, Zenon
<1>3. SlicesPositive'
  BY <1>0, CleanupFacts, Zenon DEF SlicesPositive
<1>4. OneMode'
  <2>1. CASE scheduler_enabled
    BY <1>0, <2>1, ExchangeFacts, Zenon DEF OneMode, runVars
  <2>2. CASE ~scheduler_enabled
    BY <1>0, <2>2, ExchangeFacts, OneModeKept, Zenon
  <2> QED BY <2>1, <2>2, Zenon
<1>5. \A i \in Slots : tid[i] # 0 /\ state[i] # "ZOMBIE" =>
        tid'[i] = tid[i] /\ state'[i] # "ZOMBIE"
  BY <1>0, ExchangeFacts, CleanupFacts, Zenon
<1> QED BY <1>1, <1>2, <1>3, <1>4, <1>5, TableStep, Zenon

\* The same step and the memory.
LEMMA YieldCleanupMemory ==
  ASSUME Core, Memory, Exchange, Cleanup,
         UNCHANGED <<simple_heap_ptr, wrapped, next_tid, active_thread_count>>
  PROVE  Memory'
<1> SUFFICES ASSUME ~wrapped' PROVE HeapClean' /\ StacksOwned' /\ TidsFresh' /\ Budget' /\ LiveStates'
  BY Zenon DEF Memory
<1>0. ~wrapped /\ TypeOK /\ HeapClean /\ StacksOwned /\ TidsFresh /\ Budget /\ LiveStates
  BY Zenon DEF Memory, Core
<1>1. HeapClean'
  BY <1>0, CleanupFacts, FewerBlocksInv, Zenon DEF TypeOK
<1>2. StacksOwned'
  <2>1. \A i \in Slots : tid'[i] # 0 => tid[i] # 0 /\ stack_base'[i] = stack_base[i]
    BY <1>0, CleanupFacts, Zenon
  <2>2. \A i \in Slots : tid'[i] # 0 =>
          [base |-> stack_base[i], size |-> THREAD_STACK_SIZE] \in blocks'
    BY <1>0, CleanupStacks, Zenon
  <2> QED BY <1>0, <2>1, <2>2, Zenon DEF StacksOwned
<1>3. TidsFresh'
  <2>1. /\ \A i \in Slots : tid'[i] \in Nat /\ tid[i] \in Nat /\ tid[i] < next_tid
        /\ \A i \in Slots : tid'[i] # 0 => tid'[i] = tid[i]
        /\ \A i, j \in Slots : tid[i] = tid[j] /\ tid[i] # 0 => i = j
        /\ next_tid' = next_tid /\ next_tid \in Nat /\ 0 < next_tid
    BY <1>0, CleanupFacts, SchedAssumption DEF TypeOK, TidsFresh, Budget
  <2> QED BY <2>1, Zenon DEF TidsFresh
<1>4. Budget'
  BY <1>0, Zenon DEF Budget, HeapPtr
<1>5. LiveStates'
  BY <1>0, ExchangeFacts, CleanupFacts, Zenon DEF LiveStates
<1> QED BY <1>1, <1>2, <1>3, <1>4, <1>5, Zenon

\* sched_yield
LEMMA YieldInv == SchedIInv /\ sched_yield => SchedIInv'
<1> SUFFICES ASSUME SchedIInv, sched_yield PROVE SchedIInv'
  BY Zenon
<1>0. Core /\ Memory
  BY Zenon DEF SchedIInv
<1>1. Exchange
  BY <1>0, YieldExchanges, Zenon DEF Core, sched_yield
<1>2. UNCHANGED <<tid, time_slice, stack_base, blocks, simple_heap_ptr, wrapped, next_tid,
                  active_thread_count, scheduler_ticks, scheduler_enabled, runVars>>
  BY Zenon DEF sched_yield, heapVars
<1>3. /\ time_slice' \in [Slots -> 0 .. DEFAULT_TIME_SLICE]
      /\ \A i \in Slots : tid[i] # 0 => time_slice'[i] \in 1 .. DEFAULT_TIME_SLICE
      /\ scheduler_ticks' \in 0 .. (U32 - 1)
  BY <1>0, <1>2, Zenon DEF Core, TypeOK, SlicesPositive
<1>4. Core'
  BY <1>0, <1>1, <1>2, <1>3, YieldCleanupCore, Zenon DEF Cleanup
<1>5. Memory'
  BY <1>0, <1>1, <1>2, YieldCleanupMemory, Zenon DEF Cleanup
<1> QED BY <1>4, <1>5, Zenon DEF SchedIInv

\* sched_tick
LEMMA TickInv == SchedIInv /\ sched_tick => SchedIInv'
<1> SUFFICES ASSUME SchedIInv, sched_tick PROVE SchedIInv'
  BY Zenon
<1> USE SchedAssumption, HeapAssumption
<1>0. /\ Core /\ Memory
      /\ TypeOK /\ time_slice \in [Slots -> 0 .. DEFAULT_TIME_SLICE]
      /\ \A i \in Slots : tid[i] # 0 => time_slice[i] \in 1 .. DEFAULT_TIME_SLICE
      /\ scheduler_ticks \in 0 .. (U32 - 1)
      /\ current_thread # NULL => current_thread \in Slots /\ tid[current_thread] # 0
  BY Zenon DEF SchedIInv, Core, TypeOK, SlicesPositive, CurrentIsRunning
<1>1. ASSUME Exchange, Cleanup,
             time_slice' \in [Slots -> 0 .. DEFAULT_TIME_SLICE],
             \A i \in Slots : tid[i] # 0 => time_slice'[i] \in 1 .. DEFAULT_TIME_SLICE,
             scheduler_ticks' \in 0 .. (U32 - 1),
             UNCHANGED <<simple_heap_ptr, wrapped, next_tid, active_thread_count,
                         scheduler_enabled, runVars>>
      PROVE  SchedIInv'
  BY <1>0, <1>1, YieldCleanupCore, YieldCleanupMemory, Zenon DEF SchedIInv
<1>2. CASE UNCHANGED vars
  <2>1. UNCHANGED <<tid, state, time_slice, stack_base, blocks, simple_heap_ptr, wrapped,
                    current_thread, next_tid, active_thread_count, scheduler_ticks,
                    scheduler_enabled, runVars>>
    BY <1>2, Zenon DEF vars, heapVars, tableVars
  <2>2. /\ time_slice' \in [Slots -> 0 .. DEFAULT_TIME_SLICE]
        /\ \A i \in Slots : tid[i] # 0 => time_slice'[i] \in 1 .. DEFAULT_TIME_SLICE
        /\ scheduler_ticks' \in 0 .. (U32 - 1)
    BY <1>0, <2>1, Zenon
  <2> QED BY <1>1, <2>1, <2>2, Zenon DEF Cleanup, Exchange
<1>3. CASE scheduler_enabled
  <2>1. scheduler_ticks' \in 0 .. (U32 - 1)
    BY <1>0, <1>3 DEF sched_tick, Inc32, vars
  <2>2. Cleanup
    BY <1>3, Zenon DEF sched_tick, Cleanup
  <2>3. UNCHANGED <<simple_heap_ptr, wrapped, next_tid, active_thread_count,
                    scheduler_enabled, runVars>>
    BY <1>3, Zenon DEF sched_tick
  <2>4. CASE current_thread = NULL
    <3>1. UNCHANGED <<time_slice, current_thread, state>>
      BY <1>3, <2>4, Zenon DEF sched_tick
    <3>2. /\ time_slice' \in [Slots -> 0 .. DEFAULT_TIME_SLICE]
          /\ \A i \in Slots : tid[i] # 0 => time_slice'[i] \in 1 .. DEFAULT_TIME_SLICE
      BY <1>0, <3>1, Zenon
    <3> QED BY <1>1, <2>1, <2>2, <2>3, <3>1, <3>2, Zenon DEF Exchange
  <2>5. CASE current_thread # NULL
    <3>1. Charge
      BY <1>3, <2>5, Zenon DEF sched_tick
    <3>2. Exchange
      BY <1>0, <3>1, YieldExchanges, Zenon DEF Charge, Exchange
    <3>3. \E n \in 1 .. DEFAULT_TIME_SLICE :
             time_slice' = [time_slice EXCEPT ![current_thread] = n]
      BY <1>0, <2>5, <3>1 DEF Charge, Expired, Dec64
    <3>4. /\ time_slice' \in [Slots -> 0 .. DEFAULT_TIME_SLICE]
          /\ \A i \in Slots : tid[i] # 0 => time_slice'[i] \in 1 .. DEFAULT_TIME_SLICE
      BY <1>0, <2>5, <3>3
    <3> QED BY <1>1, <2>1, <2>2, <2>3, <3>2, <3>4, Zenon
  <2> QED BY <2>4, <2>5, Zenon
<1> QED BY <1>2, <1>3, Zenon DEF sched_tick

\* A step that leaves the table's contents, the threads and their bookkeeping
\* alone, apart from the states and current_thread, keeps the memory.
LEMMA MemoryKept ==
  ASSUME Core, Memory,
         simple_heap_ptr' \in {simple_heap_ptr, HeapPtr},
         UNCHANGED <<blocks, wrapped, tid, stack_base, next_tid, active_thread_count>>,
         \A i \in Slots : tid[i] = 0 => state'[i] = state[i] \/ state'[i] = "ZOMBIE"
  PROVE  Memory'
<1>1. HeapTypeOK
  BY Zenon DEF Core, TypeOK
<1>2. HeapPtr' = HeapPtr /\ (HeapClean => HeapClean')
  BY <1>1, FewerBlocksInv, Zenon
<1> QED BY <1>2, Zenon DEF Memory, StacksOwned, TidsFresh, Budget, LiveStates

-----------------------------------------------------------------------------
\* Heap calls of the rest of the kernel leave the table and, unless a size
\* wraps, the threads' stacks alone.
LEMMA OtherHeapUseInv == SchedIInv /\ OtherHeapUse => SchedIInv'
<1> SUFFICES ASSUME SchedIInv, OtherHeapUse PROVE SchedIInv'
  BY Zenon
<1> USE SchedAssumption, HeapAssumption, StackAssumption
<1>0. Core /\ Memory /\ TypeOK /\ HeapTypeOK
  BY Zenon DEF SchedIInv, Core, TypeOK
<1>1. UNCHANGED <<tid, state, time_slice, stack_base, current_thread, next_tid,
                  active_thread_count, scheduler_ticks, scheduler_enabled, runVars>>
  BY Zenon DEF OtherHeapUse, tableVars
<1>2. ASSUME NEW b \in blocks, kfree(b.base)
      PROVE  HeapTypeOK' /\ HeapPtr' = HeapPtr /\ (HeapClean => HeapClean')
             /\ wrapped' = wrapped
  <2>1. /\ simple_heap_ptr' \in {simple_heap_ptr, HeapPtr} /\ blocks' \subseteq blocks
        /\ UNCHANGED wrapped
    BY <1>2, Zenon DEF kfree
  <2> QED BY <1>0, <2>1, FewerBlocksInv, Zenon
<1>3. ASSUME NEW size \in Sizes, KmallocNull(size)
      PROVE  HeapTypeOK' /\ HeapPtr' = HeapPtr /\ (HeapClean => HeapClean')
             /\ wrapped' = wrapped /\ blocks' = blocks
  <2>1. /\ simple_heap_ptr' \in {simple_heap_ptr, HeapPtr} /\ blocks' = blocks
        /\ UNCHANGED wrapped
    BY <1>3, Zenon DEF KmallocNull, heapVars
  <2> QED BY <1>0, <2>1, FewerBlocksInv, Zenon
<1>4. ASSUME NEW size \in Sizes, KmallocOk(size), ~wrapped'
      PROVE  ~wrapped /\ (HeapClean => HeapClean' /\ HeapPtr' >= HeapPtr)
             /\ blocks \subseteq blocks'
  <2>1. size \in 0 .. (U64 - 1) /\ ~wrapped /\ blocks \subseteq blocks'
    BY <1>4, Zenon DEF KmallocOk
  <2>2. ASSUME HeapClean PROVE HeapClean' /\ HeapPtr' >= HeapPtr
    <3>1. /\ HeapClean' /\ HeapPtr \in Nat /\ HeapPtr' = HeapPtr + AlignUp(size)
          /\ AlignUp(size) \in 0 .. (U64 - 1)
      BY <1>0, <1>4, <2>1, <2>2, KmallocOkClean, AlignUpFacts, Zenon
    <3> QED BY <3>1
  <2> QED BY <2>1, <2>2, Zenon
<1>5. HeapTypeOK'
  BY <1>0, <1>2, <1>3, KmallocTypeOK, Zenon DEF OtherHeapUse, kmalloc
<1>6. Core'
  <2>1. TypeOK'
    BY <1>0, <1>1, <1>5, Zenon DEF TypeOK, runVars
  <2>2. CurrentIsRunning' /\ SlicesPositive'
    BY <1>0, <1>1, Zenon DEF Core, CurrentIsRunning, SlicesPositive
  <2>3. OneMode'
    BY <1>0, <1>1, OneModeKept, Zenon DEF Core
  <2> QED BY <1>0, <1>1, <2>1, <2>2, <2>3, TableStep, Zenon
<1>7. Memory'
  <2> SUFFICES ASSUME ~wrapped'
               PROVE  HeapClean' /\ StacksOwned' /\ TidsFresh' /\ Budget' /\ LiveStates'
    BY Zenon DEF Memory
  <2>1. ~wrapped
    BY <1>2, <1>3, <1>4, Zenon DEF OtherHeapUse, kmalloc
  <2>2. HeapClean /\ StacksOwned /\ TidsFresh /\ Budget /\ LiveStates
    BY <1>0, <2>1, Zenon DEF Memory
  <2>3. HeapPtr \in Nat
    BY <2>2 DEF HeapClean, BelowPtr
  <2>4. HeapClean' /\ HeapPtr' >= HeapPtr
    <3>1. HeapPtr >= HeapPtr
      BY <2>3
    <3> QED BY <1>2, <1>3, <1>4, <2>2, <3>1, Zenon DEF OtherHeapUse, kmalloc
  <2>5. StacksOwned'
    <3>1. ASSUME NEW i \in Slots, tid[i] # 0
          PROVE  [base |-> stack_base[i], size |-> THREAD_STACK_SIZE] \in blocks'
      <4>1. [base |-> stack_base[i], size |-> THREAD_STACK_SIZE] \in blocks
        BY <2>1, <2>2, <3>1, Zenon DEF StacksOwned
      <4>2. ASSUME NEW size \in Sizes, kmalloc(size) PROVE blocks \subseteq blocks'
        BY <4>2, Zenon DEF kmalloc, KmallocOk, KmallocNull, heapVars
      <4>3. ASSUME NEW b \in blocks, ~IsStack(b), kfree(b.base)
            PROVE  [base |-> stack_base[i], size |-> THREAD_STACK_SIZE] \in blocks'
        BY <3>1, <4>1, <4>3, Zenon DEF kfree, IsStack
      <4> QED BY <4>1, <4>2, <4>3, Zenon DEF OtherHeapUse
    <3> QED BY <1>1, <2>1, <2>2, <3>1, Zenon DEF StacksOwned
  <2>6. Budget'
    <3>1. HeapPtr' \in Nat
      BY <2>4 DEF HeapClean, BelowPtr
    <3> QED BY <1>1, <2>2, <2>3, <2>4, <3>1 DEF Budget, THREAD_STACK_SIZE
  <2>7. TidsFresh' /\ LiveStates'
    BY <1>1, <2>1, <2>2, Zenon DEF TidsFresh, LiveStates
  <2> QED BY <2>4, <2>5, <2>6, <2>7, Zenon
<1> QED BY <1>6, <1>7, Zenon DEF SchedIInv

\* A successful thread_create and the table.
LEMMA CreateCore ==
  ASSUME Core, NEW slot \in Slots,
         tid[slot] = 0,
         KmallocOk(THREAD_STACK_SIZE),
         tid' = [tid EXCEPT ![slot] = next_tid],
         next_tid' = NextTid,
         state' = [state EXCEPT ![slot] = "READY"],
         time_slice' = [time_slice EXCEPT ![slot] = DEFAULT_TIME_SLICE],
         stack_base' = [stack_base EXCEPT ![slot] = HeapPtr],
         active_thread_count' = ActiveOneMore,
         UNCHANGED <<current_thread, scheduler_ticks, scheduler_enabled, runVars>>,
         THREAD_STACK_SIZE \in 0 .. (U64 - 1)
  PROVE  Core'
<1> USE SchedAssumption, HeapAssumption
<1>0. /\ TypeOK /\ OneMode /\ FrameInv /\ CurrentIsRunning /\ SlicesPositive
      /\ tid \in [Slots -> 0 .. (U32 - 1)]
      /\ state \in [Slots -> {"READY", "RUNNING", "ZOMBIE"}]
      /\ time_slice \in [Slots -> 0 .. DEFAULT_TIME_SLICE]
      /\ stack_base \in [Slots -> 0 .. (U64 - 1)]
      /\ next_tid \in 0 .. (U32 - 1) /\ active_thread_count \in 0 .. (U32 - 1)
      /\ HeapTypeOK
  BY Zenon DEF Core, TypeOK
<1>1. /\ \A i \in Slots \ {slot} : tid'[i] = tid[i] /\ state'[i] = state[i]
                                   /\ time_slice'[i] = time_slice[i]
      /\ state'[slot] = "READY" /\ time_slice'[slot] = DEFAULT_TIME_SLICE
  BY <1>0, Zenon
<1>2. TypeOK'
  <2>1. HeapTypeOK'
    BY <1>0, KmallocTypeOK, Zenon
  <2>2. tid' \in [Slots -> 0 .. (U32 - 1)]
    BY <1>0
  <2>3. HeapPtr \in 0 .. (U64 - 1)
    BY <1>0 DEF HeapPtr, HeapTypeOK
  <2>4. stack_base' \in [Slots -> 0 .. (U64 - 1)]
    BY <1>0, <2>3
  <2>5. state' \in [Slots -> {"READY", "RUNNING", "ZOMBIE"}]
    BY <1>0
  <2>6. time_slice' \in [Slots -> 0 .. DEFAULT_TIME_SLICE]
    BY <1>0
  <2>7. next_tid' \in 0 .. (U32 - 1) /\ active_thread_count' \in 0 .. (U32 - 1)
    BY <1>0 DEF NextTid, ActiveOneMore, Inc32
  <2>8. UNCHANGED <<run_pc, run_i, run_tid, callers, run_nested, again>>
    BY Zenon DEF runVars
  <2> QED BY <1>0, <2>1, <2>2, <2>4, <2>5, <2>6, <2>7, <2>8, Zenon DEF TypeOK
<1>3. CurrentIsRunning'
  BY <1>0, <1>1, Basics, Zenon DEF CurrentIsRunning, TypeOK
<1>4. SlicesPositive'
  <2>1. DEFAULT_TIME_SLICE \in 1 .. DEFAULT_TIME_SLICE
    OBVIOUS
  <2> QED BY <1>0, <1>1, <2>1, Zenon DEF SlicesPositive
<1>5. OneMode'
  <2>1. CASE scheduler_enabled
    BY <1>0, <1>1, <2>1, Zenon DEF OneMode, runVars
  <2>2. CASE ~scheduler_enabled /\ Protocol = "one"
    <3>1. \A n \in Levels : tid[Frame(n).slot] # 0
      <4>1. again = {}
        BY <1>0, <2>2, Zenon DEF OneMode
      <4> QED BY <1>0, <4>1 DEF FrameInv, ExecutingSlotKept
    <3>2. \A n \in Levels : Frame(n).slot # slot
      BY <3>1, Zenon
    <3>3. state[slot] # "RUNNING"
      BY <1>0, <2>2, <3>2, Zenon DEF OneMode
    <3>4. \A i \in Slots : state'[i] = "RUNNING" <=> state[i] = "RUNNING"
      BY <1>1, <3>3, Zenon
    <3> QED BY <1>0, <3>4, OneModeKept, Zenon
  <2> QED BY <2>1, <2>2, Zenon DEF OneMode
<1>6. \A i \in Slots : tid[i] # 0 /\ state[i] # "ZOMBIE" =>
        tid'[i] = tid[i] /\ state'[i] # "ZOMBIE"
  BY <1>1, Zenon
<1> QED BY <1>2, <1>3, <1>4, <1>5, <1>6, TableStep, Zenon

\* A successful thread_create and the memory: the new stack lies above all live
\* blocks, and the tid is one nobody has, because the heap still had room for a
\* stack.
LEMMA CreateMemory ==
  ASSUME Core, Memory, NEW slot \in Slots,
         tid[slot] = 0,
         KmallocOk(THREAD_STACK_SIZE),
         tid' = [tid EXCEPT ![slot] = next_tid],
         next_tid' = NextTid,
         state' = [state EXCEPT ![slot] = "READY"],
         stack_base' = [stack_base EXCEPT ![slot] = HeapPtr],
         active_thread_count' = ActiveOneMore,
         THREAD_STACK_SIZE \in 0 .. (U64 - 1)
  PROVE  Memory'
<1> SUFFICES ASSUME ~wrapped'
             PROVE  HeapClean' /\ StacksOwned' /\ TidsFresh' /\ Budget' /\ LiveStates'
  BY Zenon DEF Memory
<1> USE SchedAssumption, HeapAssumption, StackAssumption
<1>0. /\ ~wrapped /\ TypeOK /\ HeapTypeOK
      /\ HeapClean /\ StacksOwned /\ TidsFresh /\ Budget /\ LiveStates
  <2>1. ~wrapped
    BY Zenon DEF KmallocOk
  <2> QED BY <2>1, Zenon DEF Memory, Core, TypeOK
<1>1. /\ tid \in [Slots -> 0 .. (U32 - 1)]
      /\ state \in [Slots -> {"READY", "RUNNING", "ZOMBIE"}]
      /\ stack_base \in [Slots -> 0 .. (U64 - 1)]
      /\ next_tid \in 1 .. (U32 - 1) /\ active_thread_count = next_tid - 1
      /\ HEAP_START + (next_tid - 1) * 8192 <= HeapPtr
  BY <1>0 DEF TypeOK, Budget, THREAD_STACK_SIZE
<1>2. HeapClean' /\ HeapPtr \in Nat /\ HeapPtr' = HeapPtr + AlignUp(THREAD_STACK_SIZE)
  BY <1>0, KmallocOkClean, Zenon
<1>3. HeapPtr' = HeapPtr + 8192 /\ HeapPtr' <= HEAP_START + HEAP_SIZE - 1
  <2>1. ~(THREAD_STACK_SIZE + 7 >= U64)
    BY Zenon DEF KmallocOk, Wraps
  <2>2. AlignUp(THREAD_STACK_SIZE) = 8192
    BY <2>1 DEF AlignUp, Wrap, THREAD_STACK_SIZE
  <2> QED BY <1>2, <2>2 DEF HeapClean, BelowPtr
<1>4. HEAP_START + next_tid * 8192 <= HeapPtr' /\ next_tid * 8192 < (U32 - 1) * 8192
  BY <1>1, <1>2, <1>3 DEF THREAD_STACK_SIZE
<1>5. next_tid + 1 \in 1 .. (U32 - 1) /\ next_tid' = next_tid + 1
  BY <1>1, <1>4 DEF NextTid, Inc32
<1>6. active_thread_count' = next_tid
  BY <1>1, <1>5 DEF ActiveOneMore, Inc32
<1>7. Budget'
  BY <1>1, <1>4, <1>5, <1>6 DEF Budget, THREAD_STACK_SIZE
<1>8. StacksOwned'
  <2>1. blocks' = blocks \cup {[base |-> HeapPtr, size |-> THREAD_STACK_SIZE]}
    BY Zenon DEF KmallocOk
  <2>2. \A i \in Slots : i # slot => tid'[i] = tid[i] /\ stack_base'[i] = stack_base[i]
    BY <1>1
  <2>3. stack_base'[slot] = HeapPtr
    BY <1>1
  <2>4. \A i \in Slots : i # slot /\ tid'[i] # 0 =>
           /\ [base |-> stack_base[i], size |-> THREAD_STACK_SIZE] \in blocks
           /\ stack_base[i] + THREAD_STACK_SIZE <= HeapPtr
    BY <1>0, <2>2 DEF StacksOwned, HeapClean, BelowPtr
  <2>5. \A i \in Slots : tid'[i] # 0 =>
          [base |-> stack_base'[i], size |-> THREAD_STACK_SIZE] \in blocks'
    BY <2>1, <2>2, <2>3, <2>4
  <2>6. \A i, j \in Slots : tid'[i] # 0 /\ tid'[j] # 0 /\ i # j =>
         \/ stack_base'[i] + THREAD_STACK_SIZE <= stack_base'[j]
         \/ stack_base'[j] + THREAD_STACK_SIZE <= stack_base'[i]
    <3> SUFFICES ASSUME NEW i \in Slots, NEW j \in Slots, tid'[i] # 0, tid'[j] # 0, i # j
                 PROVE  \/ stack_base'[i] + THREAD_STACK_SIZE <= stack_base'[j]
                        \/ stack_base'[j] + THREAD_STACK_SIZE <= stack_base'[i]
      OBVIOUS
    <3>1. CASE i = slot
      BY <2>2, <2>3, <2>4, <3>1, Zenon
    <3>2. CASE j = slot
      BY <2>2, <2>3, <2>4, <3>2, Zenon
    <3>3. CASE i # slot /\ j # slot
      BY <1>0, <2>2, <3>3, Zenon DEF StacksOwned
    <3> QED
      BY <3>1, <3>2, <3>3, Zenon
  <2> QED BY <2>5, <2>6, Zenon DEF StacksOwned
<1>9. TidsFresh'
  <2>1. \A i \in Slots : tid[i] \in Nat /\ tid[i] < next_tid
    BY <1>0, <1>1 DEF TidsFresh
  <2>2. \A i, j \in Slots : tid[i] = tid[j] /\ tid[i] # 0 => i = j
    BY <1>0, Zenon DEF TidsFresh
  <2> QED BY <1>1, <1>5, <2>1, <2>2 DEF TidsFresh
<1>10. LiveStates'
  BY <1>0, <1>1 DEF LiveStates
<1> QED BY <1>2, <1>7, <1>8, <1>9, <1>10, Zenon

\* thread_create: a thread, or no room in the heap, or no slot in the table.
LEMMA ThreadCreateInv == SchedIInv /\ thread_create => SchedIInv'
<1> SUFFICES ASSUME SchedIInv, thread_create PROVE SchedIInv'
  BY Zenon
<1>0. Core /\ Memory
  BY Zenon DEF SchedIInv
<1>1. ASSUME NEW slot \in Slots, FreeSlot(slot), KmallocOk(THREAD_STACK_SIZE),
             tid' = [tid EXCEPT ![slot] = next_tid],
             next_tid' = NextTid,
             state' = [state EXCEPT ![slot] = "READY"],
             time_slice' = [time_slice EXCEPT ![slot] = DEFAULT_TIME_SLICE],
             stack_base' = [stack_base EXCEPT ![slot] = HeapPtr],
             active_thread_count' = ActiveOneMore,
             UNCHANGED <<current_thread, scheduler_ticks, scheduler_enabled, runVars>>
      PROVE  SchedIInv'
  <2>1. tid[slot] = 0
    BY <1>1, Zenon DEF FreeSlot
  <2>2. THREAD_STACK_SIZE \in 0 .. (U64 - 1)
    BY StackAssumption, HeapAssumption DEF THREAD_STACK_SIZE
  <2>3. Core'
    BY <1>0, <1>1, <2>1, <2>2, CreateCore, Zenon
  <2>4. Memory'
    BY <1>0, <1>1, <2>1, <2>2, CreateMemory, Zenon
  <2> QED BY <2>3, <2>4, Zenon DEF SchedIInv
<1>2. ASSUME simple_heap_ptr' \in {simple_heap_ptr, HeapPtr},
             UNCHANGED <<blocks, wrapped, tableVars, current_thread, next_tid,
                         active_thread_count, scheduler_ticks, scheduler_enabled, runVars>>
      PROVE  SchedIInv'
  <2>1. UNCHANGED <<tid, state, time_slice, stack_base, current_thread, next_tid,
                    active_thread_count, scheduler_ticks, scheduler_enabled, runVars>>
    BY <1>2, Zenon DEF tableVars
  <2>2. HeapTypeOK'
    BY <1>0, <1>2, FewerBlocksInv, Zenon DEF Core, TypeOK
  <2>3. TypeOK'
    BY <1>0, <2>1, <2>2, Zenon DEF Core, TypeOK, runVars
  <2>4. CurrentIsRunning' /\ SlicesPositive'
    BY <1>0, <2>1, Zenon DEF Core, CurrentIsRunning, SlicesPositive
  <2>5. OneMode'
    BY <1>0, <2>1, OneModeKept, Zenon DEF Core
  <2>6. Core'
    BY <1>0, <2>1, <2>3, <2>4, <2>5, TableStep, Zenon
  <2>7. Memory'
    BY <1>0, <1>2, <2>1, MemoryKept, Zenon
  <2> QED BY <2>6, <2>7, Zenon DEF SchedIInv
<1>3. CASE UNCHANGED vars
  BY <1>2, <1>3, Zenon DEF vars, heapVars
<1> QED BY <1>1, <1>2, <1>3, Zenon DEF thread_create, KmallocNull, heapVars

\* sched_start
LEMMA StartInv == SchedIInv /\ MayStart /\ sched_start => SchedIInv'
<1> SUFFICES ASSUME SchedIInv, MayStart, sched_start PROVE SchedIInv'
  BY Zenon
<1>0. /\ Core /\ Memory /\ TypeOK /\ OneMode /\ CurrentIsRunning /\ FrameInv
      /\ UNCHANGED <<simple_heap_ptr, blocks, wrapped, tid, time_slice, stack_base, next_tid,
                     active_thread_count, scheduler_ticks, runVars>>
      /\ scheduler_enabled' = TRUE
  BY Zenon DEF SchedIInv, Core, sched_start, heapVars
<1>1. ASSUME current_thread' \in Slots \cup {NULL},
             state' \in [Slots -> {"READY", "RUNNING", "ZOMBIE"}],
             \A i \in Slots : tid[i] = 0 => state'[i] = state[i],
             \A i \in Slots : state[i] # "ZOMBIE" => state'[i] # "ZOMBIE",
             CurrentIsRunning', OneMode'
      PROVE  SchedIInv'
  <2>1. TypeOK'
    <3>1. UNCHANGED <<run_pc, run_i, run_tid, callers, run_nested, again>>
      BY <1>0, Zenon DEF runVars
    <3> QED BY <1>0, <1>1, <3>1, Zenon DEF TypeOK, HeapTypeOK
  <2>2. SlicesPositive'
    BY <1>0, Zenon DEF Core, SlicesPositive
  <2>3. Core'
    BY <1>0, <1>1, <2>1, <2>2, TableStep, Zenon
  <2>4. Memory'
    BY <1>0, <1>1, MemoryKept, Zenon
  <2> QED BY <2>3, <2>4, Zenon DEF SchedIInv
<1>2. Protocol = "one" =>
        /\ run_pc = "idle" /\ again = {} /\ UNCHANGED <<run_pc, again>>
        /\ \A i \in Slots : state[i] # "RUNNING"
        /\ current_thread = NULL
  <2> SUFFICES ASSUME Protocol = "one"
               PROVE  /\ run_pc = "idle" /\ again = {} /\ UNCHANGED <<run_pc, again>>
                      /\ \A i \in Slots : state[i] # "RUNNING"
                      /\ current_thread = NULL
    BY Zenon
  <2>1. ~scheduler_enabled /\ run_pc = "idle" /\ again = {} /\ UNCHANGED <<run_pc, again>>
    BY <1>0, Zenon DEF MayStart, OneMode, runVars
  <2>2. callers = <<>>
    BY <1>0, <2>1, Zenon DEF FrameInv
  <2>3. Top = 0 /\ Levels = {}
    BY <2>1, <2>2 DEF Top, Levels
  <2> QED BY <1>0, <2>1, <2>3, Zenon DEF OneMode
<1>3. ASSUME NEW first \in Slots, Ready(first), current_thread' = first,
             state' = [state EXCEPT ![first] = "RUNNING"]
      PROVE  SchedIInv'
  <2>1. state \in [Slots -> {"READY", "RUNNING", "ZOMBIE"}]
    BY <1>0, Zenon DEF TypeOK
  <2>2. /\ state'[first] = "RUNNING" /\ tid[first] # 0
        /\ \A i \in Slots \ {first} : state'[i] = state[i]
        /\ state' \in [Slots -> {"READY", "RUNNING", "ZOMBIE"}]
    BY <1>3, <2>1, Zenon DEF Ready, ReadyIn
  <2>3. CurrentIsRunning'
    BY <1>0, <1>3, <2>2, Zenon DEF CurrentIsRunning
  <2>4. OneMode'
    BY <1>0, <1>2, <1>3, <2>2, Zenon DEF OneMode
  <2>5. \A i \in Slots : tid[i] = 0 => state'[i] = state[i]
    BY <2>2, Zenon
  <2>6. \A i \in Slots : state[i] # "ZOMBIE" => state'[i] # "ZOMBIE"
    BY <2>2, Zenon
  <2> QED BY <1>1, <1>3, <2>2, <2>3, <2>4, <2>5, <2>6, Zenon
<1>4. ASSUME UNCHANGED <<current_thread, state>> PROVE SchedIInv'
  <2>1. CurrentIsRunning'
    BY <1>0, <1>4, Zenon DEF CurrentIsRunning
  <2>2. OneMode'
    BY <1>0, <1>2, <1>4, Zenon DEF OneMode
  <2> QED BY <1>0, <1>1, <1>4, <2>1, <2>2, Zenon DEF TypeOK
<1> QED BY <1>3, <1>4, Zenon DEF sched_start, find_next_thread, Ready

-----------------------------------------------------------------------------
\* The steps of sched_run_threads.

\* They leave the memory alone: what they mark READY or RUNNING is a live thread.
LEMMA RunStep ==
  ASSUME SchedIInv, UNCHANGED outsideRun,
         state' \in [Slots -> {"READY", "RUNNING", "ZOMBIE"}],
         \A i \in Slots : tid[i] = 0 => state'[i] = state[i] \/ state'[i] = "ZOMBIE",
         current_thread' \in Slots \cup {NULL},
         run_pc' \in {"idle", "scan", "exec"},
         run_i' \in 0 .. MAX_THREADS,
         run_tid' \in 0 .. (U32 - 1),
         callers' \in Seq([slot : Slots, tid : 0 .. (U32 - 1)]),
         Len(callers') <= MaxNesting,
         run_nested' \in BOOLEAN,
         again' \subseteq 1 .. (MaxNesting + 1),
         CurrentIsRunning', FrameInv', OneMode'
  PROVE  SchedIInv'
<1>0. Core /\ Memory
  BY Zenon DEF SchedIInv
<1>1. UNCHANGED <<simple_heap_ptr, blocks, wrapped, tid, time_slice, stack_base, next_tid,
                  active_thread_count, scheduler_ticks, scheduler_enabled>>
  BY Zenon DEF outsideRun, heapVars
<1>2. TypeOK'
  BY <1>0, <1>1, Zenon DEF Core, TypeOK, HeapTypeOK
<1>3. SlicesPositive'
  BY <1>0, <1>1, Zenon DEF Core, SlicesPositive
<1>4. Memory'
  BY <1>0, <1>1, MemoryKept, Zenon
<1> QED BY <1>2, <1>3, <1>4, Zenon DEF SchedIInv, Core

\* Both ends of a call leave every level that is in an entry point as it was.
LEMMA SameLevels ==
  ASSUME FrameInv, OneMode, UNCHANGED outsideRun,
         UNCHANGED <<state, current_thread, again>>,
         Top' = Top, Levels' = Levels, \A n \in Levels : Frame(n)' = Frame(n),
         Top \in Nat,
         run_pc' = "idle" => callers' = <<>>,
         Protocol = "one" /\ scheduler_enabled => run_pc' = "idle",
         ~(run_pc' = "exec" /\ ~run_nested')
  PROVE  FrameInv' /\ OneMode'
<1>0. UNCHANGED <<tid, scheduler_enabled>>
  BY Zenon DEF outsideRun
<1>1. Top # 0 => Frame(Top)' = Frame(Top)
  <2> SUFFICES ASSUME Top # 0 PROVE Frame(Top)' = Frame(Top)
    BY Zenon
  <2>1. PICK t \in Levels : t = Top
    BY DEF Levels
  <2>2. Frame(t)' = Frame(t)
    BY Zenon
  <2> QED BY <2>1, <2>2 DEF Frame
<1>2. ExecutingSlotKept'
  BY <1>0, Zenon DEF FrameInv, ExecutingSlotKept
<1>3. FrameInv'
  BY <1>0, <1>2, Zenon DEF FrameInv
<1>4. OneMode'
  BY <1>0, <1>1, Zenon DEF OneMode
<1> QED BY <1>3, <1>4, Zenon

-----------------------------------------------------------------------------
\* sched_run_threads is called, by the kernel or by an entry point.
LEMMA RunCallInv == SchedIInv /\ MayRun /\ sched_run_threads => SchedIInv'
<1> SUFFICES ASSUME SchedIInv, MayRun, sched_run_threads PROVE SchedIInv'
  BY Zenon
<1> USE SchedAssumption
<1>0. /\ TypeOK /\ FrameInv /\ OneMode /\ CurrentIsRunning
      /\ UNCHANGED <<outsideRun, state, current_thread, run_tid, again>>
      /\ run_pc' = "scan" /\ run_i' = 0 /\ run_nested' = FALSE
  BY Zenon DEF SchedIInv, Core, sched_run_threads
<1>1. /\ Top' = Top /\ Levels' = Levels /\ \A n \in Levels : Frame(n)' = Frame(n)
      /\ callers' \in Seq([slot : Slots, tid : 0 .. (U32 - 1)])
      /\ Len(callers') <= MaxNesting
  <2>1. CASE run_pc = "idle" /\ UNCHANGED callers
    <3>1. callers = <<>> /\ callers' = <<>>
      BY <1>0, <2>1, Zenon DEF FrameInv
    <3>2. Top = 0 /\ Top' = 0 /\ Levels = {} /\ Levels' = {}
      BY <1>0, <2>1, <3>1 DEF Top, Levels
    <3>3. Top' = Top /\ Levels' = Levels /\ \A n \in Levels : Frame(n)' = Frame(n)
      BY <3>2, Zenon
    <3> QED BY <1>0, <2>1, <3>3, Zenon DEF TypeOK
  <2>2. CASE /\ run_pc = "exec" /\ Len(callers) < MaxNesting
             /\ callers' = Append(callers, Executed(run_i, run_tid))
    <3>1. Top' = Top /\ Levels' = Levels /\ \A n \in Levels : Frame(n)' = Frame(n)
      BY <1>0, <2>2, FramesPushed, Zenon
    <3>2. run_i \in Slots
      <4>1. Top \in Levels /\ Frame(Top) = Executed(run_i, run_tid)
        BY <1>0, <2>2, Basics DEF Top, Levels, Frame, Executed
      <4>2. Executed(run_i, run_tid).slot \in Slots
        BY <1>0, <4>1, Zenon DEF FrameInv
      <4> QED BY <4>2 DEF Executed
    <3>3. /\ callers' \in Seq([slot : Slots, tid : 0 .. (U32 - 1)])
          /\ Len(callers') <= MaxNesting
      <4> DEFINE F == [slot : Slots, tid : 0 .. (U32 - 1)]
      <4>1. Executed(run_i, run_tid) \in F /\ callers \in Seq(F)
        BY <1>0, <3>2 DEF Executed, TypeOK
      <4> HIDE DEF F
      <4>2. callers' \in Seq(F) /\ Len(callers') = Len(callers) + 1 /\ Len(callers) \in Nat
        BY <2>2, <4>1
      <4> QED BY <2>2, <4>2 DEF F
    <3> QED BY <3>1, <3>3, Zenon
  <2> QED BY <2>1, <2>2, Zenon DEF sched_run_threads
<1>2. FrameInv' /\ OneMode'
  <2>1. run_pc' # "idle" /\ ~(run_pc' = "exec" /\ ~run_nested')
    BY <1>0
  <2>2. Top \in Nat /\ ~(Protocol = "one" /\ scheduler_enabled)
    BY <1>0, Basics DEF MayRun
  <2> QED BY <1>0, <1>1, <2>1, <2>2, SameLevels, Zenon
<1>3. CurrentIsRunning'
  BY <1>0, Zenon DEF CurrentIsRunning, outsideRun
<1>4. 0 \in 0 .. MAX_THREADS
  OBVIOUS
<1> QED BY <1>0, <1>1, <1>2, <1>3, <1>4, RunStep, Zenon DEF TypeOK

\* The loop ends, and a nested call returns to the entry point that made it.
LEMMA RunFinishInv == SchedIInv /\ RunFinish => SchedIInv'
<1> SUFFICES ASSUME SchedIInv, RunFinish PROVE SchedIInv'
  BY Zenon
<1> USE SchedAssumption
<1>0. /\ TypeOK /\ FrameInv /\ OneMode /\ CurrentIsRunning /\ run_pc = "scan"
      /\ UNCHANGED <<outsideRun, state, current_thread, again>>
  BY Zenon DEF SchedIInv, Core, RunFinish
<1>1. CurrentIsRunning'
  BY <1>0, Zenon DEF CurrentIsRunning, outsideRun
<1>2. Top \in Nat /\ ~(Protocol = "one" /\ scheduler_enabled)
  <2>1. ~(Protocol = "one" /\ scheduler_enabled)
    <3>1. run_pc # "idle"
      BY <1>0
    <3> QED BY <1>0, <3>1, Zenon DEF OneMode
  <2> QED BY <1>0, <2>1, Basics, Zenon
<1>3. CASE callers = <<>> /\ run_pc' = "idle" /\ UNCHANGED <<run_i, run_tid, callers, run_nested>>
  <2>1. Top' = Top /\ Levels' = Levels /\ \A n \in Levels : Frame(n)' = Frame(n)
    BY <1>0, <1>3 DEF Top, Levels, Frame, Executed
  <2>2. ~(run_pc' = "exec" /\ ~run_nested')
    BY <1>3
  <2>3. FrameInv' /\ OneMode'
    BY <1>0, <1>2, <1>3, <2>1, <2>2, SameLevels, Zenon
  <2> QED BY <1>0, <1>1, <1>3, <2>3, RunStep, Zenon DEF TypeOK
<1>4. CASE /\ callers # <<>> /\ run_pc' = "exec"
           /\ run_i' = callers[Len(callers)].slot /\ run_tid' = callers[Len(callers)].tid
           /\ callers' = SubSeq(callers, 1, Len(callers) - 1) /\ run_nested' = TRUE
  <2>1. /\ Top' = Top /\ Levels' = Levels /\ \A n \in Levels : Frame(n)' = Frame(n)
        /\ callers' \in Seq([slot : Slots, tid : 0 .. (U32 - 1)])
        /\ Len(callers') <= MaxNesting
        /\ run_i' \in Slots /\ run_tid' \in 0 .. (U32 - 1)
    BY <1>0, <1>4, FramesPopped, Zenon
  <2>2. run_pc' # "idle" /\ ~(run_pc' = "exec" /\ ~run_nested')
    BY <1>4
  <2>3. FrameInv' /\ OneMode'
    BY <1>0, <1>2, <2>1, <2>2, SameLevels, Zenon
  <2>4. run_i' \in 0 .. MAX_THREADS
    BY <2>1 DEF Slots
  <2> QED BY <1>0, <1>1, <1>4, <2>1, <2>3, <2>4, RunStep, Zenon DEF TypeOK
<1> QED BY <1>3, <1>4, Zenon DEF RunFinish

\* The loop calls the entry point of a READY thread.
LEMMA RunEnterInv == SchedIInv /\ RunEnter => SchedIInv'
<1> SUFFICES ASSUME SchedIInv, RunEnter PROVE SchedIInv'
  BY Zenon
<1> USE SchedAssumption
<1>0. /\ TypeOK /\ FrameInv /\ OneMode /\ CurrentIsRunning /\ run_pc = "scan"
      /\ UNCHANGED <<outsideRun, callers, run_nested>> /\ run_pc' = "exec"
      /\ UNCHANGED <<tid, scheduler_enabled>>
  BY Zenon DEF SchedIInv, Core, RunEnter, outsideRun
<1>1. PICK i \in run_i .. (MAX_THREADS - 1) :
        /\ Ready(i) /\ current_thread' = i
        /\ state' = [state EXCEPT ![i] = "RUNNING"]
        /\ run_i' = i /\ run_tid' = tid[i]
        /\ again' = again \cup {n \in DOMAIN callers : callers[n] = Executed(i, tid[i])}
  BY Zenon DEF RunEnter
<1>2. /\ i \in Slots /\ i \in 0 .. MAX_THREADS /\ tid[i] # 0 /\ state[i] = "READY"
      /\ tid[i] \in 0 .. (U32 - 1)
  BY <1>0, <1>1 DEF TypeOK, Slots, Ready, ReadyIn
<1>3. /\ state' \in [Slots -> {"READY", "RUNNING", "ZOMBIE"}]
      /\ state'[i] = "RUNNING" /\ \A k \in Slots \ {i} : state'[k] = state[k]
  BY <1>0, <1>1, <1>2, Zenon DEF TypeOK
<1>4. /\ Top' = Top + 1 /\ Levels' = Levels \cup {Top + 1}
      /\ Levels = DOMAIN callers /\ \A n \in Levels : n < Top + 1
      /\ \A n \in Levels : Frame(n) = callers[n] /\ Frame(n)' = Frame(n)
      /\ \A n : n = Top + 1 => Frame(n)' = Executed(i, tid[i])
  BY <1>0, <1>1, FramesEntered, Zenon
<1>5. again' \subseteq 1 .. (MaxNesting + 1)
  <2>1. /\ Len(callers) \in Nat /\ Len(callers) <= MaxNesting
        /\ DOMAIN callers = 1 .. Len(callers) /\ again \subseteq 1 .. (MaxNesting + 1)
    BY <1>0, Basics, Zenon DEF TypeOK
  <2>2. 1 .. Len(callers) \subseteq 1 .. (MaxNesting + 1)
    BY <2>1
  <2> QED BY <1>1, <2>1, <2>2, Zenon
<1>6. Executed(i, tid[i]).slot = i /\ Executed(i, tid[i]).tid = tid[i]
  BY DEF Executed
<1>7. CurrentIsRunning'
  BY <1>0, <1>1, <1>2, <1>3, Zenon DEF CurrentIsRunning
<1>8. ExecutingSlotKept'
  <2> SUFFICES ASSUME NEW n \in Levels', n \notin again'
               PROVE  /\ Frame(n)'.tid # 0
                      /\ tid[Frame(n)'.slot] = Frame(n)'.tid
                      /\ state'[Frame(n)'.slot] # "ZOMBIE"
    BY <1>0, Zenon DEF ExecutingSlotKept
  <2>1. CASE n = Top + 1
    BY <1>2, <1>3, <1>4, <1>6, <2>1
  <2>2. CASE n \in Levels
    <3>1. n \notin again
      BY <1>1, Zenon
    <3>2. /\ Frame(n)'.tid # 0 /\ tid[Frame(n)'.slot] = Frame(n)'.tid
          /\ state[Frame(n)'.slot] # "ZOMBIE" /\ Frame(n)'.slot \in Slots
      BY <1>0, <1>4, <2>2, <3>1, Zenon DEF FrameInv, ExecutingSlotKept
    <3> QED BY <1>3, <3>2
  <2> QED BY <1>4, <2>1, <2>2, Zenon
<1>9. FrameInv'
  <2>1. \A n \in Levels' : Frame(n)'.slot \in Slots
    BY <1>0, <1>2, <1>4, <1>6, Zenon DEF FrameInv
  <2>2. ASSUME NEW m \in Levels', NEW n \in Levels', m < n, Frame(m)'.slot = Frame(n)'.slot
        PROVE  m \in again'
    <3>1. m \in Levels
      <4>1. Top \in Nat /\ Levels \subseteq Nat
        BY <1>0, Basics DEF Levels
      <4> QED BY <1>4, <2>2, <4>1
    <3>2. CASE n \in Levels
      <4>1. Frame(m).slot = Frame(n).slot
        BY <1>4, <2>2, <3>1, <3>2
      <4> QED BY <1>0, <1>1, <2>2, <3>1, <3>2, <4>1, Zenon DEF FrameInv
    <3>3. CASE n = Top + 1
      <4>1. Frame(m).slot = i
        BY <1>4, <1>6, <2>2, <3>1, <3>3
      <4>2. CASE m \in again
        BY <1>1, <4>2, Zenon
      <4>3. CASE m \notin again
        <5>1. tid[i] = Frame(m).tid
          BY <1>0, <3>1, <4>1, <4>3, Zenon DEF FrameInv, ExecutingSlotKept
        <5>2. callers[m] = Executed(callers[m].slot, callers[m].tid)
          <6> DEFINE F == [slot : Slots, tid : 0 .. (U32 - 1)]
          <6>1. \A e \in F : e = Executed(e.slot, e.tid)
            BY DEF Executed
          <6>2. callers \in Seq(F)
            BY <1>0, Zenon DEF TypeOK
          <6> HIDE DEF F
          <6>3. callers[m] \in F
            BY <1>4, <3>1, <6>2
          <6> QED BY <6>1, <6>3, Zenon
        <5>3. callers[m] = Executed(i, tid[i])
          BY <1>4, <3>1, <4>1, <5>1, <5>2
        <5> QED BY <1>1, <1>4, <3>1, <5>3, Zenon
      <4> QED BY <4>2, <4>3, Zenon
    <3> QED BY <1>4, <3>2, <3>3, Zenon
  <2>3. run_pc' # "idle"
    BY <1>0
  <2> QED BY <1>8, <2>1, <2>2, <2>3, Zenon DEF FrameInv
<1>10. OneMode'
  <2> SUFFICES ASSUME Protocol = "one" PROVE OneMode'
    BY Zenon DEF OneMode
  <2>1. run_pc # "idle"
    BY <1>0
  <2>2. /\ again = {} /\ ~scheduler_enabled
        /\ \A k \in Slots : state[k] = "RUNNING" <=> \E n \in Levels : Frame(n).slot = k
    BY <1>0, <2>1, Zenon DEF OneMode
  <2>3. \A n \in Levels : Frame(n).slot # i
    BY <1>2, <2>2
  <2>4. again' = {}
    <3>1. \A n \in DOMAIN callers : callers[n] # Executed(i, tid[i])
      BY <1>4, <1>6, <2>3
    <3> QED BY <1>1, <2>2, <3>1, Zenon
  <2>5. ASSUME NEW k \in Slots
        PROVE  state'[k] = "RUNNING" <=> \E n \in Levels' : Frame(n)'.slot = k
    <3>1. CASE k = i
      <4>1. \E n \in Levels' : n = Top + 1 /\ Frame(n)'.slot = i
        BY <1>4, <1>6, Zenon
      <4> QED BY <1>3, <3>1, <4>1, Zenon
    <3>2. CASE k # i
      <4>1. state'[k] = state[k]
        BY <1>3, <3>2, Zenon
      <4>2. ASSUME NEW n \in Levels', Frame(n)'.slot = k PROVE n \in Levels /\ Frame(n).slot = k
        <5>1. n # Top + 1
          BY <1>4, <1>6, <3>2, <4>2
        <5> QED BY <1>4, <4>2, <5>1, Zenon
      <4>3. ASSUME NEW n \in Levels, Frame(n).slot = k PROVE n \in Levels' /\ Frame(n)'.slot = k
        BY <1>4, <4>3, Zenon
      <4> QED BY <2>2, <4>1, <4>2, <4>3, Zenon
    <3> QED BY <3>1, <3>2, Zenon
  <2>6. Top' # 0 /\ current_thread' = (Frame(Top).slot)'
    <3>1. Top \in Nat
      BY <1>0, Basics, Zenon
    <3>2. Top' # 0
      BY <1>4, <3>1
    <3>3. PICK n \in Levels' : n = Top + 1 /\ Frame(n)'.slot = i
      BY <1>4, <1>6, Zenon
    <3>4. Frame(n)' = (Frame(Top))'
      BY <1>4, <3>3 DEF Frame, Executed
    <3> QED BY <1>1, <3>2, <3>3, <3>4, Zenon
  <2>7. current_thread' = run_i'
    BY <1>1, Zenon
  <2> QED BY <1>0, <2>2, <2>4, <2>5, <2>6, <2>7, Zenon DEF OneMode
<1>11. /\ \A k \in Slots : tid[k] = 0 => state'[k] = state[k] \/ state'[k] = "ZOMBIE"
       /\ Len(callers') <= MaxNesting
       /\ callers' \in Seq([slot : Slots, tid : 0 .. (U32 - 1)])
       /\ run_nested' \in BOOLEAN
  BY <1>0, <1>2, <1>3, Zenon DEF TypeOK
<1> QED BY <1>0, <1>1, <1>2, <1>3, <1>5, <1>7, <1>9, <1>10, <1>11, RunStep, Zenon

\* The entry point returns.
LEMMA RunReturnInv == SchedIInv /\ RunReturn => SchedIInv'
<1> SUFFICES ASSUME SchedIInv, RunReturn PROVE SchedIInv'
  BY Zenon
<1> USE SchedAssumption
<1>0. /\ TypeOK /\ FrameInv /\ OneMode /\ run_pc = "exec"
      /\ UNCHANGED <<outsideRun, run_tid, callers>> /\ run_pc' = "scan"
      /\ UNCHANGED <<tid, scheduler_enabled>>
      /\ state' = [state EXCEPT ![run_i] = "ZOMBIE"] /\ current_thread' = NULL
      /\ run_i' = run_i + 1 /\ run_nested' = FALSE /\ again' = again \ {Len(callers) + 1}
  BY Zenon DEF SchedIInv, Core, RunReturn, outsideRun, Finished, LoopNext
<1>1. /\ Top \in Levels /\ Top = Len(callers) + 1 /\ Levels' = Levels \ {Top}
      /\ Frame(Top) = Executed(run_i, run_tid)
      /\ \A n \in Levels' : Frame(n)' = Frame(n) /\ n < Top
  BY <1>0, FramesReturned, Zenon
<1>2. Frame(Top).slot = run_i /\ run_i \in Slots
  <2>1. Frame(Top).slot = run_i
    BY <1>1 DEF Executed
  <2> QED BY <1>0, <1>1, <2>1, Zenon DEF FrameInv
<1>3. /\ state' \in [Slots -> {"READY", "RUNNING", "ZOMBIE"}]
      /\ state'[run_i] = "ZOMBIE" /\ \A k \in Slots \ {run_i} : state'[k] = state[k]
  BY <1>0, <1>2, Zenon DEF TypeOK
<1>4. again' = again \ {Top}
  BY <1>0, <1>1, Zenon
<1>5. \A n \in Levels' : n \notin again => Frame(n).slot # run_i
  <2> SUFFICES ASSUME NEW n \in Levels', Frame(n).slot = run_i PROVE n \in again
    BY Zenon
  <2>1. n \in Levels /\ n < Top /\ Frame(n).slot = Frame(Top).slot
    BY <1>1, <1>2, Zenon
  <2> QED BY <1>0, <1>1, <2>1, Zenon DEF FrameInv
<1>6. ExecutingSlotKept'
  <2> SUFFICES ASSUME NEW n \in Levels', n \notin again'
               PROVE  /\ Frame(n)'.tid # 0
                      /\ tid[Frame(n)'.slot] = Frame(n)'.tid
                      /\ state'[Frame(n)'.slot] # "ZOMBIE"
    BY <1>0, Zenon DEF ExecutingSlotKept
  <2>1. n \in Levels /\ n \notin again /\ Frame(n)' = Frame(n)
    BY <1>1, <1>4, Zenon
  <2>2. /\ Frame(n).tid # 0 /\ tid[Frame(n).slot] = Frame(n).tid
        /\ state[Frame(n).slot] # "ZOMBIE" /\ Frame(n).slot \in Slots
    BY <1>0, <2>1, Zenon DEF FrameInv, ExecutingSlotKept
  <2> QED BY <1>3, <1>5, <2>1, <2>2
<1>7. FrameInv'
  <2>1. \A n \in Levels' : Frame(n)'.slot \in Slots
    BY <1>0, <1>1, Zenon DEF FrameInv
  <2>2. ASSUME NEW m \in Levels', NEW n \in Levels', m < n, Frame(m)'.slot = Frame(n)'.slot
        PROVE  m \in again'
    <3>1. m \in Levels /\ n \in Levels /\ m # Top
      BY <1>1, Zenon
    <3>2. Frame(m).slot = Frame(n).slot
      BY <1>1, <2>2
    <3> QED BY <1>0, <1>4, <2>2, <3>1, <3>2, Zenon DEF FrameInv
  <2>3. run_pc' # "idle"
    BY <1>0
  <2> QED BY <1>6, <2>1, <2>2, <2>3, Zenon DEF FrameInv
<1>8. OneMode'
  <2> SUFFICES ASSUME Protocol = "one" PROVE OneMode'
    BY Zenon DEF OneMode
  <2>1. run_pc # "idle" /\ run_pc' # "exec"
    BY <1>0
  <2>2. /\ again = {} /\ ~scheduler_enabled
        /\ \A k \in Slots : state[k] = "RUNNING" <=> \E n \in Levels : Frame(n).slot = k
    BY <1>0, <2>1, Zenon DEF OneMode
  <2>3. again' = {}
    BY <1>4, <2>2, Zenon
  <2>4. ASSUME NEW k \in Slots
        PROVE  state'[k] = "RUNNING" <=> \E n \in Levels' : Frame(n)'.slot = k
    <3>1. CASE k = run_i
      <4>1. state'[k] # "RUNNING"
        BY <1>3, <3>1
      <4>2. \A n \in Levels' : Frame(n)'.slot # k
        BY <1>1, <1>5, <2>2, <3>1
      <4> QED BY <4>1, <4>2, Zenon
    <3>2. CASE k # run_i
      <4>1. state'[k] = state[k]
        BY <1>3, <3>2, Zenon
      <4>2. ASSUME NEW n \in Levels, Frame(n).slot = k PROVE n \in Levels' /\ Frame(n)'.slot = k
        <5>1. n # Top
          BY <1>2, <3>2, <4>2
        <5> QED BY <1>1, <4>2, <5>1, Zenon
      <4>3. ASSUME NEW n \in Levels', Frame(n)'.slot = k PROVE n \in Levels /\ Frame(n).slot = k
        BY <1>1, <4>3, Zenon
      <4> QED BY <2>2, <4>1, <4>2, <4>3, Zenon
    <3> QED BY <3>1, <3>2, Zenon
  <2> QED BY <1>0, <2>1, <2>2, <2>3, <2>4, Zenon DEF OneMode
<1>9. /\ CurrentIsRunning'
      /\ current_thread' \in Slots \cup {NULL}
      /\ again' \subseteq 1 .. (MaxNesting + 1)
      /\ run_tid' \in 0 .. (U32 - 1)
      /\ callers' \in Seq([slot : Slots, tid : 0 .. (U32 - 1)])
      /\ Len(callers') <= MaxNesting
      /\ run_nested' \in BOOLEAN
  BY <1>0, <1>4, Zenon DEF CurrentIsRunning, TypeOK
<1>10. run_i' \in 0 .. MAX_THREADS
  BY <1>0, <1>2 DEF Slots
<1>11. \A k \in Slots : tid[k] = 0 => state'[k] = state[k] \/ state'[k] = "ZOMBIE"
  BY <1>3, Zenon
<1> QED BY <1>0, <1>3, <1>7, <1>8, <1>9, <1>10, <1>11, RunStep, Zenon

-----------------------------------------------------------------------------
\* Every step preserves the invariant, whatever the kernel and the entry points
\* call.
LEMMA SchedNextInv == SchedIInv /\ [Next]_vars => SchedIInv'
<1>1. SchedIInv /\ Next => SchedIInv'
  BY Zenon, ThreadCreateInv, YieldInv, TickInv, StartInv, OtherHeapUseInv, RunCallInv,
     RunEnterInv, RunReturnInv, RunFinishInv DEF Next
<1>2. SchedIInv /\ UNCHANGED vars => SchedIInv'
  <2> SUFFICES ASSUME SchedIInv, UNCHANGED vars PROVE SchedIInv'
    BY Zenon
  <2>1. UNCHANGED <<tid, state, time_slice, stack_base, blocks, simple_heap_ptr, wrapped,
                    current_thread, next_tid, active_thread_count, scheduler_ticks,
                    scheduler_enabled, run_pc, run_i, run_tid, callers, run_nested, again>>
    BY Zenon DEF vars, heapVars, tableVars, runVars
  <2>2. Core /\ Memory
    BY Zenon DEF SchedIInv
  <2>3. TypeOK' /\ CurrentIsRunning' /\ SlicesPositive'
    BY <2>1, <2>2, Zenon DEF Core, TypeOK, HeapTypeOK, CurrentIsRunning, SlicesPositive
  <2>4. OneMode'
    BY <2>1, <2>2, OneModeKept, Zenon DEF Core, runVars
  <2>5. Core'
    BY <2>1, <2>2, <2>3, <2>4, TableStep, Zenon DEF runVars
  <2>6. Memory'
    BY <2>1, <2>2, MemoryKept, Zenon
  <2> QED BY <2>5, <2>6, Zenon DEF SchedIInv
<1> QED BY <1>1, <1>2, Zenon

-----------------------------------------------------------------------------
\* The invariant holds in every reachable state of thread_minimal.c.
THEOREM SchedInvariant == Spec => []SchedIInv
<1>1. Init => SchedIInv
  BY SchedInitInv, Zenon
<1>2. SchedIInv /\ [Next]_vars => SchedIInv'
  BY SchedNextInv, Zenon
<1> QED BY <1>1, <1>2, PTL DEF Spec

\* The columns of thread_table and the counters keep their types: the u32 and
\* u64 counters, the indices and the loop variables of sched_run_threads.
THEOREM SchedTypeCorrect == Spec => []TypeOK
<1>1. SchedIInv => TypeOK
  BY Zenon DEF SchedIInv, Core
<1> QED BY <1>1, SchedInvariant, PTL

\* current_thread never points to a slot that is free, finished or waiting.
THEOREM CurrentNeverDangles == Spec => []CurrentIsRunning
<1>1. SchedIInv => CurrentIsRunning
  BY Zenon DEF SchedIInv, Core
<1> QED BY <1>1, SchedInvariant, PTL

\* With one way of running threads, a RUNNING thread is the current one or one
\* that a call of sched_run_threads will mark ZOMBIE.
THEOREM NoThreadLeftRunning == Spec => []RunningAccountedFor
<1>1. SchedIInv => RunningAccountedFor
  <2>1. Protocol # "any" => Protocol = "one"
    BY SchedAssumption
  <2> QED BY <2>1, Zenon DEF SchedIInv, Core, OneMode, TypeOK, RunningAccountedFor
<1> QED BY <1>1, SchedInvariant, PTL

\* With one way of running threads, no nested sched_run_threads executes a
\* thread whose entry point has not returned, at any depth.
THEOREM ThreadsNeverReentered == Spec => []NeverTwiceAtOnce
<1>1. SchedIInv => NeverTwiceAtOnce
  <2>1. Protocol # "any" => Protocol = "one"
    BY SchedAssumption
  <2> QED BY <2>1, Zenon DEF SchedIInv, Core, OneMode, NeverTwiceAtOnce
<1> QED BY <1>1, SchedInvariant, PTL

\* A thread sched_run_threads is executing keeps its slot whatever its entry
\* point calls, sched_tick with its cleanup and nested calls included, unless a
\* nested call executes it again.
THEOREM ExecutingThreadKept == Spec => []ExecutingSlotKept
<1>1. SchedIInv => ExecutingSlotKept
  BY Zenon DEF SchedIInv, Core, FrameInv
<1> QED BY <1>1, SchedInvariant, PTL

\* thread_create never hands out a tid twice, nor the tid 0 that means "free".
THEOREM TidsNeverReused == Spec => []TidsFresh
<1>1. SchedIInv => TidsFresh
  BY Zenon DEF SchedIInv, Memory, TidsFresh
<1> QED BY <1>1, SchedInvariant, PTL

\* Every thread has a stack of its own, allocated as long as it is in the table.
THEOREM StacksNeverShared == Spec => []StacksOwned
<1>1. SchedIInv => StacksOwned
  BY Zenon DEF SchedIInv, Memory, StacksOwned
<1> QED BY <1>1, SchedInvariant, PTL

\* The unsigned time_slice of a thread is never decremented below zero.
THEOREM SlicesNeverWrap == Spec => []SlicesPositive
<1>1. SchedIInv => SlicesPositive
  BY Zenon DEF SchedIInv, Core
<1> QED BY <1>1, SchedInvariant, PTL

\* A zero active_thread_count never hides a READY thread from find_next_thread.
THEOREM ReadyNeverHidden == Spec => []ActiveCountsReady
<1>1. SchedIInv => ActiveCountsReady
  <2> SUFFICES ASSUME SchedIInv, ~wrapped, NEW i \in Slots, tid[i] # 0
               PROVE  active_thread_count # 0
    BY Zenon DEF ActiveCountsReady, Ready, ReadyIn
  <2>1. TypeOK /\ TidsFresh /\ Budget
    BY Zenon DEF SchedIInv, Core, Memory
  <2>2. \A j \in Slots : tid[j] < next_tid
    BY <2>1, Zenon DEF TidsFresh
  <2>3. tid[i] \in Nat /\ tid[i] < next_tid /\ active_thread_count = next_tid - 1
        /\ next_tid \in Nat
    BY <2>1, <2>2, SchedAssumption DEF TypeOK, Budget
  <2> QED BY <2>3
<1> QED BY <1>1, SchedInvariant, PTL

-----------------------------------------------------------------------------
\* What makes "All threads completed" true: before sched_start no slot is given
\* back, so the used slots come first in the table and a thread created by an
\* executing one lies ahead of every loop; behind each loop every thread is a
\* ZOMBIE or one that the call is nested in.
Behind(n, j) ==
  /\ tid[j] # 0
  /\ state[j] = "ZOMBIE" \/ \E m \in Levels : m < n /\ Frame(m).slot = j

BehindAll(j) ==
  /\ tid[j] # 0
  /\ state[j] = "ZOMBIE" \/ \E m \in Levels : Frame(m).slot = j

Passed ==
  Protocol = "one" /\ ~scheduler_enabled =>
    /\ \A i, j \in Slots : i < j /\ tid[j] # 0 => tid[i] # 0
    /\ \A n \in Levels : \A j \in Slots : j < Frame(n).slot => Behind(n, j)
    /\ run_pc = "scan" => \A j \in Slots : j < run_i => BehindAll(j)

\* Steps that leave the table and the loops alone.
LEMMA PassedUnchanged ==
  ASSUME Passed, UNCHANGED <<tid, state, runVars>>,
         ~scheduler_enabled' => ~scheduler_enabled
  PROVE  Passed'
<1>1. Top' = Top /\ Levels' = Levels /\ \A n : Frame(n)' = Frame(n)
  BY FramesUnchanged, Zenon
<1>2. \A n, j : (Behind(n, j)' <=> Behind(n, j)) /\ (BehindAll(j)' <=> BehindAll(j))
  BY <1>1, Zenon DEF Behind, BehindAll
<1> QED BY <1>1, <1>2, Zenon DEF Passed, runVars

\* A thread created while others execute gets a slot behind all used ones.
LEMMA PassedCreate ==
  ASSUME SchedIInv, Passed, Calling, thread_create
  PROVE  Passed'
<1>0. UNCHANGED <<scheduler_enabled, runVars>> /\ run_pc # "scan"
  BY Zenon DEF thread_create, vars, Calling
<1>1. CASE UNCHANGED <<tid, state>>
  BY <1>0, <1>1, PassedUnchanged, Zenon
<1>2. ASSUME NEW slot \in Slots, FreeSlot(slot),
             tid' = [tid EXCEPT ![slot] = next_tid],
             state' = [state EXCEPT ![slot] = "READY"]
      PROVE  Passed'
  <2> SUFFICES ASSUME Protocol = "one", ~scheduler_enabled
               PROVE  /\ \A i, j \in Slots : i < j /\ tid'[j] # 0 => tid'[i] # 0
                      /\ \A n \in Levels' : \A j \in Slots : j < Frame(n)'.slot => Behind(n, j)'
    BY <1>0, Zenon DEF Passed, runVars
  <2>1. /\ tid \in [Slots -> 0 .. (U32 - 1)]
        /\ state \in [Slots -> {"READY", "RUNNING", "ZOMBIE"}]
    BY Zenon DEF SchedIInv, Core, TypeOK
  <2>2. /\ \A i, j \in Slots : i < j /\ tid[j] # 0 => tid[i] # 0
        /\ \A n \in Levels : \A j \in Slots : j < Frame(n).slot => Behind(n, j)
    BY Zenon DEF Passed
  <2>3. /\ tid[slot] = 0
        /\ \A j \in Slots : j < slot => tid[j] # 0
    BY <1>2 DEF FreeSlot, Slots
  <2>4. \A i, j \in Slots : i < j /\ tid'[j] # 0 => tid'[i] # 0
    BY <1>2, <2>1, <2>2, <2>3, Zenon
  <2>5. Levels' = Levels /\ \A n : Frame(n)' = Frame(n)
    BY <1>0, FramesUnchanged, Zenon
  <2>6. ASSUME NEW n \in Levels, NEW j \in Slots, j < Frame(n).slot
        PROVE  Behind(n, j)'
    <3>1. Behind(n, j)
      BY <2>2, <2>6, Zenon
    <3>2. j # slot
      BY <2>3, <3>1, Zenon DEF Behind
    <3>3. tid'[j] = tid[j] /\ state'[j] = state[j]
      BY <1>2, <2>1, <3>2, Zenon
    <3> QED BY <2>5, <3>1, <3>3, Zenon DEF Behind
  <2> QED BY <2>4, <2>5, <2>6, Zenon
<1> QED BY <1>1, <1>2, Zenon DEF thread_create, vars, tableVars

\* A call leaves the calling level where it is, and starts behind nothing.
LEMMA PassedCall ==
  ASSUME SchedIInv, Passed, sched_run_threads
  PROVE  Passed'
<1>0. /\ UNCHANGED <<tid, state, scheduler_enabled>> /\ run_i' = 0 /\ run_pc' = "scan"
      /\ TypeOK /\ FrameInv
  BY Zenon DEF sched_run_threads, outsideRun, SchedIInv, Core
<1>1. Top' = Top /\ Levels' = Levels /\ \A n \in Levels : Frame(n)' = Frame(n)
  <2>1. CASE run_pc = "idle" /\ UNCHANGED callers
    <3>1. callers = <<>> /\ callers' = <<>>
      BY <1>0, <2>1, Zenon DEF FrameInv
    <3>2. Top = 0 /\ Top' = 0 /\ Levels = {} /\ Levels' = {}
      BY <1>0, <2>1, <3>1 DEF Top, Levels
    <3> QED BY <3>2, Zenon
  <2>2. CASE run_pc = "exec" /\ callers' = Append(callers, Executed(run_i, run_tid))
    BY <1>0, <2>2, FramesPushed, Zenon
  <2> QED BY <2>1, <2>2, Zenon DEF sched_run_threads
<1>2. \A n, j : Behind(n, j)' <=> Behind(n, j)
  BY <1>0, <1>1, Zenon DEF Behind
<1>3. \A j \in Slots : ~(j < run_i')
  BY <1>0, SchedAssumption DEF Slots
<1> QED BY <1>0, <1>1, <1>2, <1>3, Zenon DEF Passed

\* The loop reaches a READY thread: what it skipped has finished, or the call is
\* nested in it.
LEMMA PassedEnter ==
  ASSUME SchedIInv, Passed, RunEnter
  PROVE  Passed'
<1>0. /\ TypeOK /\ OneMode /\ run_pc = "scan" /\ run_pc' = "exec" /\ UNCHANGED callers
      /\ UNCHANGED <<tid, scheduler_enabled>>
  BY Zenon DEF RunEnter, outsideRun, SchedIInv, Core
<1>1. PICK i \in run_i .. (MAX_THREADS - 1) :
        /\ Ready(i) /\ \A j \in run_i .. (i - 1) : ~Ready(j)
        /\ state' = [state EXCEPT ![i] = "RUNNING"]
        /\ run_i' = i /\ run_tid' = tid[i]
  BY Zenon DEF RunEnter
<1> SUFFICES ASSUME Protocol = "one", ~scheduler_enabled
             PROVE  /\ \A k, j \in Slots : k < j /\ tid'[j] # 0 => tid'[k] # 0
                    /\ \A n \in Levels' : \A j \in Slots : j < Frame(n)'.slot => Behind(n, j)'
  <2>1. run_pc' # "scan"
    BY <1>0
  <2> QED BY <1>0, <2>1, Zenon DEF Passed
<1>2. /\ run_i \in Nat /\ Slots \subseteq Nat /\ i \in Slots
      /\ tid[i] # 0 /\ state[i] = "READY"
      /\ state \in [Slots -> {"READY", "RUNNING", "ZOMBIE"}]
  BY <1>0, <1>1, SchedAssumption DEF TypeOK, Slots, Ready, ReadyIn
<1>3. /\ \A k, j \in Slots : k < j /\ tid[j] # 0 => tid[k] # 0
      /\ \A n \in Levels : \A j \in Slots : j < Frame(n).slot => Behind(n, j)
      /\ \A j \in Slots : j < run_i => BehindAll(j)
      /\ \A k \in Slots : state[k] = "RUNNING" => \E n \in Levels : Frame(n).slot = k
  BY <1>0, Zenon DEF Passed, OneMode
<1>4. /\ Levels' = Levels \cup {Top + 1} /\ \A n \in Levels : n < Top + 1
      /\ \A n \in Levels : Frame(n)' = Frame(n)
      /\ \A n : n = Top + 1 => Frame(n)' = Executed(i, tid[i])
  BY <1>0, <1>1, FramesEntered, Zenon
<1>5. Executed(i, tid[i]).slot = i
  BY DEF Executed
<1>6. \A k \in Slots : k # i => state'[k] = state[k]
  BY <1>1, <1>2, Zenon
<1>7. ASSUME NEW n, NEW j \in Slots, j # i, Behind(n, j)
      PROVE  Behind(n, j)'
  <2>1. CASE state[j] = "ZOMBIE"
    BY <1>0, <1>6, <1>7, <2>1, Zenon DEF Behind
  <2>2. ASSUME NEW m \in Levels, m < n, Frame(m).slot = j
        PROVE  Behind(n, j)'
    <3>1. m \in Levels' /\ Frame(m)'.slot = j
      BY <1>4, <2>2, Zenon
    <3> QED BY <1>0, <1>7, <2>2, <3>1, Zenon DEF Behind
  <2> QED BY <1>7, <2>1, <2>2, Zenon DEF Behind
<1>8. ASSUME NEW n \in Levels, NEW j \in Slots, j < Frame(n)'.slot
      PROVE  Behind(n, j)'
  <2>1. Behind(n, j)
    BY <1>3, <1>4, <1>8
  <2>2. CASE j = i
    <3>1. \E m \in Levels : m < n /\ Frame(m).slot = i
      BY <1>2, <2>1, <2>2 DEF Behind
    <3>2. \E m \in Levels' : m < n /\ Frame(m)'.slot = i
      BY <1>4, <3>1, Zenon
    <3> QED BY <1>0, <1>2, <2>2, <3>2, Zenon DEF Behind
  <2> QED BY <1>7, <2>1, <2>2, Zenon
<1>9. ASSUME NEW j \in Slots, j < i, NEW n, n = Top + 1
      PROVE  Behind(n, j)'
  <2>0. j # i
    BY <1>2, <1>9
  <2>1. BehindAll(j)
    <3>1. CASE j < run_i
      BY <1>3, <3>1, Zenon
    <3>2. CASE j >= run_i
      <4>1. ~Ready(j) /\ tid[j] # 0
        BY <1>1, <1>2, <1>3, <1>9, <3>2
      <4>2. state[j] = "RUNNING" \/ state[j] = "ZOMBIE"
        BY <1>2, <4>1 DEF Ready, ReadyIn
      <4> QED BY <1>3, <4>1, <4>2, Zenon DEF BehindAll
    <3> QED BY <1>2, <3>1, <3>2
  <2>2. Behind(n, j)
    BY <1>4, <1>9, <2>1, Zenon DEF Behind, BehindAll
  <2> QED BY <1>7, <2>0, <2>2, Zenon
<1>10. ASSUME NEW n \in Levels', NEW j \in Slots, j < Frame(n)'.slot
       PROVE  Behind(n, j)'
  <2>1. CASE n \in Levels
    BY <1>8, <1>10, <2>1, Zenon
  <2>2. CASE n = Top + 1
    <3>1. j < i
      BY <1>4, <1>5, <1>10, <2>2
    <3> QED BY <1>9, <2>2, <3>1, Zenon
  <2> QED BY <1>4, <2>1, <2>2, Zenon
<1> QED BY <1>0, <1>3, <1>10, Zenon

\* The entry point returns and its thread, now a ZOMBIE, is behind the loop.
LEMMA PassedReturn ==
  ASSUME SchedIInv, Passed, RunReturn
  PROVE  Passed'
<1>0. /\ TypeOK /\ FrameInv /\ OneMode /\ run_pc = "exec" /\ run_pc' = "scan"
      /\ UNCHANGED callers /\ UNCHANGED <<tid, scheduler_enabled>>
      /\ state' = [state EXCEPT ![run_i] = "ZOMBIE"] /\ run_i' = run_i + 1
  BY Zenon DEF RunReturn, outsideRun, Finished, LoopNext, SchedIInv, Core
<1> SUFFICES ASSUME Protocol = "one", ~scheduler_enabled
             PROVE  /\ \A k, j \in Slots : k < j /\ tid'[j] # 0 => tid'[k] # 0
                    /\ \A n \in Levels' : \A j \in Slots : j < Frame(n)'.slot => Behind(n, j)'
                    /\ \A j \in Slots : j < run_i' => BehindAll(j)'
  BY <1>0, Zenon DEF Passed
<1>1. /\ Top \in Levels /\ Levels' = Levels \ {Top} /\ Top \in Nat
      /\ Frame(Top) = Executed(run_i, run_tid)
      /\ \A n \in Levels' : Frame(n)' = Frame(n) /\ n < Top
      /\ Levels \subseteq Nat /\ Top' = Top - 1
  <2>1. Levels \subseteq Nat /\ Top \in Nat /\ Top' = Top - 1
    BY <1>0, Basics DEF Levels, Top
  <2> QED BY <1>0, <2>1, FramesReturned, Zenon
<1>2. Frame(Top).slot = run_i
  BY <1>1 DEF Executed
<1>3. /\ \A k, j \in Slots : k < j /\ tid[j] # 0 => tid[k] # 0
      /\ \A n \in Levels : \A j \in Slots : j < Frame(n).slot => Behind(n, j)
      /\ again = {} /\ run_i \in Slots
      /\ state \in [Slots -> {"READY", "RUNNING", "ZOMBIE"}]
  BY <1>0, <1>1, <1>2, Zenon DEF Passed, OneMode, FrameInv, TypeOK
<1>4. tid[run_i] # 0 /\ state'[run_i] = "ZOMBIE" /\ \A k \in Slots : k # run_i => state'[k] = state[k]
  <2>1. tid[run_i] # 0
    <3>1. Top \in Levels \ again
      BY <1>1, <1>3, Zenon
    <3> QED BY <1>0, <1>2, <3>1 DEF FrameInv, ExecutingSlotKept
  <2> QED BY <1>0, <1>3, <2>1, Zenon
<1>5. ASSUME NEW n \in Levels, NEW j \in Slots, Behind(n, j)
      PROVE  Behind(n, j)'
  <2>1. CASE state[j] = "ZOMBIE"
    BY <1>0, <1>4, <1>5, <2>1, Zenon DEF Behind
  <2>2. ASSUME NEW m \in Levels, m < n, Frame(m).slot = j
        PROVE  Behind(n, j)'
    <3>1. m # Top
      BY <1>1, <2>2 DEF Levels
    <3>2. m \in Levels' /\ Frame(m)'.slot = j
      BY <1>1, <2>2, <3>1, Zenon
    <3> QED BY <1>0, <1>5, <2>2, <3>2, Zenon DEF Behind
  <2> QED BY <1>5, <2>1, <2>2, Zenon DEF Behind
<1>6. ASSUME NEW n \in Levels', NEW j \in Slots, j < Frame(n)'.slot
      PROVE  Behind(n, j)'
  <2>1. n \in Levels /\ j < Frame(n).slot
    BY <1>1, <1>6, Zenon
  <2> QED BY <1>3, <1>5, <2>1, Zenon
<1>7. ASSUME NEW j \in Slots, j < run_i + 1
      PROVE  BehindAll(j)'
  <2>0. Slots \subseteq Nat
    BY SchedAssumption DEF Slots
  <2>1. CASE j = run_i
    BY <1>0, <1>4, <2>1, Zenon DEF BehindAll
  <2>2. CASE j < run_i
    <3>1. j < Frame(Top).slot
      BY <1>2, <2>2, Zenon
    <3>2. \E n \in Levels : Behind(n, j)'
      BY <1>1, <1>3, <1>5, <3>1, Zenon
    <3> QED BY <3>2, Zenon DEF Behind, BehindAll
  <2> QED BY <1>3, <1>7, <2>0, <2>1, <2>2
<1> QED BY <1>0, <1>3, <1>6, <1>7, Zenon

\* The loop ends; a nested call returns into the level it was called from.
LEMMA PassedFinish ==
  ASSUME SchedIInv, Passed, RunFinish
  PROVE  Passed'
<1>0. /\ TypeOK /\ run_pc = "scan" /\ run_pc' # "scan"
      /\ UNCHANGED <<tid, state, scheduler_enabled>>
  BY DEF RunFinish, outsideRun, SchedIInv, Core
<1>1. Levels' = Levels /\ \A n \in Levels : Frame(n)' = Frame(n)
  <2>1. CASE callers = <<>> /\ run_pc' = "idle" /\ UNCHANGED <<run_i, run_tid, callers>>
    BY <1>0, <2>1 DEF Top, Levels, Frame, Executed
  <2>2. CASE /\ callers # <<>> /\ run_pc' = "exec"
             /\ run_i' = callers[Len(callers)].slot /\ run_tid' = callers[Len(callers)].tid
             /\ callers' = SubSeq(callers, 1, Len(callers) - 1)
    BY <1>0, <2>2, FramesPopped, Zenon
  <2> QED BY <2>1, <2>2, Zenon DEF RunFinish
<1>2. \A n, j : Behind(n, j)' <=> Behind(n, j)
  BY <1>0, <1>1, Zenon DEF Behind
<1> QED BY <1>0, <1>1, <1>2, Zenon DEF Passed

\* Every step of the kernel preserves what the loops rely on.
LEMMA PassedNext == SchedIInv /\ Passed /\ [Next]_vars => Passed'
<1> SUFFICES ASSUME SchedIInv, Passed, [Next]_vars PROVE Passed'
  BY Zenon
<1>1. CASE UNCHANGED vars
  BY <1>1, PassedUnchanged, Zenon DEF vars, tableVars
<1>2. CASE Calling /\ thread_create
  BY <1>2, PassedCreate, Zenon
<1>3. CASE sched_yield
  <2>1. CASE scheduler_enabled
    BY <1>3, <2>1, Zenon DEF sched_yield, Passed
  <2>2. CASE ~scheduler_enabled
    <3>1. UNCHANGED <<tid, state, runVars, scheduler_enabled>>
      BY <1>3, <2>2, Zenon DEF sched_yield, Yield
    <3> QED BY <3>1, PassedUnchanged, Zenon
  <2> QED BY <2>1, <2>2, Zenon
<1>4. CASE sched_tick
  <2>1. CASE scheduler_enabled'
    BY <2>1, Zenon DEF Passed
  <2>2. CASE ~scheduler_enabled'
    <3>1. UNCHANGED vars
      BY <1>4, <2>2 DEF sched_tick
    <3> QED BY <1>1, <3>1, Zenon
  <2> QED BY <2>1, <2>2, Zenon
<1>5. CASE sched_start
  BY <1>5, Zenon DEF sched_start, Passed
<1>6. CASE OtherHeapUse
  BY <1>6, PassedUnchanged, Zenon DEF OtherHeapUse, tableVars
<1>7. CASE sched_run_threads
  BY <1>7, PassedCall, Zenon
<1>8. CASE RunEnter
  BY <1>8, PassedEnter, Zenon
<1>9. CASE RunReturn
  BY <1>9, PassedReturn, Zenon
<1>10. CASE RunFinish
  BY <1>10, PassedFinish, Zenon
<1> QED BY <1>1, <1>2, <1>3, <1>4, <1>5, <1>6, <1>7, <1>8, <1>9, <1>10, Zenon DEF Next

\* What every thread in the table is when the loop finds nothing more to run.
LEMMA FinishComplete ==
  ASSUME SchedIInv, Passed, RunFinish, Protocol = "one", NEW i \in Slots, tid[i] # 0
  PROVE  state[i] = "ZOMBIE" \/ \E n \in DOMAIN callers : callers[n].slot = i
<1>1. TypeOK /\ OneMode /\ run_pc = "scan" /\ run_pc # "idle"
  BY DEF SchedIInv, Core, RunFinish
<1>2. Levels = DOMAIN callers /\ \A n \in Levels : Frame(n) = callers[n]
  BY <1>1, Basics DEF Levels, Top, Frame
<1>3. /\ ~scheduler_enabled
      /\ state[i] = "RUNNING" => \E n \in Levels : Frame(n).slot = i
  BY <1>1, Zenon DEF OneMode
<1>4. CASE i < run_i
  <2>1. BehindAll(i)
    BY <1>1, <1>3, <1>4, Zenon DEF Passed
  <2>2. ASSUME NEW m \in Levels, Frame(m).slot = i
        PROVE  \E n \in DOMAIN callers : callers[n].slot = i
    BY <1>2, <2>2
  <2> QED BY <2>1, <2>2, Zenon DEF BehindAll
<1>5. CASE i >= run_i
  <2>1. i \in run_i .. (MAX_THREADS - 1)
    BY <1>1, <1>5, SchedAssumption DEF Slots, TypeOK
  <2>2. state[i] # "READY"
    BY <2>1, Zenon DEF RunFinish, Ready, ReadyIn
  <2> QED BY <1>1, <1>2, <1>3, <2>2, Zenon DEF TypeOK
<1> QED BY <1>1, <1>4, <1>5, SchedAssumption DEF Slots, TypeOK

\* With one way of running threads, sched_run_threads prints "All threads
\* completed" only when every thread in the table has been executed, those that
\* threads created while it ran included, but for the threads it is nested in.
THEOREM CompletionNeverEarly ==
  ASSUME Protocol = "one"
  PROVE  Spec => CompletionIsTrue
<1>1. Init => Passed
  <2> SUFFICES ASSUME Init PROVE Passed
    BY Zenon
  <2>1. Levels = {} /\ run_pc # "scan"
    BY DEF Init, Levels, Top
  <2> QED BY <2>1, Zenon DEF Init, Passed
<1>2. SchedIInv /\ Passed /\ [Next]_vars => Passed'
  BY PassedNext, Zenon
<1>3. SchedIInv /\ Passed /\ [Next]_vars
        => [run_pc = "scan" /\ (run_pc' = "idle" \/ callers' # callers)
              => \A i \in Slots : tid[i] # 0 =>
                   \/ state[i] = "ZOMBIE"
                   \/ \E n \in DOMAIN callers : callers[n].slot = i]_vars
  <2> SUFFICES ASSUME SchedIInv, Passed, Next, run_pc = "scan",
                      run_pc' = "idle" \/ callers' # callers,
                      NEW i \in Slots, tid[i] # 0
               PROVE  state[i] = "ZOMBIE" \/ \E n \in DOMAIN callers : callers[n].slot = i
    BY Zenon DEF vars, runVars
  <2>1. RunFinish
    BY Zenon DEF Next, Calling, sched_run_threads, RunEnter, RunReturn
  <2> QED BY <2>1, FinishComplete, Zenon
<1> QED BY <1>1, <1>2, <1>3, SchedInvariant, PTL DEF Spec, CompletionIsTrue
=============================================================================
