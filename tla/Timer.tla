-------------------------------- MODULE Timer --------------------------------
(***************************************************************************)
(* The kernel of kmain.c: the local APIC's timer interrupts a loop that    *)
(* prints a heartbeat every HEARTBEAT ticks.  gdt_idt.c, lapic.c, timer.c  *)
(* and timer.S, with the loop's two times in registers, so that what the   *)
(* interrupt does to the registers matters to the loop.  RFLAGS is reduced *)
(* to IF.                                                                  *)
(***************************************************************************)
EXTENDS Processor, Descriptors

CONSTANTS
  HEARTBEAT,    \* ticks between heartbeats, 2000 in the code
  U64,          \* 2^64, what the tick counter wraps at
  MaxLag,       \* bound: a round of the loop takes at most this many ticks
  Vectors       \* the vectors that are looked at

ASSUME TimerAssumption ==
  /\ HEARTBEAT \in Nat \ {0}
  /\ MaxLag \in Nat \ {0}
  /\ U64 \in Nat /\ U64 > HEARTBEAT + 2 * MaxLag
  /\ Vectors \subseteq 0 .. 255 /\ 32 \in Vectors

VARIABLES
  has_lapic,           \* what CPUID says
  lapic,               \* enabled; timer armed; vector 32 requested, in service
  idt,
  system_tick_count,
  since,               \* ticks since the loop read the time it has in last_time
  lag,                 \* ticks since the loop read the time
  interrupted          \* the loop's state when it was interrupted

timerVars == <<has_lapic, lapic, idt, system_tick_count, since, lag, interrupted>>
vars == <<cpuVars, timerVars>>

IfSet == Const(1)
IfClear == Const(0)

Loop == {"read_time", "compare", "heartbeat"}
InLoop == pc[1] \in Loop
InHandler == pc[1] = "timer_interrupt_handler"
current_time == regs["r13"][2]
last_time == regs["rbx"][2]

\* The segments of gdt_idt.c.
Segments ==
  [i \in 0 .. 4 |->
    CASE i = 1 -> Segment(Code, {"4K", "64BIT"})
      [] i = 2 -> Segment(Data, {"4K", "64BIT"})
      [] i = 3 -> Segment(Code \cup DPL3, {"4K", "64BIT"})
      [] i = 4 -> Segment(Data \cup DPL3, {"4K", "64BIT"})
      [] OTHER -> NullEntry]

\* The vectors idt_init sets; their handlers halt.
Exceptions == (0 .. 20) \ {9, 15}

Init ==
  /\ pc = Start("x86_early_init")
  /\ regs = [[r \in Regs |-> <<"boot", r>>] EXCEPT !["rflags"] = IfClear]
  /\ rsp = <<"boot", 0>>
  /\ cs = 0 /\ ss = 0
  /\ stack = [s \in Stacks |-> <<>>]
  /\ room = 0
  /\ has_lapic \in BOOLEAN
  /\ lapic = [enabled |-> FALSE, armed |-> FALSE, irr |-> FALSE, isr |-> FALSE]
  /\ idt = [v \in Vectors |-> gate(NullAddress, 0, {})]
  /\ system_tick_count = 0
  /\ since = 0 /\ lag = 0
  /\ interrupted = <<>>

-----------------------------------------------------------------------------
x86_early_init ==
  /\ pc = Start("x86_early_init")
  /\ IsKernelCode(Segments, KCODE_SEL)
  /\ cs' = KCODE_SEL /\ ss' = KDATA_SEL
  /\ idt' = [v \in Vectors |-> IF v \in Exceptions
                               THEN gate(AddressOf("halt"), KCODE_SEL, {"P"})
                               ELSE gate(NullAddress, 0, {})]
  /\ pc' = Start("lapic_init")
  /\ UNCHANGED <<regs, rsp, stack, room, has_lapic, lapic, system_tick_count, since, lag,
                 interrupted>>

\* Without a local APIC both functions return at once.  With one, its registers are
\* taken to be where lapic.c accesses them: the boot loader's tables map page
\* 0xFEE00000 to itself, which no code of the tree sees to.
lapic_init ==
  /\ pc = Start("lapic_init")
  /\ lapic' = IF has_lapic THEN [lapic EXCEPT !.enabled = TRUE, !.isr = FALSE] ELSE lapic
  /\ pc' = Start("timer_init")
  /\ UNCHANGED <<regs, rsp, cs, ss, stack, room, has_lapic, idt, system_tick_count, since, lag,
                 interrupted>>

timer_init ==
  /\ pc = Start("timer_init")
  /\ IF has_lapic
     THEN /\ idt' = [idt EXCEPT ![32] =
                       gate(AddressOf("timer_interrupt_handler"), KCODE_SEL, {"P"})]
          /\ lapic' = [lapic EXCEPT !.armed = TRUE]
     ELSE UNCHANGED <<idt, lapic>>
  /\ pc' = Start("sti")
  /\ UNCHANGED <<regs, rsp, cs, ss, stack, room, has_lapic, system_tick_count, since, lag,
                 interrupted>>

\* sti, and the loop's variables.
sti ==
  /\ pc = Start("sti")
  /\ regs' = [regs EXCEPT !["rflags"] = IfSet, !["rbx"] = Const(0), !["r13"] = Const(0)]
  /\ pc' = Start("read_time")
  /\ UNCHANGED <<rsp, cs, ss, stack, room, timerVars>>

-----------------------------------------------------------------------------
get_system_time_ms ==
  /\ pc = Start("read_time")
  /\ regs' = [regs EXCEPT !["r13"] = Const(system_tick_count)]
  /\ lag' = 0
  /\ pc' = Start("compare")
  /\ UNCHANGED <<rsp, cs, ss, stack, room, has_lapic, lapic, idt, system_tick_count, since,
                 interrupted>>

DueSinceBoot(now, last) == now >= HEARTBEAT

\* The difference of the two times in 64 bits.
Due(now, last) == (now - last) % U64 >= HEARTBEAT

Compare ==
  /\ pc = Start("compare")
  /\ pc' = IF Due(current_time, last_time) THEN Start("heartbeat") ELSE Start("read_time")
  /\ UNCHANGED <<regs, rsp, cs, ss, stack, room, timerVars>>

\* kprintf, which leaves junk in the registers it need not keep.
Heartbeat ==
  /\ pc = Start("heartbeat")
  /\ regs' = [AfterCall(Junk) EXCEPT !["rbx"] = regs["r13"]]
  /\ since' = lag
  /\ pc' = Start("read_time")
  /\ UNCHANGED <<rsp, cs, ss, stack, room, has_lapic, lapic, idt, system_tick_count, lag,
                 interrupted>>

-----------------------------------------------------------------------------
AtStep(n) == pc = <<"timer_interrupt_handler", n>>

\* Ticks of this round of the loop, the ones not counted yet included.
RoundTicks ==
  lag + (IF lapic.irr THEN 1 ELSE 0) + (IF AtStep(1) \/ AtStep(2) THEN 1 ELSE 0)

\* The timer's count reaches 0 and starts again.  A request that is still
\* pending takes in the new one.
TimerFires ==
  /\ lapic.armed /\ lapic.enabled
  /\ InLoop \/ InHandler => RoundTicks < MaxLag
  /\ lapic' = [lapic EXCEPT !.irr = TRUE]
  /\ UNCHANGED <<cpuVars, has_lapic, idt, system_tick_count, since, lag, interrupted>>

\* The processor takes the interrupt between two instructions: an interrupt gate
\* clears IF.  With the gate empty it takes exception 13, whose handler halts.
Interrupt ==
  /\ regs["rflags"] = IfSet
  /\ lapic.irr /\ ~lapic.isr
  /\ lapic' = [lapic EXCEPT !.irr = FALSE, !.isr = TRUE]
  /\ LET frame == <<Const(ss), rsp, regs["rflags"], Const(cs), pc>>
     IN  PushWords(rsp, frame)
  /\ regs' = [regs EXCEPT !["rflags"] = IfClear]
  /\ pc' = IF /\ IsGate(idt[32]) /\ IsKernelCode(Segments, idt[32].selector)
              /\ GateOffset(idt[32]) = AddressOf("timer_interrupt_handler")
           THEN Start("timer_interrupt_handler")
           ELSE Halted
  /\ interrupted' = <<pc, regs, rsp>>
  /\ UNCHANGED <<cs, ss, room, has_lapic, idt, system_tick_count, since, lag>>

SaveOrder ==
  <<"rax", "rbx", "rcx", "rdx", "rsi", "rdi", "rbp",
    "r8", "r9", "r10", "r11", "r12", "r13", "r14", "r15">>

RestoreSwappedOrder ==
  <<"r15", "r14", "r13", "r12", "r11", "r10", "r9", "r8",
    "rbp", "rsi", "rdi", "rdx", "rcx", "rbx", "rax">>

RestoreOrder ==
  <<"r15", "r14", "r13", "r12", "r11", "r10", "r9", "r8",
    "rbp", "rdi", "rsi", "rdx", "rcx", "rbx", "rax">>

\* pushq of the fifteen registers.
SaveRegisters ==
  /\ AtStep(1)
  /\ PushWords(rsp, [k \in DOMAIN SaveOrder |-> regs[SaveOrder[k]]])
  /\ Continue
  /\ UNCHANGED <<regs, cs, ss, room, timerVars>>

timer_tick_handler ==
  /\ AtStep(2)
  /\ system_tick_count' = (system_tick_count + 1) % U64
  /\ since' = IF since < U64 THEN since + 1 ELSE since
  /\ lag' = IF lag < U64 THEN lag + 1 ELSE lag
  /\ regs' = AfterCall(Junk)
  /\ Continue
  /\ UNCHANGED <<rsp, cs, ss, stack, room, has_lapic, lapic, idt, interrupted>>

NotAcknowledged(l) == l

\* What a write of the EOI register does.
Acknowledged(l) == [l EXCEPT !.isr = FALSE]

lapic_eoi ==
  /\ AtStep(3)
  /\ lapic' = Acknowledged(lapic)
  /\ regs' = AfterCall(Junk)
  /\ Continue
  /\ UNCHANGED <<rsp, cs, ss, stack, room, has_lapic, idt, system_tick_count, since, lag,
                 interrupted>>

\* popq of the fifteen registers.
RestoreRegisters ==
  /\ AtStep(4)
  /\ regs' = [r \in Regs |->
                IF \E k \in DOMAIN RestoreOrder : RestoreOrder[k] = r
                THEN Word((CHOOSE k \in DOMAIN RestoreOrder : RestoreOrder[k] = r) - 1)
                ELSE regs[r]]
  /\ DropWords(Len(RestoreOrder))
  /\ Continue
  /\ UNCHANGED <<cs, ss, room, timerVars>>

Iretq ==
  /\ AtStep(5)
  /\ pc' = Word(0)
  /\ cs' = Word(1)[2]
  /\ regs' = [regs EXCEPT !["rflags"] = Word(2)]
  /\ rsp' = Word(3)
  /\ ss' = Word(4)[2]
  /\ stack' = [stack EXCEPT ![rsp[1]] = SubSeq(@, 1, Up(5)[2])]
  /\ UNCHANGED <<room, timerVars>>

Handler ==
  \/ SaveRegisters \/ timer_tick_handler \/ lapic_eoi \/ RestoreRegisters \/ Iretq

Main ==
  \/ x86_early_init \/ lapic_init \/ timer_init \/ sti
  \/ get_system_time_ms \/ Compare \/ Heartbeat

Next == Main \/ Handler \/ Interrupt \/ TimerFires

\* The processor goes on executing and takes what is requested, and the timer
\* goes on counting.
Fairness ==
  /\ WF_vars(Main) /\ WF_vars(Handler) /\ WF_vars(Interrupt)
  /\ WF_vars(TimerFires)

Spec == Init /\ [][Next]_vars /\ Fairness

-----------------------------------------------------------------------------
\* The heartbeat is printed again and again, if there is a local APIC: no tick
\* is the last, because each is acknowledged and leaves IF set.
HeartbeatsForever == has_lapic => []<>(pc = Start("heartbeat"))

\* "will print status every 2 seconds" (kmain): no heartbeat comes before
\* HEARTBEAT ticks have passed since the time of the one before, and none is
\* later than the loop's own rounds make it, also when the counter wraps.
HeartbeatOnTime ==
  /\ pc = Start("heartbeat") => since - lag >= HEARTBEAT
  /\ since <= HEARTBEAT + 2 * MaxLag

\* When the handler returns, the loop goes on where it was, with the registers
\* and the stack it had.
InterruptTransparent == [][Iretq => <<pc, regs, rsp>>' = interrupted]_vars
=============================================================================
