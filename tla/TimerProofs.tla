----------------------------- MODULE TimerProofs -----------------------------
(***************************************************************************)
(* The proofs about Timer, for every heartbeat interval, every width of    *)
(* the tick counter and every lag of the loop that leaves it room to wrap. *)
(*                                                                         *)
(* The inductive invariant says two things.  While the handler runs, the   *)
(* stack and the registers together hold the state of the loop it          *)
(* interrupted, so that the loop has its registers wherever it is.  The    *)
(* loop's two times, last_time and current_time, are behind the counter by *)
(* since and lag, up to one wrap of the counter.                           *)
(***************************************************************************)
EXTENDS Timer, SequenceTheorems, TLAPS

BootPcs == {Start("x86_early_init"), Start("lapic_init"), Start("timer_init"), Start("sti")}
LoopPcs == {Start("read_time"), Start("compare"), Start("heartbeat")}
HandlerPcs == {<<"timer_interrupt_handler", n>> : n \in 1 .. 5}

Words == {Const(n) : n \in Nat} \cup {Junk} \cup {<<"boot", r>> : r \in Regs}

TypeOK ==
  /\ pc \in BootPcs \cup LoopPcs \cup HandlerPcs
  /\ regs \in [Regs -> Words]
  /\ cs \in Nat /\ ss \in Nat
  /\ stack = [s \in Stacks |-> stack[s]]
  /\ lapic \in [enabled : BOOLEAN, armed : BOOLEAN, irr : BOOLEAN, isr : BOOLEAN]
  /\ has_lapic \in BOOLEAN
  /\ system_tick_count \in 0 .. (U64 - 1)
  /\ since \in Nat /\ lag \in Nat

\* The gate of the timer is there before the first request, and IF is set in the
\* loop only.
Delivery ==
  /\ (pc \notin BootPcs \/ pc = Start("sti")) /\ has_lapic =>
       idt[32] = gate(AddressOf("timer_interrupt_handler"), KCODE_SEL, {"P"})
  /\ idt = [v \in Vectors |-> idt[v]]
  /\ lapic.irr => lapic.armed
  /\ lapic.armed => has_lapic /\ (pc \notin BootPcs \/ pc = Start("sti"))
  /\ regs["rflags"] = IF pc \in LoopPcs THEN IfSet ELSE IfClear

\* The loop, where it is interrupted and where it is not.
LoopPc == IF pc \in HandlerPcs THEN interrupted[1] ELSE pc
LoopRegs == IF pc \in HandlerPcs THEN interrupted[2] ELSE regs

\* What the processor pushed, and what SaveRegisters did.
Frame == <<Const(ss), <<"boot", 0>>, IfSet, Const(cs), interrupted[1]>>
Saved == [k \in 1 .. 15 |-> interrupted[2][SaveOrder[k]]]

\* The state that the handler will return to.
Kept ==
  IF pc \in HandlerPcs
  THEN /\ interrupted = <<interrupted[1], interrupted[2], <<"boot", 0>>>>
       /\ interrupted[1] \in LoopPcs
       /\ interrupted[2] \in [Regs -> Words] /\ interrupted[2]["rflags"] = IfSet
       /\ regs["rip"] = interrupted[2]["rip"]
       /\ AtStep(1) \/ AtStep(2) \/ AtStep(5) =>
            \A r \in Regs \ {"rflags"} : regs[r] = interrupted[2][r]
       /\ IF AtStep(1) \/ AtStep(5)
          THEN rsp = <<"boot", 5>> /\ stack["boot"] = Frame
          ELSE rsp = <<"boot", 20>> /\ stack["boot"] = Frame \o Saved
  ELSE rsp = <<"boot", 0>> /\ stack["boot"] = <<>>

\* t is n ticks ahead of m, with a counter that wraps.
Ahead(t, m, n) == t = m + n \/ t + U64 = m + n

\* The times in the loop's registers, and how far it may be behind.
Times ==
  IF pc \in BootPcs
  THEN system_tick_count = 0 /\ since = 0 /\ lag = 0
  ELSE /\ \E now, last \in 0 .. (U64 - 1) :
            /\ LoopRegs["r13"] = Const(now) /\ Ahead(system_tick_count, now, lag)
            /\ LoopRegs["rbx"] = Const(last) /\ Ahead(system_tick_count, last, since)
       /\ lag <= since
       /\ LoopPc = Start("read_time") => since - lag < HEARTBEAT
       /\ since - lag < HEARTBEAT + MaxLag
       /\ LoopPc = Start("heartbeat") => since - lag >= HEARTBEAT

TInv ==
  /\ TypeOK
  /\ Delivery
  /\ Kept
  /\ Times
  /\ RoundTicks <= MaxLag

-----------------------------------------------------------------------------
(***************************************************************************)
(* Places of the program, words and sequences.                             *)
(***************************************************************************)

LEMMA PcFacts ==
  /\ \A p \in BootPcs : p \notin LoopPcs /\ p \notin HandlerPcs
  /\ \A p \in LoopPcs : p \notin BootPcs /\ p \notin HandlerPcs
  /\ \A p \in HandlerPcs : p \notin BootPcs /\ p \notin LoopPcs
  /\ {Start("x86_early_init"), Start("lapic_init"), Start("timer_init"), Start("sti")}
       \subseteq BootPcs
  /\ {Start("read_time"), Start("compare"), Start("heartbeat")} \subseteq LoopPcs
  /\ \A n \in 1 .. 5 : <<"timer_interrupt_handler", n>> \in HandlerPcs
  BY DEF BootPcs, LoopPcs, HandlerPcs, Start

\* The five places of the handler are different.
LEMMA StepFacts ==
  ASSUME NEW n \in 1 .. 5, AtStep(n)
  PROVE  /\ pc \in HandlerPcs
         /\ \A k \in 1 .. 5 : AtStep(k) <=> k = n
         /\ Continue => pc' = <<"timer_interrupt_handler", n + 1>>
  BY Zenon DEF AtStep, HandlerPcs, Continue

LEMMA OutsideHandler ==
  \A p \in BootPcs \cup LoopPcs, n \in 1 .. 5 : p # <<"timer_interrupt_handler", n>>
  BY PcFacts, Zenon

LEMMA WordFacts ==
  /\ Junk \in Words /\ \A n \in Nat : Const(n) \in Words
  /\ IfSet \in Words /\ IfClear \in Words /\ IfSet # IfClear
  /\ \A m, n : Const(m) = Const(n) => m = n
  BY DEF Words, Const, Junk, IfSet, IfClear

\* The bytes of an address come together again.
LEMMA GateFacts ==
  ASSUME NEW sym, NEW sel, NEW flags, "P" \in flags
  PROVE  /\ IsGate(gate(AddressOf(sym), sel, flags))
         /\ GateOffset(gate(AddressOf(sym), sel, flags)) = AddressOf(sym)
         /\ gate(AddressOf(sym), sel, flags).selector = sel
<1> DEFINE a == AddressOf(sym)
           X == {<<sym, k>> : k \in 1 .. 8}
<1>1. a \in Seq(X) /\ Len(a) = 8
  BY DEF AddressOf
<1> HIDE DEF a, X
<1>2. SubSeq(a, 1, 2) \o SubSeq(a, 3, 4) = SubSeq(a, 1, 4)
  BY <1>1, ConcatAdjacentSubSeq
<1>3. SubSeq(a, 1, 4) \o SubSeq(a, 5, 8) = SubSeq(a, 1, 8)
  BY <1>1, ConcatAdjacentSubSeq
<1>4. SubSeq(a, 1, 8) = a
  BY <1>1, SubSeqFull, Zenon
<1>5. GateOffset(gate(a, sel, flags)) = a
  BY <1>2, <1>3, <1>4, Zenon DEF GateOffset, gate
<1>6. IsGate(gate(a, sel, flags)) /\ gate(a, sel, flags).selector = sel
  BY Zenon DEF IsGate, gate
<1> QED
  BY <1>5, <1>6, Zenon DEF a

LEMMA KernelSegment == IsKernelCode(Segments, KCODE_SEL)
<1>1. KCODE_SEL \div 8 = 1
  BY DEF KCODE_SEL
<1>2. Entry(Segments, KCODE_SEL) = Segment(Code, {"4K", "64BIT"})
  BY <1>1 DEF Entry, Segments
<1> QED
  BY <1>2 DEF IsKernelCode, Segment, gdt_entry, Flags64

-----------------------------------------------------------------------------
(***************************************************************************)
(* The boot.                                                               *)
(***************************************************************************)

LEMMA InitInv == Init => TInv
<1> SUFFICES ASSUME Init PROVE TInv
  BY Zenon
<1> USE TimerAssumption DEF Init
<1>1. pc \in BootPcs /\ pc \notin LoopPcs /\ pc \notin HandlerPcs /\ pc # Start("sti")
  BY PcFacts, Zenon DEF Start
<1>2. TypeOK
  <2>1. regs \in [Regs -> Words]
    <3>1. \A r \in Regs : <<"boot", r>> \in Words
      BY Zenon DEF Words
    <3> QED
      BY <3>1, WordFacts, Zenon
  <2> QED
    BY <1>1, <2>1 DEF TypeOK
<1>3. Delivery
  BY <1>1, Zenon DEF Delivery, Regs
<1>4. Kept
  BY <1>1, Zenon DEF Kept, Stacks
<1>5. Times
  BY <1>1, Zenon DEF Times
<1>6. RoundTicks <= MaxLag
  BY <1>1, OutsideHandler DEF RoundTicks, AtStep
<1> QED
  BY <1>2, <1>3, <1>4, <1>5, <1>6, Zenon DEF TInv

\* The three steps before interrupts are enabled.
LEMMA BootStep ==
  ASSUME TInv, x86_early_init \/ lapic_init \/ timer_init
  PROVE  TInv'
<1> USE TimerAssumption
<1>1. /\ pc \in BootPcs /\ pc \notin LoopPcs /\ pc \notin HandlerPcs /\ pc # Start("sti")
      /\ pc' \in BootPcs /\ pc' \notin LoopPcs /\ pc' \notin HandlerPcs
      /\ UNCHANGED <<regs, rsp, stack, has_lapic, system_tick_count, since, lag>>
  BY PcFacts DEF x86_early_init, lapic_init, timer_init, Start
<1>2. lapic.armed = FALSE /\ lapic.irr = FALSE
  BY <1>1, Zenon DEF TInv, Delivery, TypeOK
<1>3. /\ lapic' \in [enabled : BOOLEAN, armed : BOOLEAN, irr : BOOLEAN, isr : BOOLEAN]
      /\ lapic'.irr = FALSE
  <2>1. lapic \in [enabled : BOOLEAN, armed : BOOLEAN, irr : BOOLEAN, isr : BOOLEAN]
    BY Zenon DEF TInv, TypeOK
  <2>2. CASE x86_early_init
    BY <1>2, <2>1, <2>2, Zenon DEF x86_early_init
  <2>3. CASE lapic_init
    BY <1>2, <2>1, <2>3, Zenon DEF lapic_init
  <2>4. CASE timer_init
    BY <1>2, <2>1, <2>4, Zenon DEF timer_init
  <2> QED
    BY <2>2, <2>3, <2>4, Zenon
<1>4. TypeOK'
  BY <1>1, <1>3 DEF TInv, TypeOK, x86_early_init, lapic_init, timer_init, KCODE_SEL, KDATA_SEL
<1>5. Delivery'
  <2>1. CASE x86_early_init
    BY <1>1, <1>2, <2>1, Zenon DEF TInv, Delivery, x86_early_init, Start
  <2>2. CASE lapic_init
    BY <1>1, <1>2, <2>2, Zenon DEF TInv, TypeOK, Delivery, lapic_init, Start
  <2>3. CASE timer_init
    <3>1. pc' = Start("sti") /\ UNCHANGED <<regs, has_lapic>>
      BY <2>3, Zenon DEF timer_init
    <3>2. /\ idt' = [v \in Vectors |-> idt'[v]]
          /\ has_lapic => idt'[32] = gate(AddressOf("timer_interrupt_handler"), KCODE_SEL, {"P"})
      BY <2>3, Zenon DEF TInv, Delivery, timer_init
    <3>3. lapic'.armed => has_lapic
      BY <1>2, <2>3, Zenon DEF timer_init
    <3> QED
      BY <1>1, <1>3, <3>1, <3>2, <3>3 DEF TInv, Delivery
  <2> QED
    BY <2>1, <2>2, <2>3, Zenon
<1>6. Kept'
  BY <1>1, Zenon DEF TInv, Kept
<1>7. Times'
  BY <1>1, Zenon DEF TInv, Times
<1>8. (RoundTicks <= MaxLag)'
  <2>1. ~AtStep(1)' /\ ~AtStep(2)'
    BY <1>1, OutsideHandler DEF AtStep
  <2>2. lag' = 0
    BY <1>1, Zenon DEF TInv, Times
  <2>3. RoundTicks' = 0
    BY <1>3, <2>1, <2>2 DEF RoundTicks
  <2> QED
    BY <2>3
<1> QED
  BY <1>4, <1>5, <1>6, <1>7, <1>8, Zenon DEF TInv

-----------------------------------------------------------------------------
(***************************************************************************)
(* The loop.                                                               *)
(***************************************************************************)

LEMMA StiStep == ASSUME TInv, sti PROVE TInv'
<1> USE TimerAssumption
<1>1. /\ pc \in BootPcs /\ pc \notin LoopPcs /\ pc \notin HandlerPcs /\ pc = Start("sti")
      /\ pc' = Start("read_time")
      /\ pc' \in LoopPcs /\ pc' \notin BootPcs /\ pc' \notin HandlerPcs
      /\ UNCHANGED <<rsp, cs, ss, stack, timerVars>>
  BY PcFacts, Zenon DEF sti
<1>2. /\ regs' \in [Regs -> Words] /\ regs'["rflags"] = IfSet
      /\ regs'["rbx"] = Const(0) /\ regs'["r13"] = Const(0)
  BY WordFacts, Zenon DEF TInv, TypeOK, sti, Regs
<1>3. system_tick_count = 0 /\ since = 0 /\ lag = 0
  BY <1>1, Zenon DEF TInv, Times
<1>4. TypeOK'
  BY <1>1, <1>2, Zenon DEF TInv, TypeOK, timerVars
<1>5. Delivery'
  BY <1>1, <1>2, Zenon DEF TInv, Delivery, timerVars
<1>6. Kept'
  BY <1>1, Zenon DEF TInv, Kept
<1>7. Times'
  <2>1. LoopPc' = Start("read_time") /\ LoopRegs' = regs'
    BY <1>1, Zenon DEF LoopPc, LoopRegs
  <2>2. Ahead(0, 0, 0) /\ 0 \in 0 .. (U64 - 1)
    BY DEF Ahead
  <2>3. UNCHANGED <<system_tick_count, since, lag>>
    BY <1>1, Zenon DEF timerVars
  <2>4. Start("read_time") # Start("heartbeat")
    BY Zenon DEF Start
  <2> QED
    BY <1>1, <1>2, <1>3, <2>1, <2>2, <2>3, <2>4 DEF Times
<1>8. (RoundTicks <= MaxLag)'
  <2>1. ~AtStep(1)' /\ ~AtStep(2)'
    BY <1>1, OutsideHandler DEF AtStep
  <2> QED
    BY <1>1, <1>3, <2>1 DEF RoundTicks, timerVars
<1> QED
  BY <1>4, <1>5, <1>6, <1>7, <1>8, Zenon DEF TInv

\* The facts about a step that stays in the loop.
LEMMA LoopFacts ==
  ASSUME TInv, pc \in LoopPcs
  PROVE  /\ pc \notin BootPcs /\ pc \notin HandlerPcs
         /\ RoundTicks = lag + (IF lapic.irr THEN 1 ELSE 0)
         /\ LoopPc = pc /\ LoopRegs = regs
         /\ rsp = <<"boot", 0>> /\ stack["boot"] = <<>>
<1>1. pc \notin BootPcs /\ pc \notin HandlerPcs
  BY PcFacts, Zenon
<1>2. ~AtStep(1) /\ ~AtStep(2)
  BY OutsideHandler DEF AtStep
<1>3. lag \in Nat
  BY Zenon DEF TInv, TypeOK
<1>4. RoundTicks = lag + (IF lapic.irr THEN 1 ELSE 0)
  BY <1>2, <1>3 DEF RoundTicks
<1> QED
  BY <1>1, <1>4, Zenon DEF LoopPc, LoopRegs, TInv, Kept

\* What an instruction of the loop has to show: the rest is as it was.
LEMMA LoopStep ==
  ASSUME TInv, pc \in LoopPcs, pc' \in LoopPcs,
         UNCHANGED <<rsp, cs, ss, stack, has_lapic, lapic, idt, system_tick_count>>,
         regs' \in [Regs -> Words], regs'["rflags"] = IfSet,
         since' \in Nat, lag' \in Nat, lag' <= lag,
         \E now, last \in 0 .. (U64 - 1) :
            /\ regs'["r13"] = Const(now) /\ Ahead(system_tick_count, now, lag')
            /\ regs'["rbx"] = Const(last) /\ Ahead(system_tick_count, last, since'),
         lag' <= since',
         pc' = Start("read_time") => since' - lag' < HEARTBEAT,
         since' - lag' < HEARTBEAT + MaxLag,
         pc' = Start("heartbeat") => since' - lag' >= HEARTBEAT
  PROVE  TInv'
<1>1. /\ pc \notin BootPcs /\ pc \notin HandlerPcs
      /\ RoundTicks = lag + (IF lapic.irr THEN 1 ELSE 0)
      /\ rsp = <<"boot", 0>> /\ stack["boot"] = <<>>
  BY LoopFacts, Zenon
<1>2. pc' \notin BootPcs /\ pc' \notin HandlerPcs
  BY PcFacts, Zenon
<1>3. TypeOK'
  BY Zenon DEF TInv, TypeOK
<1>4. Delivery'
  BY <1>1, <1>2, Zenon DEF TInv, Delivery
<1>5. Kept'
  BY <1>1, <1>2, Zenon DEF Kept
<1>6. Times'
  <2>1. LoopPc' = pc' /\ LoopRegs' = regs'
    BY <1>2, Zenon DEF LoopPc, LoopRegs
  <2> QED
    BY <1>2, <2>1, Zenon DEF Times
<1>7. (RoundTicks <= MaxLag)'
  <2>1. ~AtStep(1)' /\ ~AtStep(2)'
    BY OutsideHandler DEF AtStep
  <2>2. RoundTicks' = lag' + (IF lapic.irr THEN 1 ELSE 0)
    BY <2>1 DEF RoundTicks
  <2>3. lag \in Nat /\ MaxLag \in Nat
    BY TimerAssumption, Zenon DEF TInv, TypeOK
  <2>4. RoundTicks <= MaxLag
    BY Zenon DEF TInv
  <2> DEFINE x == IF lapic.irr THEN 1 ELSE 0
  <2>5. x \in Nat /\ RoundTicks = lag + x /\ RoundTicks' = lag' + x
    BY <1>1, <2>2, Zenon
  <2> HIDE DEF x
  <2>6. lag + x <= MaxLag
    BY <2>4, <2>5, Zenon
  <2>7. lag' + x <= MaxLag
    <3>1. \A a, b, c, d \in Nat : a <= b /\ b + c <= d => a + c <= d
      OBVIOUS
    <3> QED
      BY <2>3, <2>5, <2>6, <3>1, Zenon
  <2>8. RoundTicks' <= MaxLag
    BY <2>5, <2>7, Zenon
  <2> QED
    BY <2>8, Zenon
<1> QED
  BY <1>3, <1>4, <1>5, <1>6, <1>7, Zenon DEF TInv

\* The times of a loop that runs.
LEMMA LoopTimes ==
  ASSUME TInv, pc \in LoopPcs
  PROVE  /\ \E now, last \in 0 .. (U64 - 1) :
              /\ regs["r13"] = Const(now) /\ Ahead(system_tick_count, now, lag)
              /\ regs["rbx"] = Const(last) /\ Ahead(system_tick_count, last, since)
         /\ lag <= since
         /\ pc = Start("read_time") => since - lag < HEARTBEAT
         /\ since - lag < HEARTBEAT + MaxLag
         /\ pc = Start("heartbeat") => since - lag >= HEARTBEAT
         /\ lag <= MaxLag
         /\ regs["rflags"] = IfSet
<1>1. /\ pc \notin BootPcs /\ LoopPc = pc /\ LoopRegs = regs
      /\ RoundTicks = lag + (IF lapic.irr THEN 1 ELSE 0)
  BY LoopFacts, Zenon
<1>2. lag <= MaxLag
  <2>1. lag \in Nat /\ MaxLag \in Nat /\ RoundTicks <= MaxLag
    BY TimerAssumption, Zenon DEF TInv, TypeOK
  <2> QED
    BY <1>1, <2>1
<1>3. regs["rflags"] = IfSet
  BY Zenon DEF TInv, Delivery
<1> QED
  BY <1>1, <1>2, <1>3, Zenon DEF TInv, Times

\* get_system_time_ms: the loop is up to date, and may have waited MaxLag ticks.
LEMMA ReadStep == ASSUME TInv, get_system_time_ms PROVE TInv'
<1> USE TimerAssumption
<1>1. /\ pc \in LoopPcs /\ pc' \in LoopPcs
      /\ pc = Start("read_time") /\ pc' = Start("compare")
      /\ UNCHANGED <<rsp, cs, ss, stack, has_lapic, lapic, idt, system_tick_count, since>>
      /\ lag' = 0
  BY PcFacts, Zenon DEF get_system_time_ms
<1>2. /\ since \in Nat /\ lag \in Nat /\ system_tick_count \in 0 .. (U64 - 1)
      /\ regs \in [Regs -> Words]
  BY Zenon DEF TInv, TypeOK
<1>3. PICK now \in 0 .. (U64 - 1), last \in 0 .. (U64 - 1) :
         regs["rbx"] = Const(last) /\ Ahead(system_tick_count, last, since)
  BY <1>1, LoopTimes, Zenon
<1>4. /\ since - lag < HEARTBEAT /\ lag <= MaxLag /\ regs["rflags"] = IfSet
  BY <1>1, LoopTimes, Zenon
<1>5. /\ regs' \in [Regs -> Words] /\ regs'["rflags"] = IfSet
      /\ regs'["r13"] = Const(system_tick_count) /\ regs'["rbx"] = Const(last)
  BY <1>2, <1>3, <1>4, WordFacts DEF get_system_time_ms, Regs
<1>6. Ahead(system_tick_count, system_tick_count, 0)
  BY <1>2 DEF Ahead
<1>7. Start("compare") # Start("read_time") /\ Start("compare") # Start("heartbeat")
  BY Zenon DEF Start
<1>8. \E n, l \in 0 .. (U64 - 1) :
            /\ regs'["r13"] = Const(n) /\ Ahead(system_tick_count, n, lag')
            /\ regs'["rbx"] = Const(l) /\ Ahead(system_tick_count, l, since')
  BY <1>1, <1>2, <1>3, <1>5, <1>6, Zenon
<1>9. since' - lag' < HEARTBEAT + MaxLag /\ lag' <= since' /\ lag' <= lag
  BY <1>1, <1>2, <1>4
<1> QED
  BY <1>1, <1>2, <1>5, <1>7, <1>8, <1>9, LoopStep, Zenon

\* The difference in 64 bits is the time that has passed.
LEMMA Difference ==
  ASSUME NEW t \in 0 .. (U64 - 1), NEW now \in 0 .. (U64 - 1), NEW last \in 0 .. (U64 - 1),
         NEW n \in Nat, NEW s \in Nat, n <= s, s < U64, Ahead(t, now, n), Ahead(t, last, s)
  PROVE  (now - last) % U64 = s - n
<1> USE TimerAssumption
<1>1. \A d \in 0 .. (U64 - 1) : d % U64 = d /\ (d - U64) % U64 = d
  OBVIOUS
<1>2. now - last = s - n \/ now - last = (s - n) - U64
  BY DEF Ahead
<1> QED
  BY <1>1, <1>2

LEMMA CompareStep == ASSUME TInv, Compare PROVE TInv'
<1> USE TimerAssumption
<1>1. /\ pc \in LoopPcs /\ pc' \in LoopPcs
      /\ pc' = IF Due(current_time, last_time) THEN Start("heartbeat") ELSE Start("read_time")
      /\ UNCHANGED <<regs, rsp, cs, ss, stack, has_lapic, lapic, idt, system_tick_count,
                     since, lag>>
  BY PcFacts, Zenon DEF Compare, timerVars
<1>2. /\ since \in Nat /\ lag \in Nat /\ system_tick_count \in 0 .. (U64 - 1)
      /\ regs \in [Regs -> Words]
  BY Zenon DEF TInv, TypeOK
<1>3. /\ lag <= since /\ since - lag < HEARTBEAT + MaxLag /\ lag <= MaxLag
      /\ regs["rflags"] = IfSet
  BY <1>1, LoopTimes, Zenon
<1>4. PICK now \in 0 .. (U64 - 1), last \in 0 .. (U64 - 1) :
         /\ regs["r13"] = Const(now) /\ Ahead(system_tick_count, now, lag)
         /\ regs["rbx"] = Const(last) /\ Ahead(system_tick_count, last, since)
  BY <1>1, LoopTimes, Zenon
<1>5. since < U64
  BY <1>2, <1>3
<1>6. (now - last) % U64 = since - lag
  BY <1>2, <1>3, <1>4, <1>5, Difference
<1>7. current_time = now /\ last_time = last
  BY <1>4 DEF current_time, last_time, Const
<1>8. Due(current_time, last_time) <=> since - lag >= HEARTBEAT
  BY <1>6, <1>7, Zenon DEF Due
<1>9. Start("read_time") # Start("heartbeat")
  BY Zenon DEF Start
<1>10. /\ pc' = Start("read_time") => since' - lag' < HEARTBEAT
       /\ pc' = Start("heartbeat") => since' - lag' >= HEARTBEAT
  BY <1>1, <1>2, <1>8, <1>9
<1>11. \E n, l \in 0 .. (U64 - 1) :
            /\ regs'["r13"] = Const(n) /\ Ahead(system_tick_count, n, lag')
            /\ regs'["rbx"] = Const(l) /\ Ahead(system_tick_count, l, since')
  BY <1>1, <1>4, Zenon
<1> QED
  BY <1>1, <1>2, <1>3, <1>10, <1>11, LoopStep

\* The time in last_time becomes the one that was compared.
LEMMA HeartbeatStep == ASSUME TInv, Heartbeat PROVE TInv'
<1> USE TimerAssumption
<1>1. /\ pc \in LoopPcs /\ pc' \in LoopPcs /\ pc' = Start("read_time")
      /\ UNCHANGED <<rsp, cs, ss, stack, has_lapic, lapic, idt, system_tick_count, lag>>
      /\ since' = lag
  BY PcFacts, Zenon DEF Heartbeat
<1>2. /\ since \in Nat /\ lag \in Nat /\ system_tick_count \in 0 .. (U64 - 1)
      /\ regs \in [Regs -> Words]
  BY Zenon DEF TInv, TypeOK
<1>3. regs["rflags"] = IfSet
  BY <1>1, LoopTimes, Zenon
<1>4. PICK now \in 0 .. (U64 - 1) :
         regs["r13"] = Const(now) /\ Ahead(system_tick_count, now, lag)
  BY <1>1, LoopTimes, Zenon
<1>5. /\ regs' \in [Regs -> Words] /\ regs'["rflags"] = IfSet
      /\ regs'["r13"] = Const(now) /\ regs'["rbx"] = Const(now)
  BY <1>2, <1>3, <1>4, WordFacts, Zenon DEF Heartbeat, AfterCall, Regs, CalleeSaved
<1>6. \E n, l \in 0 .. (U64 - 1) :
            /\ regs'["r13"] = Const(n) /\ Ahead(system_tick_count, n, lag')
            /\ regs'["rbx"] = Const(l) /\ Ahead(system_tick_count, l, since')
  BY <1>1, <1>4, <1>5, Zenon
<1>7. Start("read_time") # Start("heartbeat")
  BY Zenon DEF Start
<1>8. since' - lag' < HEARTBEAT /\ since' - lag' < HEARTBEAT + MaxLag /\ lag' <= since'
      /\ lag' <= lag /\ since' \in Nat /\ lag' \in Nat
  BY <1>1, <1>2
<1> QED
  BY <1>1, <1>5, <1>6, <1>7, <1>8, LoopStep, Zenon

-----------------------------------------------------------------------------
(***************************************************************************)
(* The interrupt.                                                          *)
(***************************************************************************)

\* A step that leaves the times alone and the loop where it is.
LEMMA TimesKept ==
  ASSUME Times, pc \notin BootPcs, pc' \notin BootPcs,
         LoopPc' = LoopPc, LoopRegs' = LoopRegs,
         UNCHANGED <<system_tick_count, since, lag>>
  PROVE  Times'
  BY Zenon DEF Times

\* The timer fires when the round of the loop has a tick left, or in the boot.
LEMMA FiresStep == ASSUME TInv, TimerFires PROVE TInv'
<1> USE TimerAssumption
<1>1. /\ UNCHANGED <<pc, regs, rsp, cs, ss, stack, has_lapic, idt, system_tick_count,
                     since, lag, interrupted>>
      /\ lapic.armed /\ lapic' = [lapic EXCEPT !.irr = TRUE]
  BY Zenon DEF TimerFires, cpuVars
<1>2. /\ lapic \in [enabled : BOOLEAN, armed : BOOLEAN, irr : BOOLEAN, isr : BOOLEAN]
      /\ lag \in Nat
  BY Zenon DEF TInv, TypeOK
<1>3. /\ lapic' \in [enabled : BOOLEAN, armed : BOOLEAN, irr : BOOLEAN, isr : BOOLEAN]
      /\ lapic'.irr = TRUE /\ lapic'.armed = lapic.armed
  BY <1>1, <1>2, Zenon
<1>4. TypeOK'
  BY <1>1, <1>3, Zenon DEF TInv, TypeOK
<1>5. Delivery'
  BY <1>1, <1>3, Zenon DEF TInv, Delivery
<1>6. Kept'
  BY <1>1, Zenon DEF TInv, Kept, AtStep, Frame, Saved
<1>7. Times'
  BY <1>1, Zenon DEF TInv, Times, LoopPc, LoopRegs
<1>8. (RoundTicks <= MaxLag)'
  <2> DEFINE x == IF AtStep(1) \/ AtStep(2) THEN 1 ELSE 0
             y == IF lapic.irr THEN 1 ELSE 0
  <2>1. x \in 0 .. 1 /\ y \in 0 .. 1
    OBVIOUS
  <2>2. RoundTicks = lag + y + x
    BY Zenon DEF RoundTicks
  <2>3. RoundTicks' = lag + 1 + x
    BY <1>1, <1>3, Zenon DEF RoundTicks, AtStep
  <2> HIDE DEF x, y
  <2>4. CASE pc \in BootPcs
    <3>1. lag = 0
      BY <2>4, Zenon DEF TInv, Times
    <3>2. x = 0
      BY <2>4, OutsideHandler DEF AtStep, x
    <3> QED
      BY <2>3, <3>1, <3>2
  <2>5. CASE pc \notin BootPcs
    <3>1. InLoop \/ InHandler
      BY <2>5 DEF TInv, TypeOK, LoopPcs, HandlerPcs, InLoop, InHandler, Loop, Start
    <3>2. RoundTicks < MaxLag
      BY <3>1, Zenon DEF TimerFires
    <3>3. \A n, k \in Nat, i, j \in 0 .. 1 : n + j + i < k => n + 1 + i <= k
      OBVIOUS
    <3>4. lag + 1 + x <= MaxLag
      BY <1>2, <2>1, <2>2, <3>2, <3>3, Zenon
    <3> QED
      BY <2>3, <3>4, Zenon
  <2> QED
    BY <2>4, <2>5, Zenon
<1> QED
  BY <1>4, <1>5, <1>6, <1>7, <1>8, Zenon DEF TInv

LEMMA FrameFacts ==
  ASSUME NEW a, NEW b, NEW c, NEW d, NEW e
  PROVE  SubSeq(<<>>, 1, 0) \o <<a, b, c, d, e>> = <<a, b, c, d, e>>
<1> DEFINE X == {a, b, c, d, e}
<1>1. <<a, b, c, d, e>> \in Seq(X)
  OBVIOUS
<1>2. SubSeq(<<>>, 1, 0) = <<>>
  BY SubSeqEmpty
<1> QED
  BY <1>1, <1>2, ConcatEmptySeq, Zenon

\* The processor pushes the state of the loop and finds the handler.
LEMMA InterruptStep == ASSUME TInv, Interrupt PROVE TInv'
<1> USE TimerAssumption
<1>1. IfSet # IfClear
  BY WordFacts, Zenon
<1>2. /\ pc \in LoopPcs /\ pc \notin BootPcs /\ pc \notin HandlerPcs
      /\ regs["rflags"] = IfSet /\ lapic.irr
  BY <1>1, PcFacts, Zenon DEF TInv, TypeOK, Delivery, Interrupt
<1>3. pc' = Start("timer_interrupt_handler")
  <2>1. idt[32] = gate(AddressOf("timer_interrupt_handler"), KCODE_SEL, {"P"})
    BY <1>2, Zenon DEF TInv, Delivery
  <2>2. /\ IsGate(idt[32]) /\ IsKernelCode(Segments, idt[32].selector)
        /\ GateOffset(idt[32]) = AddressOf("timer_interrupt_handler")
    BY <2>1, GateFacts, KernelSegment
  <2> QED
    BY <2>2, Zenon DEF Interrupt
<1>4. /\ AtStep(1)' /\ pc' \in HandlerPcs /\ pc' \notin BootPcs /\ pc' \notin LoopPcs
      /\ ~AtStep(2)'
  BY <1>3, PcFacts DEF AtStep, Start
<1>5. /\ UNCHANGED <<cs, ss, has_lapic, idt, system_tick_count, since, lag>>
      /\ lapic' = [lapic EXCEPT !.irr = FALSE, !.isr = TRUE]
      /\ regs' = [regs EXCEPT !["rflags"] = IfClear]
      /\ interrupted' = <<pc, regs, rsp>>
  BY Zenon DEF Interrupt
<1>6. /\ lapic \in [enabled : BOOLEAN, armed : BOOLEAN, irr : BOOLEAN, isr : BOOLEAN]
      /\ lag \in Nat /\ regs \in [Regs -> Words]
  BY Zenon DEF TInv, TypeOK
<1>7. /\ regs' \in [Regs -> Words] /\ regs'["rflags"] = IfClear
      /\ \A r \in Regs \ {"rflags"} : regs'[r] = regs[r]
  BY <1>5, <1>6, WordFacts, Zenon DEF Regs
<1>8. rsp = <<"boot", 0>> /\ stack["boot"] = <<>> /\ stack = [s \in Stacks |-> stack[s]]
  BY <1>2, Zenon DEF TInv, Kept, TypeOK
<1>9. /\ stack' = [s \in Stacks |-> stack'[s]]
      /\ rsp' = <<"boot", 5>> /\ stack'["boot"] = Frame'
  <2> DEFINE f == <<Const(ss), rsp, regs["rflags"], Const(cs), pc>>
  <2>1. /\ stack' = [stack EXCEPT !["boot"] = SubSeq(@, 1, 0) \o f]
        /\ rsp' = <<"boot", 0 + Len(f)>>
    BY <1>8, Zenon DEF Interrupt, PushWords
  <2>2. Len(f) = 5 /\ SubSeq(<<>>, 1, 0) \o f = f
    BY FrameFacts, Zenon
  <2>3. Frame' = f
    BY <1>2, <1>5, <1>8, Zenon DEF Frame
  <2> HIDE DEF f
  <2>4. rsp' = <<"boot", 5>>
    BY <2>1, <2>2
  <2>5. DOMAIN stack = Stacks /\ "boot" \in Stacks
    BY <1>8, Zenon DEF Stacks
  <2>6. stack' = [s \in Stacks |-> IF s = "boot" THEN f ELSE stack[s]]
    BY <1>8, <2>1, <2>2, <2>5, Zenon
  <2>7. stack'["boot"] = f /\ stack' = [s \in Stacks |-> stack'[s]]
    BY <2>5, <2>6, Zenon
  <2> QED
    BY <2>3, <2>4, <2>7, Zenon
<1>10. TypeOK'
  BY <1>4, <1>5, <1>6, <1>7, <1>9, Zenon DEF TInv, TypeOK
<1>11. Delivery'
  BY <1>2, <1>4, <1>5, <1>6, <1>7, Zenon DEF TInv, Delivery
<1>12. Kept'
  <2>1. /\ interrupted'[1] = pc /\ interrupted'[2] = regs
        /\ interrupted' = <<interrupted'[1], interrupted'[2], <<"boot", 0>>>>
    BY <1>5, <1>8, Zenon
  <2>2. "rip" \in Regs \ {"rflags"}
    BY Zenon DEF Regs
  <2> QED
    BY <1>2, <1>4, <1>6, <1>7, <1>9, <2>1, <2>2, Zenon DEF Kept
<1>13. Times'
  <2>1. LoopPc' = LoopPc /\ LoopRegs' = LoopRegs
    BY <1>2, <1>4, <1>5, Zenon DEF LoopPc, LoopRegs
  <2> QED
    BY <1>2, <1>4, <1>5, <2>1, TimesKept, Zenon DEF TInv
<1>14. (RoundTicks <= MaxLag)'
  <2>1. RoundTicks = lag + 1
    <3>1. RoundTicks = lag + (IF lapic.irr THEN 1 ELSE 0)
      BY <1>2, LoopFacts, Zenon
    <3> QED
      BY <1>2, <3>1, Zenon
  <2>2. RoundTicks' = lag + 1
    <3>1. lapic'.irr = FALSE
      BY <1>5, <1>6, Zenon
    <3> QED
      BY <1>4, <1>5, <1>6, <3>1 DEF RoundTicks
  <2>3. RoundTicks' = RoundTicks /\ RoundTicks <= MaxLag
    BY <2>1, <2>2, Zenon DEF TInv
  <2> QED
    BY <2>3, Zenon
<1> QED
  BY <1>10, <1>11, <1>12, <1>13, <1>14, Zenon DEF TInv

-----------------------------------------------------------------------------
(***************************************************************************)
(* The handler.                                                            *)
(***************************************************************************)

LEMMA OrderFacts ==
  /\ DOMAIN SaveOrder = 1 .. 15 /\ DOMAIN RestoreOrder = 1 .. 15 /\ Len(RestoreOrder) = 15
  /\ \A k \in 1 .. 15 : SaveOrder[k] \in Regs \ {"rip", "rflags"}
  BY DEF SaveOrder, RestoreOrder, Regs

\* The registers are popped in the reverse of the order in which they are pushed.
LEMMA ReverseOrder ==
  /\ \A k \in 1 .. 15 : RestoreOrder[k] = SaveOrder[16 - k]
  /\ \A j, k \in 1 .. 15 : RestoreOrder[j] = RestoreOrder[k] => j = k
  /\ \A r \in Regs \ {"rip", "rflags"} : \E k \in 1 .. 15 : RestoreOrder[k] = r
  /\ \A k \in 1 .. 15 : RestoreOrder[k] # "rip" /\ RestoreOrder[k] # "rflags"
<1>1. \A k \in 1 .. 15 : RestoreOrder[k] = SaveOrder[16 - k]
  BY DEF SaveOrder, RestoreOrder
<1>2. \A j, k \in 1 .. 15 : RestoreOrder[j] = RestoreOrder[k] => j = k
  BY DEF RestoreOrder
<1>3. ASSUME NEW r \in Regs \ {"rip", "rflags"} PROVE \E k \in 1 .. 15 : RestoreOrder[k] = r
  BY DEF RestoreOrder, Regs
<1>4. \A k \in 1 .. 15 : RestoreOrder[k] # "rip" /\ RestoreOrder[k] # "rflags"
  BY DEF RestoreOrder
<1> QED
  BY <1>1, <1>2, <1>3, <1>4, Zenon

\* h is a frame f with the registers g on top.
Joined(f, g, h) ==
  /\ Len(h) = 20 /\ SubSeq(h, 1, 5) = f
  /\ \A k \in 1 .. 15 : h[5 + k] = g[k]

LEMMA ConcatFacts ==
  ASSUME NEW X, NEW f \in Seq(X), NEW g \in Seq(X), Len(f) = 5, Len(g) = 15
  PROVE  Joined(f, g, f \o g)
<1>1. SubSeq(f \o g, 1, 5) = SubSeq(f, 1, 5)
  <2>1. 1 \in 1 .. Len(f) /\ 5 \in 1 .. Len(f)
    OBVIOUS
  <2> QED
    BY <2>1, SubSeqOfConcat1, Zenon
<1>2. SubSeq(f, 1, 5) = f
  BY SubSeqFull, Zenon
<1> DEFINE h == f \o g
<1>3. /\ Len(h) = Len(f) + Len(g)
      /\ \A i \in 1 .. Len(f) + Len(g) : h[i] = IF i <= Len(f) THEN f[i] ELSE g[i - Len(f)]
  BY ConcatProperties, Zenon
<1> HIDE DEF h
<1>4. Len(h) = 20 /\ \A k \in 1 .. 15 : h[5 + k] = g[k]
  BY <1>3
<1> QED
  BY <1>1, <1>2, <1>4, Zenon DEF h, Joined

\* The words on the stack.
LEMMA StackFacts ==
  /\ Len(Frame) = 5 /\ SubSeq(Frame, 1, 5) = Frame
  /\ Joined(Frame, Saved, Frame \o Saved)
<1> DEFINE X == {Frame[k] : k \in 1 .. 5} \cup {Saved[k] : k \in 1 .. 15}
<1>1. Frame \in Seq(X) /\ Len(Frame) = 5
  BY DEF Frame
<1>2. Saved \in Seq(X) /\ Len(Saved) = 15
  BY DEF Saved
<1> HIDE DEF X
<1>3. SubSeq(Frame, 1, 5) = Frame
  BY <1>1, SubSeqFull, Zenon
<1>4. Joined(Frame, Saved, Frame \o Saved)
  BY <1>1, <1>2, ConcatFacts, Zenon
<1> QED
  BY <1>1, <1>3, <1>4, Zenon

\* What holds in the handler.
LEMMA HandlerFacts ==
  ASSUME TInv, NEW n \in 1 .. 5, AtStep(n)
  PROVE  /\ pc \in HandlerPcs /\ pc \notin BootPcs /\ pc \notin LoopPcs
         /\ \A k \in 1 .. 5 : AtStep(k) <=> k = n
         /\ interrupted = <<interrupted[1], interrupted[2], <<"boot", 0>>>>
         /\ interrupted[1] \in LoopPcs
         /\ interrupted[2] \in [Regs -> Words] /\ interrupted[2]["rflags"] = IfSet
         /\ regs["rip"] = interrupted[2]["rip"] /\ regs["rflags"] = IfClear
         /\ LoopPc = interrupted[1] /\ LoopRegs = interrupted[2]
<1>1. pc \in HandlerPcs /\ \A k \in 1 .. 5 : AtStep(k) <=> k = n
  BY StepFacts, Zenon
<1>2. pc \notin BootPcs /\ pc \notin LoopPcs
  BY <1>1, PcFacts, Zenon
<1> QED
  BY <1>1, <1>2, Zenon DEF TInv, Kept, Delivery, LoopPc, LoopRegs

\* What a step inside the handler has to show.
LEMMA HandlerStep ==
  ASSUME TInv, NEW n \in 1 .. 4, AtStep(n), Continue,
         UNCHANGED <<cs, ss, has_lapic, idt, interrupted>>,
         regs' \in [Regs -> Words], regs'["rflags"] = IfClear, regs'["rip"] = regs["rip"],
         stack' = [s \in Stacks |-> stack'[s]],
         lapic' \in [enabled : BOOLEAN, armed : BOOLEAN, irr : BOOLEAN, isr : BOOLEAN],
         lapic'.irr = lapic.irr, lapic'.armed = lapic.armed,
         system_tick_count' \in 0 .. (U64 - 1), since' \in Nat, lag' \in Nat,
         n \in {1, 4} => \A r \in Regs \ {"rflags"} : regs'[r] = interrupted[2][r],
         IF n = 4 THEN rsp' = <<"boot", 5>> /\ stack'["boot"] = Frame
                  ELSE rsp' = <<"boot", 20>> /\ stack'["boot"] = Frame \o Saved,
         Times'
  PROVE  /\ TypeOK' /\ Delivery' /\ Kept'
         /\ \A k \in 1 .. 5 : AtStep(k)' <=> k = n + 1
<1>1. pc' = <<"timer_interrupt_handler", n + 1>>
  BY StepFacts
<1>2. pc' \in HandlerPcs /\ pc' \notin BootPcs /\ pc' \notin LoopPcs
  BY <1>1, PcFacts
<1>3. \A k \in 1 .. 5 : AtStep(k)' <=> k = n + 1
  BY <1>1, Zenon DEF AtStep
<1>4. Frame' = Frame /\ Saved' = Saved
  BY Zenon DEF Frame, Saved
<1>5. TypeOK'
  BY <1>2, Zenon DEF TInv, TypeOK
<1>6. Delivery'
  BY <1>2, HandlerFacts DEF TInv, Delivery
<1>7. Kept'
  <2>1. /\ AtStep(1)' \/ AtStep(2)' \/ AtStep(5)' =>
             \A r \in Regs \ {"rflags"} : regs'[r] = interrupted[2][r]
        /\ IF AtStep(1)' \/ AtStep(5)'
           THEN rsp' = <<"boot", 5>> /\ stack'["boot"] = Frame
           ELSE rsp' = <<"boot", 20>> /\ stack'["boot"] = Frame \o Saved
    BY <1>3
  <2> QED
    BY <1>2, <1>4, <2>1, HandlerFacts DEF Kept
<1> QED
  BY <1>3, <1>5, <1>6, <1>7, Zenon

\* The loop does not move while the handler goes on.
LEMMA LoopWaits ==
  ASSUME TInv, NEW n \in 1 .. 4, AtStep(n), Continue, interrupted' = interrupted
  PROVE  /\ pc \notin BootPcs /\ pc' \notin BootPcs
         /\ LoopPc' = LoopPc /\ LoopRegs' = LoopRegs
<1>1. pc' = <<"timer_interrupt_handler", n + 1>> /\ pc \in HandlerPcs
  BY StepFacts
<1>2. pc' \in HandlerPcs /\ pc' \notin BootPcs /\ pc \notin BootPcs
  BY <1>1, PcFacts
<1> QED
  BY <1>1, <1>2, Zenon DEF LoopPc, LoopRegs

LEMMA SaveRegistersStep == ASSUME TInv, SaveRegisters PROVE TInv'
<1> USE TimerAssumption
<1>1. AtStep(1) /\ Continue /\ UNCHANGED <<regs, cs, ss, room, timerVars>>
  BY Zenon DEF SaveRegisters
<1>2. UNCHANGED <<regs, cs, ss, has_lapic, lapic, idt, system_tick_count, since, lag, interrupted>>
  BY <1>1, Zenon DEF timerVars
<1>3. /\ \A k \in 1 .. 5 : AtStep(k) <=> k = 1
      /\ interrupted[2] \in [Regs -> Words] /\ regs["rflags"] = IfClear
      /\ pc \in HandlerPcs
  BY <1>1, HandlerFacts
<1>4. /\ rsp = <<"boot", 5>> /\ stack["boot"] = Frame
      /\ \A r \in Regs \ {"rflags"} : regs[r] = interrupted[2][r]
      /\ stack = [s \in Stacks |-> stack[s]] /\ regs \in [Regs -> Words]
      /\ lapic \in [enabled : BOOLEAN, armed : BOOLEAN, irr : BOOLEAN, isr : BOOLEAN]
      /\ system_tick_count \in 0 .. (U64 - 1) /\ since \in Nat /\ lag \in Nat
  BY <1>1, <1>3, Zenon DEF TInv, Kept, TypeOK
<1>5. /\ stack' = [s \in Stacks |-> stack'[s]]
      /\ rsp' = <<"boot", 20>> /\ stack'["boot"] = Frame \o Saved
  <2> DEFINE g == [k \in DOMAIN SaveOrder |-> regs[SaveOrder[k]]]
  <2>1. g = Saved
    BY <1>4, OrderFacts, Zenon DEF Saved
  <2>2. Len(g) = 15
    BY OrderFacts
  <2>3. /\ stack' = [stack EXCEPT !["boot"] = SubSeq(@, 1, 5) \o g]
        /\ rsp' = <<"boot", 5 + Len(g)>>
    BY <1>4, Zenon DEF SaveRegisters, PushWords
  <2> HIDE DEF g
  <2>4. stack' = [s \in Stacks |-> IF s = "boot" THEN Frame \o g ELSE stack[s]]
    BY <1>4, <2>3, StackFacts, Zenon
  <2>5. "boot" \in Stacks
    BY Zenon DEF Stacks
  <2>6. stack'["boot"] = Frame \o g
    BY <2>4, <2>5, Zenon
  <2>7. stack' = [s \in Stacks |-> stack'[s]]
    BY <2>4, Zenon
  <2>8. rsp' = <<"boot", 20>>
    BY <2>2, <2>3
  <2> QED
    BY <2>1, <2>6, <2>7, <2>8, Zenon
<1>6. Times'
  BY <1>1, <1>2, LoopWaits, TimesKept DEF TInv
<1>7. /\ TypeOK' /\ Delivery' /\ Kept'
      /\ \A k \in 1 .. 5 : AtStep(k)' <=> k = 2
  BY <1>1, <1>2, <1>3, <1>4, <1>5, <1>6, HandlerStep
<1>8. RoundTicks' <= MaxLag
  BY <1>2, <1>3, <1>7 DEF TInv, RoundTicks
<1> QED
  BY <1>6, <1>7, <1>8, Zenon DEF TInv

\* The counter goes on, and wraps.
LEMMA CountFacts ==
  ASSUME NEW t \in 0 .. (U64 - 1)
  PROVE  (t + 1) % U64 = IF t = U64 - 1 THEN 0 ELSE t + 1
<1> USE TimerAssumption
<1>1. CASE t = U64 - 1
  <2>1. t + 1 = U64
    BY <1>1
  <2>2. U64 % U64 = 0
    OBVIOUS
  <2> QED
    BY <1>1, <2>1, <2>2, Zenon
<1>2. CASE t # U64 - 1
  BY <1>2
<1> QED
  BY <1>1, <1>2, Zenon

LEMMA AheadStep ==
  ASSUME NEW t \in 0 .. (U64 - 1), NEW m \in 0 .. (U64 - 1), NEW n \in Nat, n < U64,
         Ahead(t, m, n)
  PROVE  Ahead((t + 1) % U64, m, n + 1)
  BY CountFacts, TimerAssumption DEF Ahead

LEMMA CallFacts ==
  ASSUME regs \in [Regs -> Words]
  PROVE  /\ AfterCall(Junk) \in [Regs -> Words]
         /\ AfterCall(Junk)["rflags"] = regs["rflags"]
         /\ AfterCall(Junk)["rip"] = regs["rip"]
<1>1. \A r \in Regs : AfterCall(Junk)[r] \in Words
  BY WordFacts, Zenon DEF AfterCall
<1>2. AfterCall(Junk) = [r \in Regs |-> AfterCall(Junk)[r]]
  BY DEF AfterCall
<1>3. AfterCall(Junk) \in [Regs -> Words]
  BY <1>1, <1>2, Zenon
<1>4. /\ AfterCall(Junk)["rflags"] = regs["rflags"]
      /\ AfterCall(Junk)["rip"] = regs["rip"]
  BY Zenon DEF AfterCall, Regs
<1> QED
  BY <1>3, <1>4, Zenon

LEMMA TickStep == ASSUME TInv, timer_tick_handler PROVE TInv'
<1> USE TimerAssumption
<1>1. /\ AtStep(2) /\ Continue /\ regs' = AfterCall(Junk)
      /\ system_tick_count' = (system_tick_count + 1) % U64
      /\ UNCHANGED <<rsp, cs, ss, stack, has_lapic, lapic, idt, interrupted>>
  BY Zenon DEF timer_tick_handler
<1>2. /\ \A k \in 1 .. 5 : AtStep(k) <=> k = 2
      /\ regs["rflags"] = IfClear
      /\ pc \in HandlerPcs /\ pc \notin BootPcs
  BY <1>1, HandlerFacts
<1>3. /\ rsp = <<"boot", 20>> /\ stack["boot"] = Frame \o Saved
      /\ stack = [s \in Stacks |-> stack[s]] /\ regs \in [Regs -> Words]
      /\ lapic \in [enabled : BOOLEAN, armed : BOOLEAN, irr : BOOLEAN, isr : BOOLEAN]
      /\ system_tick_count \in 0 .. (U64 - 1) /\ since \in Nat /\ lag \in Nat
  <2>1. ~AtStep(1) /\ ~AtStep(5)
    BY <1>2
  <2> QED
    BY <1>2, <2>1, Zenon DEF TInv, Kept, TypeOK
<1>4. lag + (IF lapic.irr THEN 1 ELSE 0) + 1 <= MaxLag
  BY <1>2 DEF TInv, RoundTicks
<1>5. /\ lag <= since /\ since - lag < HEARTBEAT + MaxLag
      /\ LoopPc = Start("read_time") => since - lag < HEARTBEAT
      /\ LoopPc = Start("heartbeat") => since - lag >= HEARTBEAT
  BY <1>2, Zenon DEF TInv, Times
<1>6. lag < MaxLag /\ lag < U64 /\ since < U64
  <2>1. lag \in Nat /\ since \in Nat /\ since - lag < HEARTBEAT + MaxLag
    BY <1>3, <1>5, Zenon
  <2>2. lag < MaxLag
    BY <1>4, <2>1
  <2> QED
    BY <2>1, <2>2
<1>7. since' = since + 1 /\ lag' = lag + 1
  BY <1>6, Zenon DEF timer_tick_handler
<1>8. system_tick_count' \in 0 .. (U64 - 1)
  BY <1>1, <1>3, CountFacts
<1>9. /\ pc' \notin BootPcs /\ LoopPc' = LoopPc /\ LoopRegs' = LoopRegs
  BY <1>1, LoopWaits
<1>10. Times'
  <2>1. PICK now, last \in 0 .. (U64 - 1) :
           /\ LoopRegs["r13"] = Const(now) /\ Ahead(system_tick_count, now, lag)
           /\ LoopRegs["rbx"] = Const(last) /\ Ahead(system_tick_count, last, since)
    BY <1>2, Zenon DEF TInv, Times
  <2>2. /\ Ahead(system_tick_count', now, lag')
        /\ Ahead(system_tick_count', last, since')
    BY <1>1, <1>3, <1>6, <1>7, <2>1, AheadStep, Zenon
  <2>3. \E n, l \in 0 .. (U64 - 1) :
           /\ LoopRegs'["r13"] = Const(n) /\ Ahead(system_tick_count', n, lag')
           /\ LoopRegs'["rbx"] = Const(l) /\ Ahead(system_tick_count', l, since')
    BY <1>9, <2>1, <2>2, Zenon
  <2>4. lag' <= since' /\ since' - lag' = since - lag
    <3>1. lag \in Nat /\ since \in Nat /\ lag <= since
      BY <1>3, <1>5, Zenon
    <3> QED
      BY <1>7, <3>1
  <2> QED
    BY <1>5, <1>9, <2>3, <2>4, Zenon DEF Times, Ahead
<1>11. regs' \in [Regs -> Words] /\ regs'["rflags"] = IfClear /\ regs'["rip"] = regs["rip"]
  BY <1>1, <1>2, <1>3, CallFacts, Zenon
<1>12. /\ TypeOK' /\ Delivery' /\ Kept'
       /\ \A k \in 1 .. 5 : AtStep(k)' <=> k = 3
  BY <1>1, <1>3, <1>7, <1>8, <1>10, <1>11, HandlerStep
<1>13. RoundTicks' <= MaxLag
  <2>1. lag \in Nat /\ lag' = lag + 1 /\ lapic' = lapic
    BY <1>1, <1>3, <1>7, Zenon
  <2>2. ~AtStep(1)' /\ ~AtStep(2)'
    BY <1>12
  <2> QED
    BY <1>4, <2>1, <2>2 DEF RoundTicks
<1> QED
  BY <1>10, <1>12, <1>13, Zenon DEF TInv

LEMMA EoiStep == ASSUME TInv, lapic_eoi PROVE TInv'
<1> USE TimerAssumption
<1>1. /\ AtStep(3) /\ Continue /\ regs' = AfterCall(Junk)
      /\ lapic' = [lapic EXCEPT !.isr = FALSE]
      /\ UNCHANGED <<rsp, cs, ss, stack, has_lapic, idt, system_tick_count, since, lag,
                     interrupted>>
  BY Zenon DEF lapic_eoi, Acknowledged
<1>2. /\ \A k \in 1 .. 5 : AtStep(k) <=> k = 3
      /\ regs["rflags"] = IfClear
      /\ pc \in HandlerPcs
  BY <1>1, HandlerFacts
<1>3. /\ rsp = <<"boot", 20>> /\ stack["boot"] = Frame \o Saved
      /\ stack = [s \in Stacks |-> stack[s]] /\ regs \in [Regs -> Words]
      /\ lapic \in [enabled : BOOLEAN, armed : BOOLEAN, irr : BOOLEAN, isr : BOOLEAN]
      /\ system_tick_count \in 0 .. (U64 - 1) /\ since \in Nat /\ lag \in Nat
  <2>1. ~AtStep(1) /\ ~AtStep(5)
    BY <1>2
  <2> QED
    BY <1>2, <2>1, Zenon DEF TInv, Kept, TypeOK
<1>4. /\ lapic' \in [enabled : BOOLEAN, armed : BOOLEAN, irr : BOOLEAN, isr : BOOLEAN]
      /\ lapic'.irr = lapic.irr /\ lapic'.armed = lapic.armed
  BY <1>1, <1>3, Zenon
<1>5. Times'
  BY <1>1, LoopWaits, TimesKept DEF TInv
<1>6. regs' \in [Regs -> Words] /\ regs'["rflags"] = IfClear /\ regs'["rip"] = regs["rip"]
  BY <1>1, <1>2, <1>3, CallFacts, Zenon
<1>7. /\ TypeOK' /\ Delivery' /\ Kept'
      /\ \A k \in 1 .. 5 : AtStep(k)' <=> k = 4
  BY <1>1, <1>3, <1>4, <1>5, <1>6, HandlerStep
<1>8. RoundTicks' <= MaxLag
  BY <1>1, <1>2, <1>3, <1>4, <1>7 DEF TInv, RoundTicks
<1> QED
  BY <1>5, <1>7, <1>8, Zenon DEF TInv

LEMMA RestoreRegistersStep == ASSUME TInv, RestoreRegisters PROVE TInv'
<1> USE TimerAssumption
<1>1. /\ AtStep(4) /\ Continue
      /\ UNCHANGED <<cs, ss, has_lapic, lapic, idt, system_tick_count, since, lag, interrupted>>
  BY Zenon DEF RestoreRegisters, timerVars
<1>2. /\ \A k \in 1 .. 5 : AtStep(k) <=> k = 4
      /\ interrupted[2] \in [Regs -> Words]
      /\ regs["rflags"] = IfClear /\ regs["rip"] = interrupted[2]["rip"]
      /\ pc \in HandlerPcs
  BY <1>1, HandlerFacts
<1>3. /\ rsp = <<"boot", 20>> /\ stack["boot"] = Frame \o Saved
      /\ stack = [s \in Stacks |-> stack[s]] /\ regs \in [Regs -> Words]
      /\ lapic \in [enabled : BOOLEAN, armed : BOOLEAN, irr : BOOLEAN, isr : BOOLEAN]
      /\ system_tick_count \in 0 .. (U64 - 1) /\ since \in Nat /\ lag \in Nat
  <2>1. ~AtStep(1) /\ ~AtStep(5)
    BY <1>2
  <2> QED
    BY <1>2, <2>1, Zenon DEF TInv, Kept, TypeOK
<1>4. /\ stack' = [s \in Stacks |-> stack'[s]]
      /\ rsp' = <<"boot", 5>> /\ stack'["boot"] = Frame
  <2>1. rsp' = <<"boot", 5>> /\ stack' = [stack EXCEPT !["boot"] = SubSeq(@, 1, 5)]
    <3>1. rsp = <<"boot", 20>>
      BY <1>3, Zenon
    <3>2. rsp[1] = "boot" /\ Up(15) = <<"boot", 5>> /\ Up(15)[2] = 5
      BY <3>1 DEF Up
    <3>3. DropWords(15)
      BY OrderFacts, Zenon DEF RestoreRegisters
    <3> QED
      BY <3>2, <3>3, Zenon DEF DropWords
  <2>2. SubSeq(Frame \o Saved, 1, 5) = Frame
    BY StackFacts, Zenon DEF Joined
  <2>3. stack' = [s \in Stacks |-> IF s = "boot" THEN Frame ELSE stack[s]]
    BY <1>3, <2>1, <2>2, Zenon
  <2>4. "boot" \in Stacks
    BY Zenon DEF Stacks
  <2>5. stack'["boot"] = Frame
    BY <2>3, <2>4, Zenon
  <2>6. stack' = [s \in Stacks |-> stack'[s]]
    BY <2>3, Zenon
  <2> QED
    BY <2>1, <2>5, <2>6, Zenon
<1>5. \A k \in 1 .. 15 : Word(k - 1) = interrupted[2][RestoreOrder[k]]
  <2> TAKE k \in 1 .. 15
  <2> DEFINE h == Frame \o Saved
  <2>1. \A j \in 1 .. 15 : h[5 + j] = Saved[j]
    BY StackFacts, Zenon DEF Joined
  <2>2. stack["boot"] = h
    BY <1>3, Zenon
  <2> HIDE DEF h
  <2>3. Word(k - 1) = h[20 - (k - 1)]
    <3>1. rsp = <<"boot", 20>>
      BY <1>3, Zenon
    <3>2. rsp[1] = "boot" /\ rsp[2] = 20
      BY <3>1, Zenon
    <3> QED
      BY <2>2, <3>2 DEF Word
  <2>4. 16 - k \in 1 .. 15 /\ 20 - (k - 1) = 5 + (16 - k)
    OBVIOUS
  <2>5. Word(k - 1) = Saved[16 - k]
    BY <2>1, <2>3, <2>4, Zenon
  <2>6. Saved[16 - k] = interrupted[2][SaveOrder[16 - k]]
    BY <2>4, Zenon DEF Saved
  <2> QED
    BY <2>5, <2>6, ReverseOrder, Zenon
<1>6. \A r \in Regs \ {"rflags"} : regs'[r] = interrupted[2][r]
  <2> SUFFICES ASSUME NEW r \in Regs \ {"rflags"} PROVE regs'[r] = interrupted[2][r]
    BY Zenon
  <2>1. regs'[r] = IF \E k \in 1 .. 15 : RestoreOrder[k] = r
                   THEN Word((CHOOSE k \in 1 .. 15 : RestoreOrder[k] = r) - 1)
                   ELSE regs[r]
    BY OrderFacts DEF RestoreRegisters
  <2>2. CASE r = "rip"
    BY <1>2, <2>1, <2>2, ReverseOrder, Zenon
  <2>3. CASE r # "rip"
    <3> DEFINE k == CHOOSE j \in 1 .. 15 : RestoreOrder[j] = r
    <3>1. \E j \in 1 .. 15 : RestoreOrder[j] = r
      BY <2>3, ReverseOrder, Zenon
    <3>2. k \in 1 .. 15 /\ RestoreOrder[k] = r
      BY <3>1, Zenon
    <3>3. regs'[r] = Word(k - 1)
      BY <2>1, <3>1, Zenon
    <3> HIDE DEF k
    <3> QED
      BY <1>5, <3>2, <3>3, Zenon
  <2> QED
    BY <2>2, <2>3, Zenon
<1>7. regs'["rflags"] = IfClear
  <2>1. regs'["rflags"] = IF \E k \in 1 .. 15 : RestoreOrder[k] = "rflags"
                   THEN Word((CHOOSE k \in 1 .. 15 : RestoreOrder[k] = "rflags") - 1)
                   ELSE regs["rflags"]
    BY OrderFacts DEF RestoreRegisters, Regs
  <2> QED
    BY <1>2, <2>1, ReverseOrder, Zenon
<1>8. regs' \in [Regs -> Words] /\ regs'["rip"] = regs["rip"]
  <2>1. regs' = [r \in Regs |-> regs'[r]]
    BY Zenon DEF RestoreRegisters
  <2>2. \A r \in Regs : regs'[r] \in Words
    BY <1>2, <1>6, <1>7, WordFacts
  <2>3. "rip" \in Regs \ {"rflags"}
    BY Zenon DEF Regs
  <2> QED
    BY <1>2, <1>6, <2>1, <2>2, <2>3, Zenon
<1>9. Times'
  BY <1>1, LoopWaits, TimesKept DEF TInv
<1>10. /\ TypeOK' /\ Delivery' /\ Kept'
       /\ \A k \in 1 .. 5 : AtStep(k)' <=> k = 5
  BY <1>1, <1>3, <1>4, <1>6, <1>7, <1>8, <1>9, HandlerStep
<1>11. RoundTicks' <= MaxLag
  BY <1>1, <1>2, <1>3, <1>10 DEF TInv, RoundTicks
<1> QED
  BY <1>9, <1>10, <1>11, Zenon DEF TInv

\* What iretq finds on the stack is the state of the loop.
LEMMA IretqReturns ==
  ASSUME TInv, Iretq
  PROVE  /\ pc' = interrupted[1] /\ regs' = interrupted[2] /\ rsp' = <<"boot", 0>>
         /\ cs' = cs /\ ss' = ss
         /\ stack' = [s \in Stacks |-> stack'[s]] /\ stack'["boot"] = <<>>
<1>1. AtStep(5)
  BY Zenon DEF Iretq
<1>2. /\ interrupted[2] \in [Regs -> Words] /\ interrupted[2]["rflags"] = IfSet
      /\ pc \in HandlerPcs
  BY <1>1, HandlerFacts
<1>3. /\ rsp = <<"boot", 5>> /\ stack["boot"] = Frame
      /\ \A r \in Regs \ {"rflags"} : regs[r] = interrupted[2][r]
      /\ stack = [s \in Stacks |-> stack[s]] /\ regs \in [Regs -> Words]
  BY <1>1, <1>2, Zenon DEF TInv, Kept, TypeOK
<1>4. /\ Word(0) = interrupted[1] /\ Word(1) = Const(cs) /\ Word(2) = IfSet
      /\ Word(3) = <<"boot", 0>> /\ Word(4) = Const(ss)
  BY <1>3 DEF Word, Frame
<1>5. pc' = interrupted[1] /\ rsp' = <<"boot", 0>> /\ cs' = cs /\ ss' = ss
  BY <1>4 DEF Iretq, Const
<1>6. regs' = interrupted[2]
  <2>1. regs' = [regs EXCEPT !["rflags"] = IfSet]
    BY <1>4, Zenon DEF Iretq
  <2> QED
    BY <1>2, <1>3, <2>1, Zenon
<1>7. stack' = [s \in Stacks |-> stack'[s]] /\ stack'["boot"] = <<>>
  <2>1. stack' = [stack EXCEPT !["boot"] = SubSeq(@, 1, 0)]
    <3>1. rsp = <<"boot", 5>>
      BY <1>3, Zenon
    <3>2. rsp[1] = "boot" /\ Up(5)[2] = 0
      BY <3>1 DEF Up
    <3> QED
      BY <3>2, Zenon DEF Iretq
  <2>2. SubSeq(Frame, 1, 0) = <<>>
    BY SubSeqEmpty
  <2>3. stack' = [s \in Stacks |-> IF s = "boot" THEN <<>> ELSE stack[s]]
    BY <1>3, <2>1, <2>2, Zenon
  <2>4. "boot" \in Stacks
    BY Zenon DEF Stacks
  <2>5. stack'["boot"] = <<>>
    BY <2>3, <2>4, Zenon
  <2>6. stack' = [s \in Stacks |-> stack'[s]]
    BY <2>3, Zenon
  <2> QED
    BY <2>5, <2>6, Zenon
<1> QED
  BY <1>5, <1>6, <1>7, Zenon

LEMMA IretqStep == ASSUME TInv, Iretq PROVE TInv'
<1> USE TimerAssumption
<1>1. /\ AtStep(5)
      /\ UNCHANGED <<has_lapic, lapic, idt, system_tick_count, since, lag, interrupted>>
  BY Zenon DEF Iretq, timerVars
<1>2. /\ interrupted[1] \in LoopPcs /\ interrupted[2] \in [Regs -> Words]
      /\ interrupted[2]["rflags"] = IfSet
      /\ pc \in HandlerPcs /\ pc \notin BootPcs
      /\ LoopPc = interrupted[1] /\ LoopRegs = interrupted[2]
      /\ \A k \in 1 .. 5 : AtStep(k) <=> k = 5
  BY <1>1, HandlerFacts
<1>3. pc' \in LoopPcs /\ pc' \notin BootPcs /\ pc' \notin HandlerPcs
  BY <1>2, IretqReturns, PcFacts, Zenon
<1>4. LoopPc' = LoopPc /\ LoopRegs' = LoopRegs
  BY <1>2, <1>3, IretqReturns, Zenon DEF LoopPc, LoopRegs
<1>5. TypeOK'
  BY <1>1, <1>2, <1>3, IretqReturns, Zenon DEF TInv, TypeOK
<1>6. Delivery'
  BY <1>1, <1>2, <1>3, IretqReturns, Zenon DEF TInv, Delivery
<1>7. Kept'
  BY <1>3, IretqReturns, Zenon DEF Kept
<1>8. Times'
  BY <1>1, <1>2, <1>3, <1>4, TimesKept, Zenon DEF TInv
<1>9. ~AtStep(1)' /\ ~AtStep(2)'
  BY <1>3 DEF AtStep, HandlerPcs
<1>10. RoundTicks' <= MaxLag
  BY <1>1, <1>2, <1>9 DEF TInv, TypeOK, RoundTicks
<1> QED
  BY <1>5, <1>6, <1>7, <1>8, <1>10, Zenon DEF TInv

-----------------------------------------------------------------------------
LEMMA NextInv == TInv /\ [Next]_vars => TInv'
<1> SUFFICES ASSUME TInv, [Next]_vars PROVE TInv'
  BY Zenon
<1>1. CASE x86_early_init \/ lapic_init \/ timer_init
  BY <1>1, BootStep, Zenon
<1>2. CASE sti
  BY <1>2, StiStep, Zenon
<1>3. CASE get_system_time_ms
  BY <1>3, ReadStep, Zenon
<1>4. CASE Compare
  BY <1>4, CompareStep, Zenon
<1>5. CASE Heartbeat
  BY <1>5, HeartbeatStep, Zenon
<1>6. CASE SaveRegisters
  BY <1>6, SaveRegistersStep, Zenon
<1>7. CASE timer_tick_handler
  BY <1>7, TickStep, Zenon
<1>8. CASE lapic_eoi
  BY <1>8, EoiStep, Zenon
<1>9. CASE RestoreRegisters
  BY <1>9, RestoreRegistersStep, Zenon
<1>10. CASE Iretq
  BY <1>10, IretqStep, Zenon
<1>11. CASE Interrupt
  BY <1>11, InterruptStep, Zenon
<1>12. CASE TimerFires
  BY <1>12, FiresStep, Zenon
<1>13. CASE UNCHANGED vars
  BY <1>13, Zenon DEF vars, cpuVars, timerVars, TInv, TypeOK, Delivery, Kept, Frame, Saved, Times,
               LoopPc, LoopRegs, RoundTicks, AtStep
<1> QED
  BY <1>1, <1>2, <1>3, <1>4, <1>5, <1>6, <1>7, <1>8, <1>9, <1>10, <1>11, <1>12, <1>13, Zenon
  DEF Next, Main, Handler

\* Whatever the interleaving of the loop with the timer, the interrupt finds its
\* handler (pc is never Halted), the handler keeps the state it interrupted, and
\* the loop's times are behind the counter by the ticks that really passed.
THEOREM TimerInvariant == Spec => []TInv
<1>1. Init => TInv
  BY InitInv, Zenon
<1> QED
  BY <1>1, NextInv, PTL DEF Spec

\* The heartbeat of kmain's loop: never before HEARTBEAT ticks, never later than
\* the loop's rounds make it, for every interval, every width of the counter
\* and wherever it wraps.
THEOREM HeartbeatOnTimeTheorem == Spec => []HeartbeatOnTime
<1>1. TInv => HeartbeatOnTime
  <2> SUFFICES ASSUME TInv PROVE HeartbeatOnTime
    BY Zenon
  <2> USE TimerAssumption
  <2>1. since \in Nat /\ lag \in Nat /\ lag <= MaxLag
    BY DEF TInv, TypeOK, RoundTicks
  <2>2. CASE pc \in BootPcs
    <3>1. pc # Start("heartbeat") /\ since = 0
      BY <2>2, PcFacts, Zenon DEF TInv, Times
    <3> QED
      BY <3>1 DEF HeartbeatOnTime
  <2>3. CASE pc \notin BootPcs
    <3>1. since - lag < HEARTBEAT + MaxLag
      BY <2>3, Zenon DEF TInv, Times
    <3>2. ASSUME pc = Start("heartbeat") PROVE since - lag >= HEARTBEAT
      <4>1. LoopPc = Start("heartbeat")
        BY <3>2, PcFacts, Zenon DEF LoopPc
      <4> QED
        BY <2>3, <4>1, Zenon DEF TInv, Times
    <3> QED
      BY <2>1, <3>1, <3>2 DEF HeartbeatOnTime
  <2> QED
    BY <2>2, <2>3, Zenon
<1> QED
  BY <1>1, TimerInvariant, PTL

\* timer.S: when the handler returns, the loop goes on where it was, with the
\* registers and the stack it had, wherever the interrupt came.
THEOREM InterruptTransparentTheorem == Spec => InterruptTransparent
<1>1. TInv /\ [Next]_vars => [Iretq => <<pc, regs, rsp>>' = interrupted]_vars
  <2> SUFFICES ASSUME TInv, Iretq PROVE <<pc, regs, rsp>>' = interrupted
    BY Zenon
  <2>1. interrupted = <<interrupted[1], interrupted[2], <<"boot", 0>>>>
    BY HandlerFacts DEF Iretq
  <2> QED
    BY <2>1, IretqReturns, Zenon
<1> QED
  BY <1>1, TimerInvariant, PTL DEF Spec, InterruptTransparent
=============================================================================
