----------------------------- MODULE FaultEntry ------------------------------
(***************************************************************************)
(* Exceptions, together with system calls: the tables that gdt_init,       *)
(* tss_init and idt_init write, enter_user, the stubs of idt_minimal.c     *)
(* instruction by instruction, and the processor's way from an exception   *)
(* through the tables to a stub.  "cli" is left out of the stubs: the      *)
(* gates clear IF, and nothing interrupts this kernel.  What the handler   *)
(* prints is left out.                                                     *)
(***************************************************************************)
EXTENDS SyscallEntry, Descriptors

CONSTANT UserFaults    \* the vectors of the exceptions that user mode raises

ASSUME FaultAssumption == UserFaults \subseteq 0 .. 31

VARIABLES gdt, tr, tss, idt

tableVars == <<gdt, tr, tss, idt>>
vars == <<cpuVars, entryVars, tableVars>>

NoGate == gate(NullAddress, 0, {})

Init ==
  /\ pc = Start("gdt_init")
  /\ regs = [r \in Regs |-> Junk]
  /\ rsp = <<"boot", 0>>
  /\ cs = 0 /\ ss = 0
  /\ stack = [s \in Stacks |-> <<>>]
  /\ room \in UserRooms
  /\ saved_user_rsp = <<"boot", 0>>
  /\ turn = 0
  /\ entry = NoEntry
  /\ result = 0
  /\ gdt = [i \in 0 .. 9 |-> NullEntry]
  /\ tr = NullAddress
  /\ tss = [rsp0 |-> <<"boot", 0>>, ist1 |-> <<"boot", 0>>]
  /\ idt = [v \in 0 .. 31 |-> NoGate]

-----------------------------------------------------------------------------
\* The table is loaded and CS with it; without a kernel code segment that is an
\* exception, and there is no IDT yet.
gdt_init ==
  /\ pc = Start("gdt_init")
  /\ gdt' = SegmentTable
  /\ IF IsKernelCode(gdt', KCODE_SEL)
     THEN pc' = Start("tss_init") /\ cs' = KCODE_SEL /\ ss' = KDATA_SEL
     ELSE pc' = Shutdown /\ UNCHANGED <<cs, ss>>
  /\ UNCHANGED <<regs, rsp, stack, room, entryVars, tr, tss, idt>>

tss_init ==
  /\ pc = Start("tss_init")
  /\ tss' = [rsp0 |-> <<"kernel", 0>>, ist1 |-> <<"interrupt", 0>>]
  /\ gdt' = gdt_set_tss(gdt, 5, AddressOf("tss"), <<"67", 0>>, {"P", "TSS"})
  /\ IF IsFreeTss(gdt', TSS_SEL)
     THEN pc' = Start("idt_init") /\ tr' = TssBase(gdt', TSS_SEL)
     ELSE pc' = Shutdown /\ UNCHANGED tr
  /\ UNCHANGED <<regs, rsp, cs, ss, stack, room, entryVars, idt>>

\* The stub that idt_init enters for a vector; the other gates stay empty.
Stubs ==
  [v \in {0, 1, 3, 6, 8, 13, 14} |->
     CASE v = 0 -> "isr_0" [] v = 1 -> "isr_1" [] v \in {3, 8} -> "generic_fault_handler"
       [] v = 6 -> "isr_6" [] v = 13 -> "isr_13" [] v = 14 -> "isr_14"]

idt_init ==
  /\ pc = Start("idt_init")
  /\ idt' = [v \in 0 .. 31 |->
               IF v \in DOMAIN Stubs THEN gate(AddressOf(Stubs[v]), KCODE_SEL, {"P"}) ELSE NoGate]
  /\ pc' = Start("enter_user")
  /\ UNCHANGED <<regs, rsp, cs, ss, stack, room, entryVars, gdt, tr, tss>>

-----------------------------------------------------------------------------
\* The frame that enter_user builds; user mode begins its turn 0 with it.
enter_user ==
  << <<"push_const", Const(UDATA_SEL + 3)>>, <<"push_const", <<"user", 0>> >>,
     <<"push_const", UserValue(0, "rflags")>>, <<"push_const", Const(UCODE_SEL + 3)>>,
     <<"push_const", UserValue(0, "rip")>>, <<"iretq">> >>

Report == <<"call", "handle_fault_with_vector">>

StubPopsSwapped(v) ==
  << <<"push_const", Const(0)>>, <<"push", "rax">>, <<"push", "rdi">>,
     <<"mov_const", "rdi", v>>, <<"mov_const", "rsi", 0>>, Report,
     <<"pop", "rax">>, <<"pop", "rdi">>, <<"drop">>, <<"iretq">> >>

\* isr_0, isr_1 and isr_6: an exception without an error code.
StubWithoutError(v) ==
  << <<"push_const", Const(0)>>, <<"push", "rax">>, <<"push", "rdi">>,
     <<"mov_const", "rdi", v>>, <<"mov_const", "rsi", 0>>, Report,
     <<"pop", "rdi">>, <<"pop", "rax">>, <<"drop">>, <<"iretq">> >>

StubReadsRax(v) ==
  << <<"push", "rax">>, <<"push", "rdi">>,
     <<"load", "rsi", 1>>, <<"mov_const", "rdi", v>>, Report,
     <<"pop", "rdi">>, <<"pop", "rax">>, <<"drop">>, <<"iretq">> >>

\* isr_13 and isr_14: the error code is two words below the top.
StubWithError(v) ==
  << <<"push", "rax">>, <<"push", "rdi">>,
     <<"load", "rsi", 2>>, <<"mov_const", "rdi", v>>, Report,
     <<"pop", "rdi">>, <<"pop", "rax">>, <<"drop">>, <<"iretq">> >>

\* The vector goes to RAX, and the two words are popped in the order in which
\* they were pushed.
generic_fault_handler ==
  << <<"push", "rax">>, <<"push_const", Const(0)>>, <<"mov_const", "rax", 99>>, Report,
     <<"pop", "rax">>, <<"drop">>, <<"iretq">> >>

Routine ==
  [syscall_entry |-> syscall_entry, enter_user |-> enter_user,
   generic_fault_handler |-> generic_fault_handler,
   isr_0 |-> StubWithoutError(0), isr_1 |-> StubWithoutError(1), isr_6 |-> StubWithoutError(6),
   isr_13 |-> StubWithError(13), isr_14 |-> StubWithError(14)]

InCode == pc[1] \in DOMAIN Routine
Instr == Routine[pc[1]][pc[2]]

-----------------------------------------------------------------------------
HasError(v) == v \in {8, 10, 11, 12, 13, 14, 17}
ErrorCode(v) == <<"error", v>>
Contributory == {0, 10, 11, 12, 13}

Usable(v) == IsGate(idt[v]) /\ IsKernelCode(gdt, idt[v].selector)

\* An empty gate is an exception of its own, number 13, which is a double fault
\* if it comes on top of an exception of certain kinds or has no gate either.
Tried(v) == <<v, IF v \in Contributory \cup {14} THEN 8 ELSE 13, 8>>
Deliverable(v) == {k \in 1 .. 3 : Usable(Tried(v)[k])}
Delivered(v) == Tried(v)[CHOOSE k \in Deliverable(v) : \A j \in Deliverable(v) : k <= j]
Target(v) == CHOOSE s \in DOMAIN Routine : AddressOf(s) = GateOffset(idt[v])
HasTarget(v) == \E s \in DOMAIN Routine : AddressOf(s) = GateOffset(idt[v])

\* Exception v with the registers r.  From user mode the processor takes the
\* stack that the TSS names.  Without a stub, or without room for the frame, and
\* then none for that of the double fault, it shuts down.
Deliver(v, r) ==
  LET fromUser == pc = User
      base == IF fromUser THEN tss.rsp0 ELSE rsp
      d == Delivered(v)
      frame == <<Const(ss), rsp, r["rflags"], Const(cs), IF fromUser THEN r["rip"] ELSE pc>>
               \o (IF HasError(d) THEN <<ErrorCode(d)>> ELSE <<>>)
      lost == \/ Deliverable(v) = {}
              \/ ~HasTarget(d)
              \/ fromUser /\ tr # AddressOf("tss")
              \/ ~Fits(base, Len(frame))
  IN  /\ regs' = r
      /\ entry' = [kind |-> IF fromUser THEN "user_fault" ELSE "kernel_fault",
                   vector |-> IF lost THEN v ELSE d,
                   regs |-> r, rsp |-> rsp, cs |-> cs, state |-> "entered"]
      /\ IF lost
         THEN pc' = Shutdown /\ UNCHANGED <<rsp, cs, ss, stack>>
         ELSE /\ pc' = Start(Target(d))
              /\ PushWords(base, frame)
              /\ cs' = idt[d].selector
              /\ ss' = IF fromUser THEN 0 ELSE ss
      /\ UNCHANGED <<saved_user_rsp, result, tableVars>>

\* INT3 is an instruction, which user mode may use only if the gate allows it.
Raised(v) == IF v = 3 /\ "DPL3" \notin idt[v].type_attr THEN 13 ELSE v

\* User mode raises an exception.
UserFault ==
  /\ pc = User
  /\ turn' = NextTurn
  /\ room' = room
  /\ \E v \in UserFaults : Deliver(Raised(v), UserRegs(turn'))

\* The kernel runs out of the user's stack.
StackFault ==
  /\ InCode
  /\ Pushes(Instr) /\ ~Fits(rsp, 1)
  /\ Deliver(14, regs)
  /\ UNCHANGED <<turn, room>>

\* It does so in syscall_dispatch.  There is no room for a frame either.
DispatchFault ==
  /\ InCode /\ Instr = <<"call", "syscall_dispatch">>
  /\ Fits(rsp, 1) /\ ~Fits(rsp, DispatchRoom)
  /\ pc' = Shutdown
  /\ entry' = [kind |-> "kernel_fault", vector |-> 14,
               regs |-> regs, rsp |-> rsp, cs |-> cs, state |-> "entered"]
  /\ UNCHANGED <<regs, rsp, cs, ss, stack, room, saved_user_rsp, turn, result, tableVars>>

-----------------------------------------------------------------------------
\* handle_fault_with_vector looks at its first parameter: it returns from vector
\* 1 and halts in all other cases.  A parameter that nobody set may be 1.
ReportDebug ==
  /\ InCode /\ Instr = Report
  /\ Fits(rsp, 1)
  /\ regs["rdi"] = Const(1) \/ regs["rdi"][1] # "const"
  /\ regs' = AfterCall(Junk)
  /\ Continue
  /\ entry' = [entry EXCEPT !.state = "reported"]
  /\ UNCHANGED <<rsp, cs, ss, stack, room, saved_user_rsp, turn, result, tableVars>>

ReportAndHalt ==
  /\ InCode /\ Instr = Report
  /\ Fits(rsp, 1)
  /\ regs["rdi"] # Const(1)
  /\ pc' = Halted
  /\ entry' = [entry EXCEPT !.state = "reported"]
  /\ UNCHANGED <<regs, rsp, cs, ss, stack, room, saved_user_rsp, turn, result, tableVars>>

\* IRETQ checks the selectors it pops; no frame that it returns with here is one
\* of the kernel's.
Iretq ==
  LET sel(w) == IF w[1] = "const" THEN w[2] ELSE 0
  IN  /\ InCode /\ Instr[1] = "iretq"
      /\ IF IsUserCode(gdt, sel(Word(1))) /\ IsUserData(gdt, sel(Word(4)))
         THEN /\ pc' = User
              /\ regs' = [regs EXCEPT !["rip"] = Word(0), !["rflags"] = Word(2)]
              /\ cs' = sel(Word(1))
              /\ rsp' = Word(3)
              /\ ss' = sel(Word(4))
              /\ stack' = [stack EXCEPT ![rsp[1]] = SubSeq(@, 1, Up(5)[2])]
              /\ entry' = [entry EXCEPT !.state = "left"]
              /\ UNCHANGED <<room, saved_user_rsp, turn, result, tableVars>>
         ELSE Deliver(13, regs) /\ UNCHANGED <<turn, room>>

Boot == gdt_init \/ tss_init \/ idt_init

Kernel ==
  \/ Boot
  \/ InCode /\ Execute(Instr) /\ UNCHANGED <<entryVars, tableVars>>
  \/ InCode /\ SyscallStep(Instr) /\ UNCHANGED tableVars
  \/ StackFault
  \/ DispatchFault
  \/ ReportDebug
  \/ ReportAndHalt
  \/ Iretq

Next ==
  \/ Kernel
  \/ Syscall /\ UNCHANGED tableVars
  \/ UserFault

Spec == Init /\ [][Next]_vars /\ WF_vars(Kernel)

-----------------------------------------------------------------------------
\* A stub with a vector of its own hands handle_fault_with_vector that vector
\* and the error code that the processor pushed, or 0.
StubReports ==
  InCode /\ Instr = Report /\ pc[1] # "generic_fault_handler" =>
    /\ regs["rdi"] = Const(entry.vector)
    /\ regs["rsi"] = IF HasError(entry.vector) THEN ErrorCode(entry.vector) ELSE Const(0)

\* Where user mode goes on after a debug exception, it does so at the same
\* place, on the same stack and in the same segment, with RAX, RDI and the
\* registers that C functions keep.
DebugStateKept ==
  entry.kind = "user_fault" /\ entry.vector = 1 /\ entry.state = "left" =>
    /\ rsp = entry.rsp
    /\ cs = entry.cs
    /\ \A r \in CalleeSaved \cup {"rax", "rdi", "rip", "rflags"} : regs[r] = entry.regs[r]

\* Every exception of user mode is reported, on the kernel's stack: also one
\* without a gate, which becomes a general protection or a double fault, and
\* whatever system calls came before.
UserFaultsReported ==
  entry.kind = "user_fault" /\ entry.state = "entered"
    ~> entry.kind = "user_fault" /\ entry.state = "reported" /\ rsp[1] = "kernel"

\* "let execution continue to see if user mode works" (handle_fault_with_vector):
\* user mode goes on after a debug exception.
DebugContinues ==
  entry.kind = "user_fault" /\ entry.vector = 1 /\ entry.state = "entered" ~> pc = User
=============================================================================
