-------------------------- MODULE FaultEntryProofs ---------------------------
(***************************************************************************)
(* The proofs about FaultEntry and SyscallEntry: the entry code of the     *)
(* kernel, for every room on the user's stack, every result of             *)
(* syscall_dispatch, every choice of exceptions that user mode raises and  *)
(* any number of turns.                                                    *)
(*                                                                         *)
(* The inductive invariant is an assertion for each instruction of each    *)
(* routine: how many words the routine has on which stack, which of user   *)
(* mode's values they are, and which registers still have their values.    *)
(* The descriptor tables are the ones that the boot left, so that each     *)
(* exception finds the stub that is meant for it.                          *)
(***************************************************************************)
EXTENDS FaultEntry, SequenceTheorems, TLAPS

BootPcs == {Start("gdt_init"), Start("tss_init"), Start("idt_init")}
Stops == {User, Halted, Shutdown}
Codes == {"syscall_entry", "enter_user", "generic_fault_handler",
          "isr_0", "isr_1", "isr_6", "isr_13", "isr_14"}

\* The tables after the boot.
FullGdt == gdt_set_tss(SegmentTable, 5, AddressOf("tss"), <<"67", 0>>, {"P", "TSS"})
FullIdt ==
  [v \in 0 .. 31 |->
     IF v \in DOMAIN Stubs THEN gate(AddressOf(Stubs[v]), KCODE_SEL, {"P"}) ELSE NoGate]

TablesOK ==
  /\ pc = Start("tss_init") => gdt = SegmentTable
  /\ pc \notin {Start("gdt_init"), Start("tss_init")} =>
       gdt = FullGdt /\ tr = AddressOf("tss") /\ tss.rsp0 = <<"kernel", 0>>
  /\ pc \notin BootPcs => idt = FullIdt

\* s is a sequence of n words.
Full(s, n) == n \in Nat /\ s = [k \in 1 .. n |-> s[k]]

TypeOK ==
  /\ pc \in BootPcs \cup Stops \cup {<<r, n>> : r \in Codes, n \in 1 .. 28}
  /\ regs = [r \in Regs |-> regs[r]]
  /\ stack = [s \in Stacks |-> stack[s]]
  /\ turn \in Nat /\ room \in Nat
  /\ entry = [kind |-> entry.kind, vector |-> entry.vector, regs |-> entry.regs,
              rsp |-> entry.rsp, cs |-> entry.cs, state |-> entry.state]

\* Entries from user mode, and when user mode has control again.
Entries ==
  /\ entry.kind \in {"syscall", "user_fault"} =>
       entry.regs = UserRegs(turn) /\ entry.rsp = <<"user", 0>>
  /\ entry.state = "left" => pc \in BootPcs \cup {User} \/ pc[1] = "enter_user"
  /\ pc # Shutdown /\ pc[1] # "syscall_entry" => Full(stack["user"], 0)

\* The boot and enter_user, on the boot loader's stack.
BootOK ==
  /\ pc \in BootPcs => rsp = <<"boot", 0>> /\ Full(stack["boot"], 0) /\ entry.kind = "none"
  /\ pc[1] = "enter_user" =>
       /\ pc[2] \in 1 .. 6 /\ entry.kind = "none"
       /\ rsp = <<"boot", pc[2] - 1>> /\ Full(stack["boot"], pc[2] - 1)
       /\ \A k \in 1 .. (pc[2] - 1) : stack["boot"][k] = enter_user[k][2]

UserOK ==
  pc = User => rsp = <<"user", 0>> /\ UserStateKept /\ DebugStateKept

-----------------------------------------------------------------------------
\* The order in which syscall_entry pushes, and the registers it begins with.
PushOrder == <<"r11", "rcx", "rbp", "rbx", "r12", "r13", "r14", "r15", "r9">>
Source(r) == CASE r = "rcx" -> "rip" [] r = "r11" -> "rflags" [] OTHER -> r

\* Words on the stack before instruction n.
SyscallDepth(n) ==
  CASE n <= 3 -> 0 [] n \in 4 .. 12 -> n - 3 [] n \in 13 .. 18 -> 9
    [] n \in 19 .. 26 -> 27 - n [] OTHER -> 0

\* The register whose value r has before instruction n, up to the call.
Moved(n, r) ==
  CASE r = "r8" /\ n > 12 -> "r10" [] r = "rcx" /\ n > 13 -> "rdx"
    [] r = "rdx" /\ n > 14 -> "rsi" [] r = "rsi" /\ n > 15 -> "rdi"
    [] r = "rdi" /\ n > 16 -> "rax" [] OTHER -> Source(r)

SyscallOK ==
  pc[1] = "syscall_entry" =>
    /\ entry.kind = "syscall" /\ entry.state = "entered"
    /\ pc[2] > 1 => saved_user_rsp = <<"user", 0>>
    /\ rsp = <<"user", SyscallDepth(pc[2])>>
    /\ Full(stack["user"], SyscallDepth(pc[2]))
    /\ \A k \in 1 .. SyscallDepth(pc[2]) :
         stack["user"][k] = entry.regs[Source(PushOrder[k])]
    /\ IF pc[2] <= 17
       THEN \A r \in Regs : regs[r] = entry.regs[Moved(pc[2], r)]
       ELSE /\ regs["rax"] = <<"result", result>>
            /\ \A r \in CalleeSaved \cup {"rip", "rflags"} : regs[r] = entry.regs[r]
            /\ pc[2] > 25 => regs["rcx"] = entry.regs["rip"]
            /\ pc[2] > 26 => regs["r11"] = entry.regs["rflags"]

-----------------------------------------------------------------------------
\* The vector of a stub that has one.
VectorOf(r) ==
  CASE r = "isr_0" -> 0 [] r = "isr_1" -> 1 [] r = "isr_6" -> 6
    [] r = "isr_13" -> 13 [] r = "isr_14" -> 14 [] OTHER -> 8

\* The kernel's stack in a stub for exceptions without an error code.
StubWords ==
  <<Junk, entry.rsp, entry.regs["rflags"], Const(entry.cs), entry.regs["rip"],
    Const(0), entry.regs["rax"], entry.regs["rdi"]>>
StubDepth(n) == CASE n <= 3 -> n + 4 [] n \in 4 .. 7 -> 8 [] OTHER -> 15 - n

\* Only the debug exception comes back from handle_fault_with_vector.
StubOK ==
  pc[1] \in {"isr_0", "isr_1", "isr_6"} =>
    /\ pc[2] \in 1 .. (IF pc[1] = "isr_1" THEN 10 ELSE 6)
    /\ entry.kind = "user_fault" /\ entry.vector = VectorOf(pc[1])
    /\ entry.state = IF pc[2] <= 6 THEN "entered" ELSE "reported"
    /\ rsp = <<"kernel", StubDepth(pc[2])>>
    /\ Full(stack["kernel"], StubDepth(pc[2]))
    /\ \A k \in 2 .. StubDepth(pc[2]) : stack["kernel"][k] = StubWords[k]
    /\ \A r \in CalleeSaved \cup {"rip", "rflags"} : regs[r] = entry.regs[r]
    /\ pc[2] <= 2 \/ pc[2] > 8 => regs["rax"] = entry.regs["rax"]
    /\ pc[2] <= 3 \/ pc[2] > 7 => regs["rdi"] = entry.regs["rdi"]
    /\ pc[2] \in 5 .. 6 => regs["rdi"] = Const(entry.vector)
    /\ pc[2] = 6 => regs["rsi"] = Const(0)

\* How far below the top the error code is.
Below(n) == IF n <= 3 THEN n - 1 ELSE 2

\* The stubs for exceptions with an error code, which interrupt user mode or
\* another stub.
ErrorStubOK ==
  pc[1] \in {"isr_13", "isr_14"} =>
    /\ pc[2] \in 1 .. 5
    /\ entry.kind # "syscall" /\ entry.vector = VectorOf(pc[1]) /\ entry.state = "entered"
    /\ rsp = <<"kernel", rsp[2]>> /\ rsp[2] > Below(pc[2])
    /\ Full(stack["kernel"], rsp[2])
    /\ stack["kernel"][rsp[2] - Below(pc[2])] = ErrorCode(entry.vector)
    /\ pc[2] > 3 => regs["rsi"] = ErrorCode(entry.vector)
    /\ pc[2] > 4 => regs["rdi"] = Const(entry.vector)

GenericDepth(n) == CASE n <= 2 -> n + 5 [] n \in 3 .. 5 -> 8 [] OTHER -> 13 - n

\* generic_fault_handler is only entered for a double fault, whose error code it
\* leaves where iretq looks for the return address.
GenericOK ==
  pc[1] = "generic_fault_handler" =>
    /\ pc[2] \in 1 .. 7
    /\ entry.kind = "user_fault" /\ entry.vector = 8
    /\ entry.state = IF pc[2] <= 4 THEN "entered" ELSE "reported"
    /\ rsp = <<"kernel", GenericDepth(pc[2])>>
    /\ Full(stack["kernel"], GenericDepth(pc[2]))
    /\ stack["kernel"][5] = entry.regs["rip"]

\* The processor shuts down only in a system call without room on the user's
\* stack, and the kernel halts only with its exception reported.
StopOK ==
  /\ pc = Shutdown => entry.kind = "kernel_fault" /\ entry.vector = 14 /\ rsp[1] = "user"
  /\ pc = Shutdown => entry.state = "entered"
  /\ pc = Halted => entry.kind # "syscall" /\ entry.state = "reported"

IInv ==
  /\ TypeOK /\ TablesOK /\ Entries
  /\ BootOK /\ UserOK /\ SyscallOK
  /\ StubOK /\ ErrorStubOK /\ GenericOK
  /\ StopOK

-----------------------------------------------------------------------------
(***************************************************************************)
(* Stacks.                                                                 *)
(***************************************************************************)

LEMMA FullSeq ==
  ASSUME NEW s, NEW n, Full(s, n)
  PROVE  s \in Seq({s[k] : k \in 1 .. n}) /\ Len(s) = n /\ n \in Nat
  BY DEF Full

\* t is s with the words x on top.
OnTop(s, n, t, x) ==
  /\ Full(t, n + Len(x))
  /\ \A k \in 1 .. n : t[k] = s[k]
  /\ \A k \in 1 .. Len(x) : t[n + k] = x[k]

LEMMA PushFacts ==
  ASSUME NEW s, NEW n, Full(s, n), NEW X, NEW x \in Seq(X)
  PROVE  OnTop(s, n, SubSeq(s, 1, n) \o x, x)
<1> DEFINE Y == {s[k] : k \in 1 .. n} \cup X
           t == s \o x
<1>1. s \in Seq(Y) /\ Len(s) = n /\ n \in Nat
  <2>1. s \in Seq({s[k] : k \in 1 .. n}) /\ Len(s) = n /\ n \in Nat
    BY FullSeq, Zenon
  <2> QED
    BY <2>1
<1>2. x \in Seq(Y) /\ Len(x) \in Nat
  OBVIOUS
<1> HIDE DEF Y
<1>3. SubSeq(s, 1, n) = s
  BY <1>1, SubSeqFull, Zenon
<1>4. /\ t \in Seq(Y) /\ Len(t) = Len(s) + Len(x)
      /\ \A i \in 1 .. Len(s) + Len(x) : t[i] = IF i <= Len(s) THEN s[i] ELSE x[i - Len(s)]
  BY <1>1, <1>2, ConcatProperties, Zenon
<1> HIDE DEF t
<1>5. t = [i \in 1 .. n + Len(x) |-> t[i]]
  BY <1>1, <1>4
<1>6. /\ \A k \in 1 .. n : t[k] = s[k]
      /\ \A k \in 1 .. Len(x) : t[n + k] = x[k]
  BY <1>1, <1>2, <1>4
<1>7. OnTop(s, n, t, x)
  <2>1. n + Len(x) \in Nat
    BY <1>1, <1>2
  <2>2. Full(t, n + Len(x))
    BY <1>5, <2>1, Zenon DEF Full
  <2> QED
    BY <1>6, <2>2, Zenon DEF OnTop
<1> QED
  BY <1>3, <1>7, Zenon DEF t

LEMMA DropFacts ==
  ASSUME NEW s, NEW n, Full(s, n), NEW m \in 0 .. n
  PROVE  Full(SubSeq(s, 1, m), m) /\ \A k \in 1 .. m : SubSeq(s, 1, m)[k] = s[k]
<1>1. s \in Seq({s[k] : k \in 1 .. n}) /\ Len(s) = n /\ n \in Nat
  BY FullSeq, Zenon
<1> DEFINE t == SubSeq(s, 1, m)
<1>2. t = [k \in 1 .. m |-> s[k]]
  BY <1>1
<1> HIDE DEF t
<1>3. Full(t, m) /\ \A k \in 1 .. m : t[k] = s[k]
  BY <1>1, <1>2 DEF Full
<1> QED
  BY <1>3, Zenon DEF t

\* The words x are pushed where the top of stack s is.
LEMMA PushStep ==
  ASSUME NEW s \in Stacks, NEW n, Full(stack[s], n), NEW X, NEW x \in Seq(X),
         stack = [q \in Stacks |-> stack[q]], PushWords(<<s, n>>, x)
  PROVE  /\ rsp' = <<s, n + Len(x)>>
         /\ stack' = [q \in Stacks |-> stack'[q]]
         /\ \A q \in Stacks \ {s} : stack'[q] = stack[q]
         /\ OnTop(stack[s], n, stack'[s], x)
<1> DEFINE t == SubSeq(stack[s], 1, n) \o x
<1>1. rsp' = <<s, n + Len(x)>> /\ stack' = [stack EXCEPT ![s] = t]
  BY Zenon DEF PushWords
<1>2. OnTop(stack[s], n, t, x)
  BY PushFacts, Zenon
<1> HIDE DEF t
<1>3. stack' = [q \in Stacks |-> IF q = s THEN t ELSE stack[q]]
  BY <1>1, Zenon
<1>4. stack'[s] = t /\ \A q \in Stacks \ {s} : stack'[q] = stack[q]
  BY <1>3, Zenon
<1>5. stack' = [q \in Stacks |-> stack'[q]]
  BY <1>3, Zenon
<1> QED
  BY <1>1, <1>2, <1>4, <1>5, Zenon

\* m words are popped.
Cut(m) == stack' = [stack EXCEPT ![rsp[1]] = SubSeq(@, 1, Up(m)[2])]
Shorter(s, n, m) ==
  /\ Up(m) = <<s, n - m>>
  /\ stack' = [q \in Stacks |-> stack'[q]]
  /\ \A q \in Stacks \ {s} : stack'[q] = stack[q]
  /\ Full(stack'[s], n - m)
  /\ \A k \in 1 .. (n - m) : stack'[s][k] = stack[s][k]

LEMMA DropStep ==
  ASSUME NEW s \in Stacks, NEW n, Full(stack[s], n), NEW m \in 0 .. n, rsp = <<s, n>>,
         stack = [q \in Stacks |-> stack[q]], Cut(m)
  PROVE  Shorter(s, n, m)
<1> DEFINE t == SubSeq(stack[s], 1, n - m)
<1>1. n \in Nat /\ rsp[1] = s /\ rsp[2] = n
  BY Zenon DEF Full
<1>2. Up(m) = <<s, n - m>> /\ Up(m)[2] = n - m
  BY <1>1 DEF Up
<1>3. stack' = [stack EXCEPT ![s] = t]
  BY <1>1, <1>2, Zenon DEF Cut
<1>4. Full(t, n - m) /\ \A k \in 1 .. (n - m) : t[k] = stack[s][k]
  BY <1>1, DropFacts
<1> HIDE DEF t
<1>5. stack' = [q \in Stacks |-> IF q = s THEN t ELSE stack[q]]
  BY <1>3, Zenon
<1>6. stack'[s] = t /\ \A q \in Stacks \ {s} : stack'[q] = stack[q]
  BY <1>5, Zenon
<1>7. stack' = [q \in Stacks |-> stack'[q]]
  BY <1>5, Zenon
<1> QED
  BY <1>2, <1>4, <1>6, <1>7, Zenon DEF Shorter

LEMMA WordFacts ==
  ASSUME NEW s, NEW n \in Nat, rsp = <<s, n>>, NEW k \in 0 .. (n - 1)
  PROVE  Word(k) = stack[s][n - k]
  BY DEF Word

-----------------------------------------------------------------------------
(***************************************************************************)
(* The routines.                                                           *)
(***************************************************************************)

LEMMA SyscallCode ==
  /\ syscall_entry[1] = <<"save_rsp">> /\ syscall_entry[2] = <<"load_rsp">>
  /\ \A n \in 3 .. 11 : syscall_entry[n] = <<"push", PushOrder[n - 2]>>
  /\ syscall_entry[12] = <<"mov", "r8", "r10">> /\ syscall_entry[13] = <<"mov", "rcx", "rdx">>
  /\ syscall_entry[14] = <<"mov", "rdx", "rsi">> /\ syscall_entry[15] = <<"mov", "rsi", "rdi">>
  /\ syscall_entry[16] = <<"mov", "rdi", "rax">>
  /\ syscall_entry[17] = <<"call", "syscall_dispatch">> /\ syscall_entry[18] = <<"drop">>
  /\ \A n \in 19 .. 26 : syscall_entry[n] = <<"pop", PushOrder[27 - n]>>
  /\ syscall_entry[27] = <<"restore_rsp">> /\ syscall_entry[28] = <<"sysretq">>
  BY DEF syscall_entry, SaveState, ConvertArguments, CallDispatch, RestoreState, PushOrder

LEMMA CodeFacts ==
  /\ DOMAIN Routine = Codes
  /\ Routine["syscall_entry"] = syscall_entry /\ Routine["enter_user"] = enter_user
  /\ Routine["generic_fault_handler"] = generic_fault_handler
  /\ \A r \in {"isr_0", "isr_1", "isr_6"} : Routine[r] = StubWithoutError(VectorOf(r))
  /\ \A r \in {"isr_13", "isr_14"} : Routine[r] = StubWithError(VectorOf(r))
  BY DEF Routine, Codes, VectorOf

LEMMA EnterCode ==
  /\ \A n \in 1 .. 5 : enter_user[n] = <<"push_const", enter_user[n][2]>>
  /\ enter_user[1][2] = Const(UDATA_SEL + 3) /\ enter_user[2][2] = <<"user", 0>>
  /\ enter_user[3][2] = UserValue(0, "rflags") /\ enter_user[4][2] = Const(UCODE_SEL + 3)
  /\ enter_user[5][2] = UserValue(0, "rip") /\ enter_user[6] = <<"iretq">>
  BY DEF enter_user

LEMMA PcFacts ==
  /\ \A r \in Codes : \A n \in 1 .. 28 : <<r, n>> \notin BootPcs \cup Stops
  /\ \A p \in BootPcs \cup Stops : p[1] \notin Codes
  /\ \A p \in BootPcs : p \notin Stops
  /\ User # Halted /\ User # Shutdown /\ Halted # Shutdown
  /\ Start("gdt_init") # Start("tss_init") /\ Start("gdt_init") # Start("idt_init")
  /\ Start("tss_init") # Start("idt_init")
  BY DEF Codes, BootPcs, Stops, Start, User, Halted, Shutdown

-----------------------------------------------------------------------------
(***************************************************************************)
(* The tables.                                                             *)
(***************************************************************************)

\* The bytes of an address come together again.
LEMMA GateFacts ==
  ASSUME NEW sym, NEW sel, NEW flags
  PROVE  /\ GateOffset(gate(AddressOf(sym), sel, flags)) = AddressOf(sym)
         /\ gate(AddressOf(sym), sel, flags).selector = sel
         /\ gate(AddressOf(sym), sel, flags).type_attr = flags
<1> DEFINE a == AddressOf(sym)
           X == {<<sym, k>> : k \in 1 .. 8}
<1>1. a \in Seq(X) /\ Len(a) = 8
  BY DEF AddressOf
<1> HIDE DEF a, X
<1>2. SubSeq(a, 1, 2) \o SubSeq(a, 3, 4) = SubSeq(a, 1, 4)
  BY <1>1, ConcatAdjacentSubSeq
<1>3. SubSeq(a, 1, 4) \o SubSeq(a, 5, 8) = SubSeq(a, 1, 8)
  BY <1>1, ConcatAdjacentSubSeq
<1>4. SubSeq(a, 1, 8) = a
  BY <1>1, SubSeqFull, Zenon
<1>5. GateOffset(gate(a, sel, flags)) = a
  BY <1>2, <1>3, <1>4, Zenon DEF GateOffset, gate
<1>6. gate(a, sel, flags).selector = sel /\ gate(a, sel, flags).type_attr = flags
  BY Zenon DEF gate
<1> QED
  BY <1>5, <1>6, Zenon DEF a

LEMMA Injective == \A a, b : AddressOf(a) = AddressOf(b) => a = b
<1> SUFFICES ASSUME NEW a, NEW b, AddressOf(a) = AddressOf(b) PROVE a = b
  BY Zenon
<1>1. AddressOf(a)[1] = <<a, 1>> /\ AddressOf(b)[1] = <<b, 1>>
  BY DEF AddressOf
<1> QED
  BY <1>1

\* What the entries of the segment table and of the whole one are.
LEMMA GdtFacts ==
  /\ SegmentTable = [i \in 0 .. 9 |-> SegmentTable[i]]
  /\ FullGdt = [i \in 0 .. 9 |-> FullGdt[i]]
  /\ \A i \in (0 .. 9) \ {5, 6} : FullGdt[i] = SegmentTable[i]
  /\ FullGdt[5] = gdt_entry(AddressOf("tss"), <<"67", 0>>, {"P", "TSS"}, {})
  /\ FullGdt[6] = tss_high(AddressOf("tss"))
<1>1. SegmentTable = [i \in 0 .. 9 |-> SegmentTable[i]]
  BY DEF SegmentTable
<1> DEFINE e == gdt_entry(AddressOf("tss"), <<"67", 0>>, {"P", "TSS"}, {})
           h == tss_high(AddressOf("tss"))
           g == SegmentTable
<1>2. FullGdt = [[g EXCEPT ![5] = e] EXCEPT ![6] = h]
  BY DEF FullGdt, gdt_set_tss, gdt_set_entry
<1> HIDE DEF e, h, g
<1>3. /\ FullGdt = [i \in 0 .. 9 |-> IF i = 6 THEN h ELSE IF i = 5 THEN e ELSE g[i]]
  BY <1>1, <1>2, Zenon DEF g
<1>4. /\ FullGdt = [i \in 0 .. 9 |-> FullGdt[i]]
      /\ \A i \in (0 .. 9) \ {5, 6} : FullGdt[i] = g[i]
      /\ FullGdt[5] = e /\ FullGdt[6] = h
  BY <1>3
<1> QED
  BY <1>1, <1>4, Zenon DEF e, h, g

LEMMA Access ==
  ASSUME NEW base, NEW limit, NEW access, NEW granularity
  PROVE  /\ gdt_entry(base, limit, access, granularity).access = access
         /\ Flags64(gdt_entry(base, limit, access, granularity)) = granularity
  BY Zenon DEF gdt_entry, Flags64

\* The kernel's code segment, the user's segments and the descriptor of the TSS.
LEMMA SelectorFacts ==
  /\ IsKernelCode(SegmentTable, KCODE_SEL) /\ IsKernelCode(FullGdt, KCODE_SEL)
  /\ IsUserCode(FullGdt, UCODE_SEL + 3) /\ IsUserData(FullGdt, UDATA_SEL + 3)
  /\ ~IsUserCode(FullGdt, 0)
  /\ IsFreeTss(FullGdt, TSS_SEL)
<1>1. /\ 8 \div 8 = 1 /\ 27 \div 8 = 3 /\ 35 \div 8 = 4 /\ 40 \div 8 = 5
      /\ 27 % 8 = 3 /\ 35 % 8 = 3 /\ 0 % 8 = 0
  OBVIOUS
<1>2. /\ SegmentTable[1] = Segment(Code, {"4K", "64BIT"})
      /\ SegmentTable[3] = Segment(Code \cup DPL3, {"4K", "64BIT"})
      /\ SegmentTable[4] = Segment(Data \cup DPL3, {"4K"})
  BY DEF SegmentTable
<1>3. Entry(SegmentTable, KCODE_SEL) = SegmentTable[1]
  BY <1>1, GdtFacts DEF Entry, KCODE_SEL
<1>4. /\ Entry(FullGdt, KCODE_SEL) = SegmentTable[1]
      /\ Entry(FullGdt, UCODE_SEL + 3) = SegmentTable[3]
      /\ Entry(FullGdt, UDATA_SEL + 3) = SegmentTable[4]
      /\ Entry(FullGdt, TSS_SEL) = FullGdt[5]
  BY <1>1, GdtFacts DEF Entry, KCODE_SEL, UCODE_SEL, UDATA_SEL, TSS_SEL
<1>5. IsKernelCode(SegmentTable, KCODE_SEL) /\ IsKernelCode(FullGdt, KCODE_SEL)
  BY <1>2, <1>3, <1>4, Access DEF IsKernelCode, Segment
<1>6. IsUserCode(FullGdt, UCODE_SEL + 3)
  BY <1>1, <1>2, <1>4, Access DEF IsUserCode, Segment, UCODE_SEL
<1>7. IsUserData(FullGdt, UDATA_SEL + 3)
  BY <1>1, <1>2, <1>4, Access DEF IsUserData, Segment, UDATA_SEL
<1>8. ~IsUserCode(FullGdt, 0)
  BY <1>1 DEF IsUserCode
<1>9. IsFreeTss(FullGdt, TSS_SEL)
  BY <1>4, GdtFacts, Access DEF IsFreeTss
<1> QED
  BY <1>5, <1>6, <1>7, <1>8, <1>9, Zenon

\* The address of the TSS comes together again from its descriptor.
LEMMA TssFacts == TssBase(FullGdt, TSS_SEL) = AddressOf("tss")
<1> DEFINE a == AddressOf("tss")
           X == {<<"tss", k>> : k \in 1 .. 8}
<1>1. a \in Seq(X) /\ Len(a) = 8
  BY DEF AddressOf
<1>2. 40 \div 8 = 5 /\ 48 \div 8 = 6 /\ TSS_SEL + 8 = 48 /\ TSS_SEL = 40
  BY DEF TSS_SEL
<1>3. /\ Entry(FullGdt, TSS_SEL) = gdt_entry(a, <<"67", 0>>, {"P", "TSS"}, {})
      /\ Entry(FullGdt, TSS_SEL + 8) = tss_high(a)
  BY <1>2, GdtFacts DEF Entry
<1> HIDE DEF a, X
<1>4. /\ tss_high(a).limit_low = SubSeq(a, 5, 6) /\ tss_high(a).base_low = SubSeq(a, 7, 8)
  BY Zenon DEF tss_high, gdt_entry
<1>5. TssBase(FullGdt, TSS_SEL) =
        SubSeq(a, 1, 2) \o <<a[3], a[4]>> \o SubSeq(a, 5, 6) \o SubSeq(a, 7, 8)
  <2>1. /\ Entry(FullGdt, TSS_SEL).base_low = SubSeq(a, 1, 2)
        /\ Entry(FullGdt, TSS_SEL).base_mid = a[3] /\ Entry(FullGdt, TSS_SEL).base_high = a[4]
    BY <1>3 DEF gdt_entry
  <2>2. /\ Entry(FullGdt, TSS_SEL + 8).limit_low = SubSeq(a, 5, 6)
        /\ Entry(FullGdt, TSS_SEL + 8).base_low = SubSeq(a, 7, 8)
    BY <1>3, <1>4, Zenon
  <2> QED
    BY <2>1, <2>2, Zenon DEF TssBase
<1>6. <<a[3], a[4]>> = SubSeq(a, 3, 4)
  BY <1>1
<1>7. SubSeq(a, 1, 2) \o SubSeq(a, 3, 4) = SubSeq(a, 1, 4)
  BY <1>1, ConcatAdjacentSubSeq
<1>8. SubSeq(a, 1, 4) \o SubSeq(a, 5, 6) = SubSeq(a, 1, 6)
  BY <1>1, ConcatAdjacentSubSeq
<1>9. SubSeq(a, 1, 6) \o SubSeq(a, 7, 8) = SubSeq(a, 1, 8)
  BY <1>1, ConcatAdjacentSubSeq
<1>10. SubSeq(a, 1, 8) = a
  BY <1>1, SubSeqFull, Zenon
<1> QED
  BY <1>5, <1>6, <1>7, <1>8, <1>9, <1>10, Zenon DEF a

LEMMA StubFacts ==
  /\ DOMAIN Stubs = {0, 1, 3, 6, 8, 13, 14}
  /\ Stubs[0] = "isr_0" /\ Stubs[1] = "isr_1" /\ Stubs[6] = "isr_6"
  /\ Stubs[8] = "generic_fault_handler" /\ Stubs[13] = "isr_13" /\ Stubs[14] = "isr_14"
  /\ \A v \in DOMAIN Stubs : Stubs[v] \in Codes
  BY DEF Stubs, Codes

LEMMA IdtFacts ==
  ASSUME gdt = FullGdt, idt = FullIdt
  PROVE  /\ \A v \in 0 .. 31 : Usable(v) <=> v \in DOMAIN Stubs
         /\ \A v \in DOMAIN Stubs :
              /\ HasTarget(v) /\ Target(v) = Stubs[v]
              /\ idt[v].selector = KCODE_SEL /\ "DPL3" \notin idt[v].type_attr
<1>1. \A v \in DOMAIN Stubs : v \in 0 .. 31 /\ idt[v] = gate(AddressOf(Stubs[v]), KCODE_SEL, {"P"})
  BY StubFacts DEF FullIdt
<1>2. \A v \in (0 .. 31) \ DOMAIN Stubs : ~Usable(v)
  <2> SUFFICES ASSUME NEW v \in (0 .. 31) \ DOMAIN Stubs PROVE ~Usable(v)
    BY Zenon
  <2>1. idt[v] = NoGate
    BY Zenon DEF FullIdt
  <2>2. NoGate.type_attr = {}
    BY Zenon DEF NoGate, gate
  <2> QED
    BY <2>1, <2>2, Zenon DEF Usable, IsGate
<1>3. ASSUME NEW v \in DOMAIN Stubs
      PROVE  /\ Usable(v) /\ HasTarget(v) /\ Target(v) = Stubs[v]
             /\ idt[v].selector = KCODE_SEL /\ "DPL3" \notin idt[v].type_attr
  <2> DEFINE s == Stubs[v]
  <2>1. idt[v] = gate(AddressOf(s), KCODE_SEL, {"P"}) /\ s \in DOMAIN Routine
    BY <1>1, CodeFacts, StubFacts, Zenon
  <2> HIDE DEF s
  <2>2. /\ GateOffset(idt[v]) = AddressOf(s) /\ idt[v].selector = KCODE_SEL
        /\ idt[v].type_attr = {"P"}
    BY <2>1, GateFacts
  <2>3. Usable(v)
    BY <2>2, SelectorFacts, Zenon DEF Usable, IsGate
  <2>4. HasTarget(v)
    BY <2>1, <2>2, Zenon DEF HasTarget
  <2>5. Target(v) = s
    <3>1. \A q \in DOMAIN Routine : AddressOf(q) = GateOffset(idt[v]) <=> q = s
      BY <2>2, Injective, Zenon
    <3> QED
      BY <2>1, <3>1, Zenon DEF Target
  <2> QED
    BY <2>2, <2>3, <2>4, <2>5, Zenon DEF s
<1> QED
  BY <1>1, <1>2, <1>3, Zenon

\* The vector whose stub is entered for exception v.
Found(v) == CASE v \in DOMAIN Stubs -> v [] v \in {10, 11, 12} -> 8 [] OTHER -> 13

LEMMA DeliveredFacts ==
  ASSUME gdt = FullGdt, idt = FullIdt, NEW v \in 0 .. 31
  PROVE  Deliverable(v) # {} /\ Delivered(v) = Found(v) /\ Found(v) \in DOMAIN Stubs
<1>1. Tried(v)[1] = v /\ Tried(v)[3] = 8
      /\ Tried(v)[2] = IF v \in Contributory \cup {14} THEN 8 ELSE 13
  BY Zenon DEF Tried
<1>2. 8 \in DOMAIN Stubs /\ 13 \in DOMAIN Stubs /\ 0 \in DOMAIN Stubs /\ 14 \in DOMAIN Stubs
  BY StubFacts, Zenon
<1>3. Usable(8) /\ Usable(13) /\ (Usable(v) <=> v \in DOMAIN Stubs)
  BY <1>2, IdtFacts
<1>4. 2 \in Deliverable(v) /\ 3 \in Deliverable(v) /\ (1 \in Deliverable(v) <=> v \in DOMAIN Stubs)
  BY <1>1, <1>3 DEF Deliverable
<1>5. Deliverable(v) \subseteq 1 .. 3
  BY Zenon DEF Deliverable
<1> DEFINE P(k) == k \in Deliverable(v) /\ \A j \in Deliverable(v) : k <= j
<1>6. CASE v \in DOMAIN Stubs
  <2>1. \A k : P(k) <=> k = 1
    BY <1>4, <1>5, <1>6
  <2>2. (CHOOSE k \in Deliverable(v) : \A j \in Deliverable(v) : k <= j) = 1
    BY <2>1, Zenon
  <2>3. Delivered(v) = v
    BY <1>1, <2>2, Zenon DEF Delivered
  <2>4. v \notin {10, 11, 12}
    BY <1>6, StubFacts
  <2>5. Found(v) = v
    BY <1>6, <2>4, Zenon DEF Found
  <2> QED
    BY <1>4, <1>6, <2>3, <2>5, Zenon
<1>7. CASE v \notin DOMAIN Stubs
  <2>1. \A k : P(k) <=> k = 2
    BY <1>4, <1>5, <1>7
  <2>2. (CHOOSE k \in Deliverable(v) : \A j \in Deliverable(v) : k <= j) = 2
    BY <2>1, Zenon
  <2>3. v \in Contributory \cup {14} <=> v \in {10, 11, 12}
    BY <1>2, <1>7, Zenon DEF Contributory
  <2> QED
    BY <1>1, <1>2, <1>4, <1>7, <2>2, <2>3, Zenon DEF Delivered, Found
<1> QED
  BY <1>6, <1>7, Zenon

-----------------------------------------------------------------------------
(***************************************************************************)
(* The processor's way to a stub.                                          *)
(***************************************************************************)

\* f is the frame of an exception, with an error code or without.
IsFrame(f, a, b, c, d, e, error, code) ==
  /\ f \in Seq({a, b, c, d, e, code})
  /\ Len(f) = (IF error THEN 6 ELSE 5)
  /\ f[1] = a /\ f[2] = b /\ f[3] = c /\ f[4] = d /\ f[5] = e
  /\ error => f[6] = code

LEMMA FrameFacts ==
  ASSUME NEW a, NEW b, NEW c, NEW d, NEW e, NEW error \in BOOLEAN, NEW code
  PROVE  IsFrame(<<a, b, c, d, e>> \o (IF error THEN <<code>> ELSE <<>>), a, b, c, d, e, error, code)
<1>1. CASE error
  <2> DEFINE X == {a, b, c, d, e, code}
             f == <<a, b, c, d, e>>
             t == f \o <<code>>
  <2>1. f \in Seq(X) /\ Len(f) = 5 /\ <<code>> \in Seq(X) /\ Len(<<code>>) = 1
    OBVIOUS
  <2>2. /\ t \in Seq(X) /\ Len(t) = Len(f) + Len(<<code>>)
        /\ \A i \in 1 .. Len(f) + Len(<<code>>) :
             t[i] = IF i <= Len(f) THEN f[i] ELSE <<code>>[i - Len(f)]
    BY <2>1, ConcatProperties, Zenon
  <2> HIDE DEF t
  <2>3. /\ Len(t) = 6 /\ t[1] = a /\ t[2] = b /\ t[3] = c /\ t[4] = d /\ t[5] = e
        /\ t[6] = code
    BY <2>2
  <2>4. IsFrame(t, a, b, c, d, e, error, code)
    BY <1>1, <2>2, <2>3, Zenon DEF IsFrame
  <2> QED
    BY <1>1, <2>4, Zenon DEF t
<1>2. CASE ~error
  <2>1. <<a, b, c, d, e>> \o <<>> = <<a, b, c, d, e>>
    <3>1. <<a, b, c, d, e>> \in Seq({a, b, c, d, e})
      OBVIOUS
    <3> QED
      BY <3>1, ConcatEmptySeq, Zenon
  <2>2. IsFrame(<<a, b, c, d, e>>, a, b, c, d, e, error, code)
    BY <1>2 DEF IsFrame
  <2> QED
    BY <1>2, <2>1, <2>2, Zenon
<1> QED
  BY <1>1, <1>2, Zenon

\* The frame is pushed on a stack that is empty or has n words.
LEMMA PushBase ==
  ASSUME NEW s \in Stacks, NEW n \in Nat, n = 0 \/ Full(stack[s], n), NEW X, NEW x \in Seq(X),
         stack = [q \in Stacks |-> stack[q]], PushWords(<<s, n>>, x)
  PROVE  /\ rsp' = <<s, n + Len(x)>>
         /\ stack' = [q \in Stacks |-> stack'[q]]
         /\ \A q \in Stacks \ {s} : stack'[q] = stack[q]
         /\ Full(stack'[s], n + Len(x))
         /\ \A k \in 1 .. Len(x) : stack'[s][n + k] = x[k]
<1>1. CASE Full(stack[s], n)
  BY <1>1, PushStep DEF OnTop
<1>2. CASE n = 0
  <2> DEFINE t == SubSeq(stack[s], 1, n) \o x
  <2>1. rsp' = <<s, n + Len(x)>> /\ stack' = [stack EXCEPT ![s] = t]
    BY Zenon DEF PushWords
  <2>2. SubSeq(stack[s], 1, n) = <<>>
    BY <1>2, SubSeqEmpty
  <2>3. t = x
    BY <2>2, ConcatEmptySeq, Zenon
  <2> HIDE DEF t
  <2>4. x = [k \in 1 .. Len(x) |-> x[k]] /\ Len(x) \in Nat
    OBVIOUS
  <2>5. Full(t, n + Len(x)) /\ \A k \in 1 .. Len(x) : t[n + k] = x[k]
    BY <1>2, <2>3, <2>4 DEF Full
  <2>6. stack' = [q \in Stacks |-> IF q = s THEN t ELSE stack[q]]
    BY <2>1, Zenon
  <2>7. stack'[s] = t /\ \A q \in Stacks \ {s} : stack'[q] = stack[q]
    BY <2>6, Zenon
  <2>8. stack' = [q \in Stacks |-> stack'[q]]
    BY <2>6, Zenon
  <2> QED
    BY <2>1, <2>5, <2>7, <2>8, Zenon
<1> QED
  BY <1>1, <1>2, Zenon

TablesFull ==
  /\ gdt = FullGdt /\ tr = AddressOf("tss") /\ tss.rsp0 = <<"kernel", 0>>
  /\ idt = FullIdt

\* The processor found the stub of vector d, with the frame on the kernel's
\* stack above n words.
Entered(d, n, r) ==
  /\ pc' = Start(Stubs[d])
  /\ regs' = r
  /\ entry' = [kind |-> IF pc = User THEN "user_fault" ELSE "kernel_fault",
               vector |-> d, regs |-> r, rsp |-> rsp, cs |-> cs, state |-> "entered"]
  /\ rsp' = <<"kernel", n + (IF HasError(d) THEN 6 ELSE 5)>>
  /\ stack' = [q \in Stacks |-> stack'[q]]
  /\ stack'["user"] = stack["user"]
  /\ Full(stack'["kernel"], n + (IF HasError(d) THEN 6 ELSE 5))
  /\ stack'["kernel"][n + 2] = rsp
  /\ stack'["kernel"][n + 3] = r["rflags"]
  /\ stack'["kernel"][n + 4] = Const(cs)
  /\ stack'["kernel"][n + 5] = IF pc = User THEN r["rip"] ELSE pc
  /\ HasError(d) => stack'["kernel"][n + 6] = ErrorCode(d)
  /\ UNCHANGED <<saved_user_rsp, result, tableVars>>

LEMMA DeliverEnters ==
  ASSUME TablesFull, stack = [q \in Stacks |-> stack[q]],
         NEW n \in Nat,
         \/ pc = User /\ n = 0
         \/ pc # User /\ rsp = <<"kernel", n>> /\ Full(stack["kernel"], n),
         NEW v \in 0 .. 31, NEW r, Deliver(v, r)
  PROVE  Entered(Found(v), n, r)
<1> DEFINE base == IF pc = User THEN tss.rsp0 ELSE rsp
           d == Delivered(v)
           f == <<Const(ss), rsp, r["rflags"], Const(cs), IF pc = User THEN r["rip"] ELSE pc>>
                \o (IF HasError(d) THEN <<ErrorCode(d)>> ELSE <<>>)
           lost == \/ Deliverable(v) = {}
                   \/ ~HasTarget(d)
                   \/ pc = User /\ tr # AddressOf("tss")
                   \/ ~Fits(base, Len(f))
<1>1. d = Found(v) /\ Found(v) \in DOMAIN Stubs /\ Deliverable(v) # {}
  BY DeliveredFacts, Zenon DEF TablesFull
<1>2. HasTarget(d) /\ Target(d) = Stubs[d]
  BY <1>1, IdtFacts, Zenon DEF TablesFull
<1>3. base = <<"kernel", n>>
  BY Zenon DEF TablesFull
<1>4. ~lost
  BY <1>1, <1>2, <1>3 DEF TablesFull, Fits
<1>5. HasError(d) \in BOOLEAN
  BY DEF HasError
<1>6. IsFrame(f, Const(ss), rsp, r["rflags"], Const(cs), IF pc = User THEN r["rip"] ELSE pc,
              HasError(d), ErrorCode(d))
  BY <1>5, FrameFacts, Zenon
<1>7. /\ regs' = r
      /\ entry' = [kind |-> IF pc = User THEN "user_fault" ELSE "kernel_fault",
                   vector |-> IF lost THEN v ELSE d,
                   regs |-> r, rsp |-> rsp, cs |-> cs, state |-> "entered"]
      /\ IF lost
         THEN pc' = Shutdown /\ UNCHANGED <<rsp, cs, ss, stack>>
         ELSE pc' = Start(Target(d)) /\ PushWords(base, f)
      /\ UNCHANGED <<saved_user_rsp, result, tableVars>>
  BY Zenon DEF Deliver
<1> HIDE DEF lost, base, d, f
<1>8. /\ entry' = [kind |-> IF pc = User THEN "user_fault" ELSE "kernel_fault",
                   vector |-> d, regs |-> r, rsp |-> rsp, cs |-> cs, state |-> "entered"]
      /\ pc' = Start(Stubs[d]) /\ PushWords(<<"kernel", n>>, f)
  BY <1>2, <1>3, <1>4, <1>7, Zenon
<1> DEFINE m == IF HasError(d) THEN 6 ELSE 5
<1>9. /\ f \in Seq({Const(ss), rsp, r["rflags"], Const(cs),
                    IF pc = User THEN r["rip"] ELSE pc, ErrorCode(d)})
      /\ Len(f) = m
  BY <1>6, Zenon DEF IsFrame
<1>10. "kernel" \in Stacks /\ "user" \in Stacks \ {"kernel"}
  BY Zenon DEF Stacks
<1>11. n = 0 \/ Full(stack["kernel"], n)
  BY Zenon
<1>12. /\ rsp' = <<"kernel", n + m>>
       /\ stack' = [q \in Stacks |-> stack'[q]]
       /\ \A q \in Stacks \ {"kernel"} : stack'[q] = stack[q]
       /\ Full(stack'["kernel"], n + m)
       /\ \A k \in 1 .. m : stack'["kernel"][n + k] = f[k]
  <2> DEFINE X == {Const(ss), rsp, r["rflags"], Const(cs),
                   IF pc = User THEN r["rip"] ELSE pc, ErrorCode(d)}
  <2>1. f \in Seq(X)
    BY <1>9, Zenon
  <2> HIDE DEF X
  <2>2. /\ rsp' = <<"kernel", n + Len(f)>>
        /\ stack' = [q \in Stacks |-> stack'[q]]
        /\ \A q \in Stacks \ {"kernel"} : stack'[q] = stack[q]
        /\ Full(stack'["kernel"], n + Len(f))
        /\ \A k \in 1 .. Len(f) : stack'["kernel"][n + k] = f[k]
    BY <1>8, <1>10, <1>11, <2>1, PushBase
  <2> QED
    BY <1>9, <2>2, Zenon
<1>13. /\ stack'["kernel"][n + 2] = f[2] /\ stack'["kernel"][n + 3] = f[3]
       /\ stack'["kernel"][n + 4] = f[4] /\ stack'["kernel"][n + 5] = f[5]
       /\ HasError(d) => stack'["kernel"][n + 6] = f[6]
  BY <1>12
<1>14. Entered(d, n, r)
  BY <1>6, <1>7, <1>8, <1>10, <1>12, <1>13, Zenon DEF Entered, IsFrame
<1> QED
  BY <1>1, <1>14, Zenon

\* Without room on the user's stack for one word there is none for a frame.
LEMMA DeliverStops ==
  ASSUME TablesFull, pc # User, room \in Nat, NEW n \in Nat, rsp = <<"user", n>>,
         ~Fits(rsp, 1), NEW r, Deliver(14, r)
  PROVE  /\ pc' = Shutdown
         /\ entry' = [kind |-> "kernel_fault", vector |-> 14,
                      regs |-> r, rsp |-> rsp, cs |-> cs, state |-> "entered"]
         /\ regs' = r
         /\ UNCHANGED <<rsp, stack, saved_user_rsp, result, tableVars>>
<1> DEFINE d == Delivered(14)
           f == <<Const(ss), rsp, r["rflags"], Const(cs), pc>>
                \o (IF HasError(d) THEN <<ErrorCode(d)>> ELSE <<>>)
<1>1. HasError(d) \in BOOLEAN
  BY DEF HasError
<1>2. IsFrame(f, Const(ss), rsp, r["rflags"], Const(cs), pc, HasError(d), ErrorCode(d))
  BY <1>1, FrameFacts, Zenon
<1> HIDE DEF f
<1>3. ~Fits(rsp, Len(f))
  BY <1>2 DEF Fits, IsFrame
<1> DEFINE lost == \/ Deliverable(14) = {}
                   \/ ~HasTarget(d)
                   \/ FALSE /\ tr # AddressOf("tss")
                   \/ ~Fits(rsp, Len(f))
<1>4. lost
  BY <1>3, Zenon
<1>5. /\ regs' = r
      /\ entry' = [kind |-> "kernel_fault", vector |-> IF lost THEN 14 ELSE d,
                   regs |-> r, rsp |-> rsp, cs |-> cs, state |-> "entered"]
      /\ lost => pc' = Shutdown /\ UNCHANGED <<rsp, cs, ss, stack>>
      /\ UNCHANGED <<saved_user_rsp, result, tableVars>>
  BY Zenon DEF Deliver, f
<1> HIDE DEF lost
<1> QED
  BY <1>4, <1>5, Zenon

-----------------------------------------------------------------------------
(***************************************************************************)
(* The instructions.                                                       *)
(***************************************************************************)

Pushing(x) == PushWords(rsp, <<x>>) /\ UNCHANGED regs
Setting(r, x) == regs' = [regs EXCEPT ![r] = x] /\ UNCHANGED <<rsp, stack>>
Popping(r) == regs' = [regs EXCEPT ![r] = Word(0)] /\ DropWords(1)
Dropping == DropWords(1) /\ UNCHANGED regs
Goes(A) == A /\ Continue /\ UNCHANGED <<cs, ss, room, entryVars, tableVars>>

\* What an instruction may do: what it is for, or run out of the stack.
Does(i) ==
  /\ i[1] = "push" => Goes(Pushing(regs[i[2]])) \/ StackFault
  /\ i[1] = "push_const" => Goes(Pushing(i[2])) \/ StackFault
  /\ i[1] = "mov" => Goes(Setting(i[2], regs[i[3]]))
  /\ i[1] = "mov_const" => Goes(Setting(i[2], Const(i[3])))
  /\ i[1] = "load" => Goes(Setting(i[2], Word(i[3])))
  /\ i[1] = "pop" => Goes(Popping(i[2]))
  /\ i[1] = "drop" => Goes(Dropping)
  /\ i[1] = "save_rsp" => SaveRsp(i) /\ UNCHANGED tableVars
  /\ i[1] = "load_rsp" => LoadRsp(i) /\ UNCHANGED tableVars
  /\ i[1] = "restore_rsp" => RestoreRsp(i) /\ UNCHANGED tableVars
  /\ i[1] = "sysretq" => Sysretq(i) /\ UNCHANGED tableVars
  /\ i = <<"call", "syscall_dispatch">> => 
       (Dispatch(i) /\ UNCHANGED tableVars) \/ StackFault \/ DispatchFault
  /\ i = Report => ReportDebug \/ ReportAndHalt \/ StackFault
  /\ i[1] = "iretq" => Iretq

LEMMA Instruction ==
  ASSUME Next, pc[1] \in Codes
  PROVE  Does(Instr)
<1>1. pc \notin BootPcs \cup Stops /\ User \in Stops
  BY PcFacts, Zenon DEF Stops
<1>2. ~Boot /\ ~Syscall /\ ~UserFault
  BY <1>1, Zenon DEF Boot, gdt_init, tss_init, idt_init, Syscall, UserFault, BootPcs
<1>3. CASE Execute(Instr) /\ UNCHANGED <<entryVars, tableVars>>
  BY <1>3 DEF Execute, Does, Goes, Pushing, Setting, Popping, Dropping, Report
<1>4. CASE SyscallStep(Instr) /\ UNCHANGED tableVars
  BY <1>4 DEF SyscallStep, SaveRsp, LoadRsp, Dispatch, RestoreRsp, Sysretq, Does, Report
<1>5. CASE StackFault
  BY <1>5, Zenon DEF StackFault, Pushes, Does
<1>6. CASE ReportDebug \/ ReportAndHalt
  BY <1>6 DEF ReportDebug, ReportAndHalt, Report, Does
<1>7. CASE Iretq
  <2>1. Instr[1] = "iretq"
    BY <1>7, Zenon DEF Iretq
  <2> QED
    BY <1>7, <2>1 DEF Does, Report
<1>8. CASE DispatchFault
  BY <1>8 DEF DispatchFault, Report, Does
<1> QED
  BY <1>2, <1>3, <1>4, <1>5, <1>6, <1>7, <1>8, Zenon DEF Next, Kernel

\* Inside of a routine, only the assertion of that routine says something.
LEMMA CodeInv ==
  ASSUME NEW r \in Codes, NEW n \in 1 .. 28, pc' = <<r, n>>,
         TypeOK', TablesFull', Entries',
         r = "enter_user" => BootOK',
         r = "syscall_entry" => SyscallOK',
         r \in {"isr_0", "isr_1", "isr_6"} => StubOK',
         r \in {"isr_13", "isr_14"} => ErrorStubOK',
         r = "generic_fault_handler" => GenericOK'
  PROVE  IInv'
<1>1. pc' \notin BootPcs \cup Stops /\ pc'[1] = r
  BY PcFacts, Zenon
<1>2. TablesOK' /\ UserOK' /\ StopOK'
  BY <1>1, Zenon DEF TablesOK, TablesFull, UserOK, StopOK, BootPcs, Stops
<1>3. BootOK' /\ SyscallOK'
  BY <1>1, Zenon DEF BootOK, SyscallOK
<1>4. StubOK' /\ ErrorStubOK' /\ GenericOK'
  BY <1>1, Zenon DEF StubOK, ErrorStubOK, GenericOK
<1> QED
  BY <1>2, <1>3, <1>4, Zenon DEF IInv

LEMMA InsideFacts ==
  ASSUME IInv, pc[1] \in Codes
  PROVE  /\ pc = <<pc[1], pc[2]>> /\ pc[2] \in 1 .. 28
         /\ pc \notin BootPcs \cup Stops /\ TablesFull
         /\ pc[1] # "enter_user" => entry.state # "left"
<1>1. pc \notin BootPcs \cup Stops
  BY PcFacts, Zenon
<1>2. pc = <<pc[1], pc[2]>> /\ pc[2] \in 1 .. 28
  BY <1>1 DEF IInv, TypeOK
<1>3. TablesFull
  BY <1>1, Zenon DEF IInv, TablesOK, TablesFull, BootPcs
<1>4. pc[1] # "enter_user" => entry.state # "left"
  BY <1>1, Zenon DEF IInv, Entries, Stops
<1> QED
  BY <1>1, <1>2, <1>3, <1>4, Zenon

\* What an instruction leaves alone that continues in its routine.
LEMMA StaysFacts ==
  ASSUME IInv, NEW r \in Codes, NEW n \in 1 .. 27, pc = <<r, n>>,
         Continue, UNCHANGED <<room, turn, entry, tableVars>>,
         regs' = [q \in Regs |-> regs'[q]], stack' = [q \in Stacks |-> stack'[q]],
         r # "syscall_entry" => stack'["user"] = stack["user"]
  PROVE  pc' = <<r, n + 1>> /\ TypeOK' /\ TablesFull' /\ Entries'
<1>1. pc' = <<r, n + 1>>
  BY Zenon DEF Continue
<1>2. UNCHANGED <<room, turn, entry, gdt, tr, tss, idt>>
  BY Zenon DEF tableVars
<1>3. TypeOK'
  <2>1. pc' \in {<<q, m>> : q \in Codes, m \in 1 .. 28}
    BY <1>1
  <2> QED
    BY <1>2, <2>1 DEF IInv, TypeOK
<1>4. TablesFull'
  BY <1>2, InsideFacts, Zenon DEF TablesFull
<1>5. Entries'
  <2>1. pc \notin BootPcs \cup Stops /\ pc # User /\ pc # Shutdown /\ pc'[1] = r /\ pc[1] = r
    <3>1. pc \notin BootPcs \cup Stops
      BY PcFacts, Zenon
    <3> QED
      BY <1>1, <3>1, Zenon DEF Stops
  <2>2. entry.state = "left" => r = "enter_user"
    BY <2>1, InsideFacts, Zenon
  <2>3. r # "syscall_entry" => Full(stack["user"], 0)
    BY <2>1, Zenon DEF IInv, Entries
  <2> QED
    BY <1>2, <2>1, <2>2, <2>3, Zenon DEF IInv, Entries
<1> QED
  BY <1>1, <1>3, <1>4, <1>5, Zenon

\* The same for an instruction that only touches registers and the stack.
LEMMA GoesFacts ==
  ASSUME IInv, NEW r \in Codes, NEW n \in 1 .. 27, pc = <<r, n>>, NEW A, Goes(A),
         regs' = [q \in Regs |-> regs'[q]], stack' = [q \in Stacks |-> stack'[q]],
         r # "syscall_entry" => stack'["user"] = stack["user"]
  PROVE  /\ pc' = <<r, n + 1>> /\ TypeOK' /\ TablesFull' /\ Entries'
         /\ UNCHANGED <<cs, ss, room, saved_user_rsp, turn, entry, result>>
<1>1. /\ Continue /\ UNCHANGED tableVars
      /\ UNCHANGED <<cs, ss, room, saved_user_rsp, turn, entry, result>>
  BY Zenon DEF Goes, entryVars
<1> QED
  BY <1>1, StaysFacts, Zenon

\* One word is pushed.
LEMMA PushOne ==
  ASSUME IInv, NEW s \in Stacks, NEW n, rsp = <<s, n>>, Full(stack[s], n), NEW x, Pushing(x)
  PROVE  /\ regs' = [q \in Regs |-> regs'[q]] /\ regs' = regs
         /\ rsp' = <<s, n + 1>>
         /\ stack' = [q \in Stacks |-> stack'[q]]
         /\ \A q \in Stacks \ {s} : stack'[q] = stack[q]
         /\ Full(stack'[s], n + 1)
         /\ stack'[s][n + 1] = x
         /\ \A k \in 1 .. n : stack'[s][k] = stack[s][k]
<1>1. <<x>> \in Seq({x}) /\ Len(<<x>>) = 1 /\ <<x>>[1] = x
  OBVIOUS
<1>2. stack = [q \in Stacks |-> stack[q]] /\ regs = [q \in Regs |-> regs[q]] /\ n \in Nat
  BY Zenon DEF IInv, TypeOK, Full
<1>3. PushWords(<<s, n>>, <<x>>) /\ regs' = regs
  BY Zenon DEF Pushing
<1> DEFINE w == <<x>>
<1> HIDE DEF w
<1>4. /\ rsp' = <<s, n + Len(w)>>
      /\ stack' = [q \in Stacks |-> stack'[q]]
      /\ \A q \in Stacks \ {s} : stack'[q] = stack[q]
      /\ OnTop(stack[s], n, stack'[s], w)
  BY <1>1, <1>2, <1>3, PushStep, Zenon DEF w
<1>5. Len(w) = 1 /\ w[1] = x
  BY <1>1, Zenon DEF w
<1>6. /\ Full(stack'[s], n + 1) /\ stack'[s][n + 1] = x
      /\ \A k \in 1 .. n : stack'[s][k] = stack[s][k]
  BY <1>2, <1>4, <1>5 DEF OnTop
<1> QED
  BY <1>2, <1>3, <1>4, <1>5, <1>6

\* One word is popped.
LEMMA PopOne ==
  ASSUME IInv, NEW s \in Stacks, NEW n \in Nat \ {0}, rsp = <<s, n>>, Full(stack[s], n),
         DropWords(1)
  PROVE  /\ rsp' = <<s, n - 1>>
         /\ stack' = [q \in Stacks |-> stack'[q]]
         /\ \A q \in Stacks \ {s} : stack'[q] = stack[q]
         /\ Full(stack'[s], n - 1)
         /\ \A k \in 1 .. (n - 1) : stack'[s][k] = stack[s][k]
         /\ Word(0) = stack[s][n]
<1>1. rsp' = Up(1) /\ stack' = [stack EXCEPT ![rsp[1]] = SubSeq(@, 1, Up(1)[2])]
  BY Zenon DEF DropWords
<1>2. stack = [q \in Stacks |-> stack[q]]
  BY Zenon DEF IInv, TypeOK
<1>3. Shorter(s, n, 1)
  <2>1. 1 \in 0 .. n /\ Cut(1)
    BY <1>1 DEF Cut
  <2> QED
    BY <1>2, <2>1, DropStep, Zenon
<1>4. Word(0) = stack[s][n]
  BY WordFacts
<1> QED
  BY <1>1, <1>3, <1>4, Zenon DEF Shorter

LEMMA UserInv ==
  ASSUME pc' = User, TypeOK', TablesFull', Entries', rsp' = <<"user", 0>>,
         UserStateKept', DebugStateKept'
  PROVE  IInv'
<1>1. pc' \notin BootPcs /\ pc'[1] \notin Codes /\ pc' # Shutdown /\ pc' # Halted
  BY PcFacts, Zenon DEF Stops
<1>2. pc'[1] = "user"
  BY Zenon DEF User
<1>3. TablesOK' /\ UserOK' /\ StopOK' /\ BootOK'
  BY <1>1, <1>2, Zenon DEF TablesOK, TablesFull, UserOK, StopOK, BootPcs, BootOK
<1>4. SyscallOK' /\ StubOK' /\ ErrorStubOK' /\ GenericOK'
  BY <1>1, <1>2, Zenon DEF SyscallOK, StubOK, ErrorStubOK, GenericOK
<1> QED
  BY <1>3, <1>4, Zenon DEF IInv

LEMMA StopInv ==
  ASSUME pc' \in {Halted, Shutdown}, TypeOK', TablesFull', Entries', StopOK'
  PROVE  IInv'
<1>1. pc' \notin BootPcs /\ pc' # User
  BY PcFacts, Zenon DEF Stops
<1>2. pc'[1] \in {"halted", "shutdown"}
  BY DEF Halted, Shutdown
<1>3. TablesOK' /\ UserOK' /\ BootOK'
  BY <1>1, <1>2, Zenon DEF TablesOK, TablesFull, UserOK, BootPcs, BootOK
<1>4. SyscallOK' /\ StubOK' /\ ErrorStubOK' /\ GenericOK'
  BY <1>2, Zenon DEF SyscallOK, StubOK, ErrorStubOK, GenericOK
<1> QED
  BY <1>3, <1>4, Zenon DEF IInv

-----------------------------------------------------------------------------
(***************************************************************************)
(* The boot.                                                               *)
(***************************************************************************)

LEMMA InitInv == Init => IInv
<1> SUFFICES ASSUME Init PROVE IInv
  BY Zenon
<1> USE EntryAssumption DEF Init
<1>1. pc = Start("gdt_init") /\ pc \in BootPcs /\ pc[1] = "gdt_init"
  BY Zenon DEF BootPcs, Start
<1>2. pc # User /\ pc # Halted /\ pc # Shutdown /\ pc # Start("tss_init")
  BY <1>1, PcFacts, Zenon DEF Stops
<1>3. TypeOK
  BY <1>1 DEF TypeOK, NoEntry
<1>4. Full(stack["user"], 0) /\ Full(stack["boot"], 0)
  BY DEF Stacks, Full
<1>5. entry.kind = "none" /\ entry.state = "left"
  BY Zenon DEF NoEntry
<1>6. TablesOK /\ Entries /\ BootOK /\ UserOK /\ StopOK
  BY <1>1, <1>2, <1>4, <1>5, Zenon DEF TablesOK, Entries, BootOK, UserOK, StopOK
<1>7. SyscallOK /\ StubOK /\ ErrorStubOK /\ GenericOK
  BY <1>1, Zenon DEF SyscallOK, StubOK, ErrorStubOK, GenericOK
<1> QED
  BY <1>3, <1>6, <1>7, Zenon DEF IInv

LEMMA BootStep == ASSUME IInv, Boot PROVE IInv'
<1>1. /\ pc \in BootPcs
      /\ UNCHANGED <<regs, rsp, stack, room, entryVars>>
  BY Zenon DEF Boot, gdt_init, tss_init, idt_init, BootPcs
<1>2. UNCHANGED <<turn, entry>>
  BY <1>1, Zenon DEF entryVars
<1>3. /\ rsp = <<"boot", 0>> /\ Full(stack["boot"], 0) /\ entry.kind = "none"
      /\ Full(stack["user"], 0)
  <2>1. pc # Shutdown /\ pc[1] # "syscall_entry"
    BY <1>1, PcFacts, Zenon DEF Stops, Codes
  <2> QED
    BY <1>1, <2>1, Zenon DEF IInv, BootOK, Entries
<1>4. CASE gdt_init
  <2>1. /\ pc' = Start("tss_init") /\ gdt' = SegmentTable
    BY <1>4, SelectorFacts, Zenon DEF gdt_init
  <2>2. /\ pc' \in BootPcs /\ pc' \notin Stops /\ pc' # Start("gdt_init")
        /\ pc'[1] = "tss_init"
    BY <2>1, PcFacts, Zenon DEF BootPcs, Start
  <2>3. TypeOK' /\ Entries' /\ BootOK'
    BY <1>1, <1>2, <1>3, <2>2 DEF IInv, TypeOK, Entries, BootOK
  <2>4. TablesOK' /\ UserOK' /\ StopOK'
    BY <2>1, <2>2, Zenon DEF TablesOK, UserOK, StopOK, Stops
  <2>5. SyscallOK' /\ StubOK' /\ ErrorStubOK' /\ GenericOK'
    BY <2>2, Zenon DEF SyscallOK, StubOK, ErrorStubOK, GenericOK
  <2> QED
    BY <2>3, <2>4, <2>5, Zenon DEF IInv
<1>5. CASE tss_init
  <2>1. pc = Start("tss_init") /\ gdt = SegmentTable
    BY <1>5, Zenon DEF tss_init, IInv, TablesOK
  <2>2. gdt' = FullGdt
    BY <1>5, <2>1, Zenon DEF tss_init, FullGdt
  <2>3. pc' = Start("idt_init") /\ tr' = AddressOf("tss") /\ tss'.rsp0 = <<"kernel", 0>>
    BY <1>5, <2>2, SelectorFacts, TssFacts DEF tss_init
  <2>4. /\ pc' \in BootPcs /\ pc' \notin Stops /\ pc' # Start("tss_init")
        /\ pc'[1] = "idt_init"
    BY <2>3, PcFacts, Zenon DEF BootPcs, Start
  <2>5. TypeOK' /\ Entries' /\ BootOK'
    BY <1>1, <1>2, <1>3, <2>4 DEF IInv, TypeOK, Entries, BootOK
  <2>6. TablesOK' /\ UserOK' /\ StopOK'
    BY <2>2, <2>3, <2>4, Zenon DEF TablesOK, UserOK, StopOK, Stops
  <2>7. SyscallOK' /\ StubOK' /\ ErrorStubOK' /\ GenericOK'
    BY <2>4, Zenon DEF SyscallOK, StubOK, ErrorStubOK, GenericOK
  <2> QED
    BY <2>5, <2>6, <2>7, Zenon DEF IInv
<1>6. CASE idt_init
  <2>1. pc' = <<"enter_user", 1>> /\ idt' = FullIdt /\ UNCHANGED <<gdt, tr, tss>>
    BY <1>6, Zenon DEF idt_init, FullIdt, Start
  <2>2. "enter_user" \in Codes /\ 1 \in 1 .. 28 /\ pc'[1] = "enter_user" /\ pc'[2] = 1
    BY <2>1 DEF Codes
  <2>3. TablesFull'
    <3>1. pc \notin {Start("gdt_init"), Start("tss_init")}
      BY <1>6, PcFacts, Zenon DEF idt_init
    <3> QED
      BY <2>1, <3>1, Zenon DEF IInv, TablesOK, TablesFull
  <2>4. TypeOK' /\ Entries'
    BY <1>1, <1>2, <1>3, <2>1, <2>2 DEF IInv, TypeOK, Entries
  <2>5. BootOK'
    <3>1. pc' \notin BootPcs
      BY <2>1, <2>2, PcFacts, Zenon
    <3> QED
      BY <1>1, <1>2, <1>3, <2>2, <3>1 DEF BootOK
  <2> QED
    BY <2>1, <2>2, <2>3, <2>4, <2>5, CodeInv
<1> QED
  BY <1>4, <1>5, <1>6, Zenon DEF Boot

\* enter_user pushes a frame of the user's segments, with which iretq enters
\* user mode on its empty stack.
LEMMA EnterStep ==
  ASSUME IInv, Next, pc[1] = "enter_user"
  PROVE  IInv'
<1>1. /\ pc = <<"enter_user", pc[2]>> /\ pc[2] \in 1 .. 6 /\ entry.kind = "none"
      /\ rsp = <<"boot", pc[2] - 1>> /\ Full(stack["boot"], pc[2] - 1)
      /\ \A k \in 1 .. (pc[2] - 1) : stack["boot"][k] = enter_user[k][2]
      /\ "enter_user" \in Codes /\ TablesFull
      /\ pc \notin BootPcs \cup Stops
  BY InsideFacts, Zenon DEF IInv, BootOK, Codes
<1>2. Instr = enter_user[pc[2]]
  BY <1>1, CodeFacts, Zenon DEF Instr
<1>3. "boot" \in Stacks /\ "user" \in Stacks \ {"boot"}
  BY Zenon DEF Stacks
<1>4. Fits(rsp, 1)
  BY <1>1, Zenon DEF Fits
<1>5. CASE pc[2] \in 1 .. 5
  <2> DEFINE n == pc[2]
             x == enter_user[n][2]
  <2>1. Instr = <<"push_const", x>>
    BY <1>2, <1>5, EnterCode, Zenon
  <2> HIDE DEF x
  <2>2. Goes(Pushing(x))
    BY <1>1, <1>4, <2>1, Instruction, Zenon DEF Does, StackFault
  <2>3. Pushing(x)
    BY <2>2, Zenon DEF Goes
  <2>4. /\ regs' = [q \in Regs |-> regs'[q]]
        /\ rsp' = <<"boot", (n - 1) + 1>>
        /\ stack' = [q \in Stacks |-> stack'[q]]
        /\ \A q \in Stacks \ {"boot"} : stack'[q] = stack[q]
        /\ Full(stack'["boot"], (n - 1) + 1)
        /\ stack'["boot"][(n - 1) + 1] = x
        /\ \A k \in 1 .. (n - 1) : stack'["boot"][k] = stack["boot"][k]
    BY <1>1, <1>3, <2>3, PushOne
  <2>5. /\ pc' = <<"enter_user", n + 1>> /\ TypeOK' /\ TablesFull' /\ Entries'
        /\ UNCHANGED entry
    BY <1>1, <1>3, <1>5, <2>2, <2>4, GoesFacts
  <2>6. BootOK'
    <3>1. pc' \notin BootPcs /\ pc'[1] = "enter_user" /\ pc'[2] = n + 1
      <4>1. n + 1 \in 1 .. 28
        BY <1>5
      <4>2. <<"enter_user", n + 1>> \notin BootPcs
        BY <1>1, <4>1, PcFacts, Zenon
      <4> QED
        BY <2>5, <4>2, Zenon
    <3>2. (n - 1) + 1 = n /\ (n + 1) - 1 = n
      BY <1>5
    <3>3. \A k \in 1 .. n : stack'["boot"][k] = enter_user[k][2]
      BY <1>1, <1>5, <2>4, <3>2 DEF x
    <3>4. /\ rsp' = <<"boot", pc'[2] - 1>> /\ Full(stack'["boot"], pc'[2] - 1)
          /\ pc'[2] \in 1 .. 6
      BY <1>5, <2>4, <3>1, <3>2
    <3>5. \A k \in 1 .. (pc'[2] - 1) : stack'["boot"][k] = enter_user[k][2]
      BY <3>1, <3>2, <3>3, Zenon
    <3> QED
      BY <1>1, <2>5, <3>1, <3>4, <3>5 DEF BootOK
  <2> QED
    BY <1>1, <1>5, <2>5, <2>6, CodeInv
<1>6. CASE pc[2] = 6
  <2>1. Instr = <<"iretq">>
    BY <1>2, <1>6, EnterCode, Zenon
  <2>2. Iretq
    BY <1>1, <2>1, Instruction, Zenon DEF Does
  <2>3. rsp = <<"boot", 5>> /\ Full(stack["boot"], 5)
    BY <1>1, <1>6
  <2>4. /\ Word(1) = Const(UCODE_SEL + 3) /\ Word(3) = <<"user", 0>>
        /\ Word(4) = Const(UDATA_SEL + 3)
    BY <1>1, <1>6, <2>3, EnterCode DEF Word
  <2>5. IsUserCode(gdt, UCODE_SEL + 3) /\ IsUserData(gdt, UDATA_SEL + 3)
    BY <1>1, SelectorFacts, Zenon DEF TablesFull
  <2>6. /\ pc' = User /\ rsp' = <<"user", 0>>
        /\ regs' = [regs EXCEPT !["rip"] = Word(0), !["rflags"] = Word(2)]
        /\ Cut(5)
        /\ entry' = [entry EXCEPT !.state = "left"]
        /\ UNCHANGED <<room, saved_user_rsp, turn, result, tableVars>>
    BY <2>2, <2>4, <2>5 DEF Iretq, Const, Cut
  <2>7. Shorter("boot", 5, 5)
    BY <1>3, <2>3, <2>6, DropStep DEF IInv, TypeOK
  <2>8. TypeOK'
    <3>1. regs' = [q \in Regs |-> regs'[q]]
      BY <2>6, Zenon DEF IInv, TypeOK
    <3>2. entry' = [kind |-> entry'.kind, vector |-> entry'.vector, regs |-> entry'.regs,
                    rsp |-> entry'.rsp, cs |-> entry'.cs, state |-> entry'.state]
      BY <2>6, Zenon DEF IInv, TypeOK
    <3>3. pc' \in Stops
      BY <2>6, Zenon DEF Stops
    <3> QED
      BY <2>6, <2>7, <3>1, <3>2, <3>3 DEF IInv, TypeOK, Shorter
  <2>9. entry'.kind = "none"
    BY <1>1, <2>6, Zenon DEF IInv, TypeOK
  <2>10. TablesFull'
    BY <1>1, <2>6, Zenon DEF TablesFull, tableVars
  <2>11. Entries'
    <3>1. Full(stack["user"], 0)
      BY <1>1, Zenon DEF IInv, Entries, Stops
    <3> QED
      BY <1>3, <2>6, <2>7, <2>9, <3>1, Zenon DEF Entries, Shorter
  <2>12. UserStateKept' /\ DebugStateKept'
    BY <2>9, Zenon DEF UserStateKept, DebugStateKept
  <2> QED
    BY <2>6, <2>8, <2>10, <2>11, <2>12, UserInv
<1> QED
  BY <1>1, <1>5, <1>6

\* A system call that runs out of the user's stack ends in a shutdown.
LEMMA OutOfStackStops ==
  ASSUME IInv, NEW n \in Nat, rsp = <<"user", n>>, TablesFull,
         pc' = Shutdown,
         entry' = [kind |-> "kernel_fault", vector |-> 14,
                   regs |-> regs, rsp |-> rsp, cs |-> cs, state |-> "entered"],
         regs' = regs,
         UNCHANGED <<rsp, stack, saved_user_rsp, result, tableVars, turn, room>>
  PROVE  IInv'
<1>1. TypeOK'
  <2>1. room \in Nat /\ stack = [q \in Stacks |-> stack[q]] /\ regs = [q \in Regs |-> regs[q]]
        /\ turn \in Nat
    BY DEF IInv, TypeOK
  <2> QED
    BY <2>1 DEF TypeOK, Stops
<1>2. TablesFull'
  BY Zenon DEF TablesFull, tableVars
<1>3. Entries' /\ StopOK'
  <2>1. Shutdown # Halted
    BY PcFacts, Zenon
  <2>2. rsp'[1] = "user"
    OBVIOUS
  <2>3. entry'.kind = "kernel_fault" /\ entry'.vector = 14 /\ entry'.state = "entered"
    OBVIOUS
  <2> QED
    BY <2>1, <2>2, <2>3, Zenon DEF Entries, StopOK
<1> QED
  BY <1>1, <1>2, <1>3, StopInv, Zenon

LEMMA StackFaultStops ==
  ASSUME IInv, StackFault, NEW n \in Nat, rsp = <<"user", n>>, pc # User, TablesFull
  PROVE  IInv'
<1>1. ~Fits(rsp, 1) /\ Deliver(14, regs) /\ UNCHANGED <<turn, room>>
  BY Zenon DEF StackFault
<1>2. room \in Nat
  BY DEF IInv, TypeOK
<1>3. /\ pc' = Shutdown
      /\ entry' = [kind |-> "kernel_fault", vector |-> 14,
                   regs |-> regs, rsp |-> rsp, cs |-> cs, state |-> "entered"]
      /\ regs' = regs
      /\ UNCHANGED <<rsp, stack, saved_user_rsp, result, tableVars>>
  BY <1>1, <1>2, DeliverStops, Zenon
<1> QED
  BY <1>1, <1>3, OutOfStackStops, Zenon

LEMMA DispatchFaultStops ==
  ASSUME IInv, DispatchFault, NEW n \in Nat, rsp = <<"user", n>>, TablesFull
  PROVE  IInv'
  BY OutOfStackStops, Zenon DEF DispatchFault

-----------------------------------------------------------------------------
(***************************************************************************)
(* syscall_entry.                                                          *)
(***************************************************************************)

\* What the registers are before instruction n, with user mode's in e.
SyscallRegs(n, g, e, res) ==
  IF n <= 17
  THEN \A r \in Regs : g[r] = e[Moved(n, r)]
  ELSE /\ g["rax"] = <<"result", res>>
       /\ \A r \in CalleeSaved \cup {"rip", "rflags"} : g[r] = e[r]
       /\ n > 25 => g["rcx"] = e["rip"]
       /\ n > 26 => g["r11"] = e["rflags"]

\* The words on the user's stack.
SyscallStack(n, p, s, e) ==
  /\ p = <<"user", SyscallDepth(n)>>
  /\ Full(s, SyscallDepth(n))
  /\ \A k \in 1 .. SyscallDepth(n) : s[k] = e[Source(PushOrder[k])]

LEMMA SyscallAt ==
  ASSUME IInv, pc[1] = "syscall_entry"
  PROVE  /\ entry.kind = "syscall" /\ entry.state = "entered"
         /\ pc = <<"syscall_entry", pc[2]>> /\ pc[2] \in 1 .. 28
         /\ pc[2] > 1 => saved_user_rsp = <<"user", 0>>
         /\ SyscallStack(pc[2], rsp, stack["user"], entry.regs)
         /\ SyscallRegs(pc[2], regs, entry.regs, result)
         /\ regs = [r \in Regs |-> regs[r]] /\ stack = [s \in Stacks |-> stack[s]]
         /\ "syscall_entry" \in Codes /\ "user" \in Stacks
         /\ TablesFull /\ pc # User
         /\ Instr = syscall_entry[pc[2]]
<1>1. "syscall_entry" \in Codes /\ "user" \in Stacks
  BY Zenon DEF Codes, Stacks
<1>2. /\ pc = <<"syscall_entry", pc[2]>> /\ pc[2] \in 1 .. 28
      /\ TablesFull /\ pc # User
  BY <1>1, InsideFacts, Zenon DEF Stops
<1>3. Instr = syscall_entry[pc[2]]
  BY <1>2, CodeFacts, Zenon DEF Instr
<1>4. SyscallOK /\ TypeOK
  BY Zenon DEF IInv
<1>5. /\ entry.kind = "syscall" /\ entry.state = "entered"
      /\ pc[2] > 1 => saved_user_rsp = <<"user", 0>>
  BY <1>4, Zenon DEF SyscallOK
<1>6. SyscallStack(pc[2], rsp, stack["user"], entry.regs)
  BY <1>4, Zenon DEF SyscallOK, SyscallStack
<1>7. SyscallRegs(pc[2], regs, entry.regs, result)
  BY <1>4, Zenon DEF SyscallOK, SyscallRegs
<1>8. regs = [r \in Regs |-> regs[r]] /\ stack = [s \in Stacks |-> stack[s]]
  BY <1>4, Zenon DEF TypeOK
<1> QED
  BY <1>1, <1>2, <1>3, <1>5, <1>6, <1>7, <1>8, Zenon

LEMMA SyscallNextAt ==
  ASSUME NEW n \in 1 .. 28, pc' = <<"syscall_entry", n>>, TypeOK', TablesFull', Entries',
         entry'.kind = "syscall", entry'.state = "entered",
         n > 1 => saved_user_rsp' = <<"user", 0>>,
         SyscallStack(n, rsp', stack'["user"], entry'.regs),
         SyscallRegs(n, regs', entry'.regs, result')
  PROVE  IInv'
<1>1. "syscall_entry" \in Codes
  BY Zenon DEF Codes
<1>2. pc'[1] = "syscall_entry" /\ pc'[2] = n
  BY Zenon
<1>3. SyscallOK'
  BY <1>2, Zenon DEF SyscallOK, SyscallStack, SyscallRegs
<1> QED
  BY <1>1, <1>3, CodeInv, Zenon

\* Which words are on the stack.
LEMMA DepthFacts ==
  /\ SyscallDepth(1) = 0 /\ SyscallDepth(2) = 0 /\ SyscallDepth(3) = 0
  /\ \A n \in 3 .. 11 : SyscallDepth(n) = n - 3 /\ SyscallDepth(n + 1) = n - 2
  /\ \A n \in 12 .. 17 : SyscallDepth(n) = 9 /\ SyscallDepth(n + 1) = 9
  /\ SyscallDepth(18) = 9 /\ SyscallDepth(19) = 8
  /\ \A n \in 19 .. 26 : SyscallDepth(n) = 27 - n /\ SyscallDepth(n + 1) = 26 - n
  /\ SyscallDepth(27) = 0 /\ SyscallDepth(28) = 0
  BY DEF SyscallDepth

LEMMA OrderFacts ==
  /\ \A k \in 1 .. 9 : PushOrder[k] \in Regs /\ Source(PushOrder[k]) \in Regs
  /\ PushOrder[1] = "r11" /\ PushOrder[2] = "rcx"
  /\ \A k \in 3 .. 8 : PushOrder[k] \in CalleeSaved /\ Source(PushOrder[k]) = PushOrder[k]
  /\ Source("r11") = "rflags" /\ Source("rcx") = "rip"
  /\ CalleeSaved \subseteq Regs
  BY DEF PushOrder, Regs, Source, CalleeSaved

LEMMA MovedFacts == \A n \in 1 .. 12, r \in Regs : Moved(n, r) = Source(r)
  BY DEF Moved

\* In the first twelve instructions the registers do not change.
LEMMA SaveStep ==
  ASSUME IInv, Next, pc[1] = "syscall_entry", pc[2] \in 1 .. 11
  PROVE  IInv'
<1> DEFINE n == pc[2]
           e == entry.regs
<1>1. /\ entry.kind = "syscall" /\ entry.state = "entered"
      /\ pc = <<"syscall_entry", n>> /\ n \in 1 .. 28
      /\ n > 1 => saved_user_rsp = <<"user", 0>>
      /\ SyscallStack(n, rsp, stack["user"], e)
      /\ SyscallRegs(n, regs, e, result)
      /\ regs = [r \in Regs |-> regs[r]] /\ stack = [s \in Stacks |-> stack[s]]
      /\ "syscall_entry" \in Codes /\ "user" \in Stacks
      /\ TablesFull /\ pc # User
      /\ Instr = syscall_entry[n]
  BY SyscallAt, Zenon
<1> HIDE DEF n, e
<1>2. n \in 1 .. 11 /\ n + 1 \in 1 .. 28 /\ n \in 1 .. 27
  BY DEF n
<1>3. Does(Instr)
  BY <1>1, Instruction, Zenon
<1>4. \A q : SyscallRegs(n, regs, e, q) /\ SyscallRegs(n + 1, regs, e, q)
  <2>1. /\ \A q : SyscallRegs(n, regs, e, q) <=> \A r \in Regs : regs[r] = e[Moved(n, r)]
        /\ \A q : SyscallRegs(n + 1, regs, e, q) <=> \A r \in Regs : regs[r] = e[Moved(n + 1, r)]
    BY <1>2 DEF SyscallRegs
  <2>2. \A r \in Regs : Moved(n, r) = Source(r) /\ Moved(n + 1, r) = Source(r)
    <3>1. n \in 1 .. 12 /\ n + 1 \in 1 .. 12
      BY <1>2
    <3> QED
      BY <3>1, MovedFacts, Zenon
  <2> QED
    BY <1>1, <2>1, <2>2, Zenon
<1>5. CASE n = 1
  <2>1. Instr[1] = "save_rsp"
    BY <1>1, <1>5, SyscallCode
  <2>2. /\ saved_user_rsp' = rsp /\ Continue
        /\ UNCHANGED <<regs, rsp, stack, room, turn, entry, result, tableVars>>
    BY <1>3, <2>1, Zenon DEF Does, SaveRsp
  <2>3. pc' = <<"syscall_entry", n + 1>> /\ TypeOK' /\ TablesFull' /\ Entries'
    BY <1>1, <1>2, <2>2, StaysFacts, Zenon
  <2>4. rsp = <<"user", 0>> /\ SyscallStack(n + 1, rsp, stack["user"], e)
    BY <1>1, <1>5, DepthFacts DEF SyscallStack
  <2> QED
    BY <1>1, <1>2, <1>4, <2>2, <2>3, <2>4, SyscallNextAt, Zenon DEF e
<1>6. CASE n = 2
  <2>1. Instr[1] = "load_rsp"
    BY <1>1, <1>6, SyscallCode
  <2>2. /\ rsp' = saved_user_rsp /\ Continue
        /\ UNCHANGED <<regs, stack, room, saved_user_rsp, turn, entry, result, tableVars>>
    BY <1>3, <2>1, Zenon DEF Does, LoadRsp, entryVars
  <2>3. pc' = <<"syscall_entry", n + 1>> /\ TypeOK' /\ TablesFull' /\ Entries'
    BY <1>1, <1>2, <2>2, StaysFacts, Zenon
  <2>4. SyscallStack(n + 1, rsp', stack["user"], e)
    BY <1>1, <1>6, <2>2, DepthFacts DEF SyscallStack
  <2> QED
    BY <1>1, <1>2, <1>4, <1>6, <2>2, <2>3, <2>4, SyscallNextAt DEF e
<1>7. CASE n \in 3 .. 11
  <2> DEFINE x == regs[PushOrder[n - 2]]
             d == n - 3
  <2>1. Instr = <<"push", PushOrder[n - 2]>>
    BY <1>1, <1>7, SyscallCode, Zenon
  <2>2. rsp = <<"user", d>> /\ Full(stack["user"], d) /\ d \in Nat
        /\ \A k \in 1 .. d : stack["user"][k] = e[Source(PushOrder[k])]
    BY <1>1, <1>7, DepthFacts DEF SyscallStack
  <2>3. x = e[Source(PushOrder[n - 2])]
    <3>1. n - 2 \in 1 .. 9
      BY <1>7
    <3>2. \A r \in Regs : regs[r] = e[Moved(n, r)] /\ Moved(n, r) = Source(r)
      <4>1. n \in 1 .. 12 /\ n <= 17
        BY <1>2
      <4>2. \A r \in Regs : Moved(n, r) = Source(r)
        BY <4>1, MovedFacts, Zenon
      <4> QED
        BY <1>1, <4>1, <4>2, Zenon DEF SyscallRegs
    <3>3. PushOrder[n - 2] \in Regs
      BY <3>1, OrderFacts, Zenon
    <3> QED
      BY <3>2, <3>3, Zenon
  <2>4. Goes(Pushing(x)) \/ StackFault
    BY <1>3, <2>1, Zenon DEF Does
  <2> HIDE DEF x
  <2>5. CASE Goes(Pushing(x))
    <3>1. Pushing(x)
      BY <2>5, Zenon DEF Goes
    <3> HIDE DEF d
    <3>2. /\ regs' = [q \in Regs |-> regs'[q]] /\ regs' = regs
          /\ rsp' = <<"user", d + 1>>
          /\ stack' = [q \in Stacks |-> stack'[q]]
          /\ Full(stack'["user"], d + 1)
          /\ stack'["user"][d + 1] = x
          /\ \A k \in 1 .. d : stack'["user"][k] = stack["user"][k]
      BY <1>1, <2>2, <3>1, PushOne
    <3>3. /\ pc' = <<"syscall_entry", n + 1>> /\ TypeOK' /\ TablesFull' /\ Entries'
          /\ UNCHANGED <<saved_user_rsp, entry>>
      BY <1>1, <1>2, <2>5, <3>2, GoesFacts, Zenon
    <3>4. d + 1 = n - 2
      BY <1>7 DEF d
    <3>5. SyscallStack(n + 1, rsp', stack'["user"], e)
      BY <1>7, <2>2, <2>3, <3>2, <3>4, DepthFacts DEF SyscallStack
    <3> QED
      BY <1>1, <1>2, <1>4, <1>7, <3>2, <3>3, <3>5, SyscallNextAt DEF e
  <2>6. CASE StackFault
    BY <1>1, <2>2, <2>6, StackFaultStops, Zenon
  <2> QED
    BY <2>4, <2>5, <2>6, Zenon
<1> QED
  BY <1>2, <1>5, <1>6, <1>7

\* The moves of ConvertArguments.
MoveTo == <<"r8", "rcx", "rdx", "rsi", "rdi">>
MoveFrom == <<"r10", "rdx", "rsi", "rdi", "rax">>

\* Each move overwrites a register that was read before.
LEMMA MoveFacts ==
  ASSUME NEW n \in 12 .. 16
  PROVE  /\ syscall_entry[n] = <<"mov", MoveTo[n - 11], MoveFrom[n - 11]>>
         /\ MoveTo[n - 11] \in Regs /\ MoveFrom[n - 11] \in Regs
         /\ Moved(n + 1, MoveTo[n - 11]) = Moved(n, MoveFrom[n - 11])
         /\ \A r \in Regs \ {MoveTo[n - 11]} : Moved(n + 1, r) = Moved(n, r)
<1>1. CASE n = 12
  BY <1>1, SyscallCode DEF MoveTo, MoveFrom, Moved, Source, Regs
<1>2. CASE n = 13
  BY <1>2, SyscallCode DEF MoveTo, MoveFrom, Moved, Source, Regs
<1>3. CASE n = 14
  BY <1>3, SyscallCode DEF MoveTo, MoveFrom, Moved, Source, Regs
<1>4. CASE n = 15
  BY <1>4, SyscallCode DEF MoveTo, MoveFrom, Moved, Source, Regs
<1>5. CASE n = 16
  BY <1>5, SyscallCode DEF MoveTo, MoveFrom, Moved, Source, Regs
<1> QED
  BY <1>1, <1>2, <1>3, <1>4, <1>5

\* A register is set.
LEMMA SetOne ==
  ASSUME IInv, NEW q \in Regs, NEW x, Setting(q, x)
  PROVE  /\ regs' = [r \in Regs |-> regs'[r]] /\ regs'[q] = x
         /\ \A r \in Regs \ {q} : regs'[r] = regs[r]
         /\ rsp' = rsp /\ stack' = stack /\ stack' = [s \in Stacks |-> stack'[s]]
<1>1. /\ regs = [r \in Regs |-> regs[r]] /\ stack = [s \in Stacks |-> stack[s]]
      /\ regs' = [regs EXCEPT ![q] = x] /\ rsp' = rsp /\ stack' = stack
  BY Zenon DEF IInv, TypeOK, Setting
<1>2. regs' = [r \in Regs |-> IF r = q THEN x ELSE regs[r]]
  BY <1>1, Zenon
<1> QED
  BY <1>1, <1>2, Zenon

LEMMA ConvertStep ==
  ASSUME IInv, Next, pc[1] = "syscall_entry", pc[2] \in 12 .. 16
  PROVE  IInv'
<1> DEFINE n == pc[2]
           e == entry.regs
           to == MoveTo[n - 11]
           from == MoveFrom[n - 11]
           x == regs[from]
<1>1. /\ entry.kind = "syscall" /\ entry.state = "entered"
      /\ pc = <<"syscall_entry", n>> /\ n \in 1 .. 28
      /\ n > 1 => saved_user_rsp = <<"user", 0>>
      /\ SyscallStack(n, rsp, stack["user"], e)
      /\ SyscallRegs(n, regs, e, result)
      /\ "syscall_entry" \in Codes /\ "user" \in Stacks
      /\ Instr = syscall_entry[n]
  BY SyscallAt, Zenon
<1> HIDE DEF n, e
<1>2. n \in 12 .. 16 /\ n + 1 \in 1 .. 28 /\ n \in 1 .. 27 /\ n <= 17 /\ n + 1 <= 17 /\ n > 1
  BY DEF n
<1>3. /\ Instr = <<"mov", to, from>> /\ to \in Regs /\ from \in Regs
      /\ Moved(n + 1, to) = Moved(n, from)
      /\ \A r \in Regs \ {to} : Moved(n + 1, r) = Moved(n, r)
  BY <1>1, <1>2, MoveFacts, Zenon
<1> HIDE DEF to, from
<1>4. Goes(Setting(to, x))
  BY <1>1, <1>3, Instruction DEF Does
<1>5. Setting(to, x)
  BY <1>4, Zenon DEF Goes
<1>6. \A r \in Regs : regs[r] = e[Moved(n, r)]
  BY <1>1, <1>2, Zenon DEF SyscallRegs
<1>7. x = e[Moved(n, from)]
  BY <1>3, <1>6, Zenon
<1> HIDE DEF x
<1>8. /\ regs' = [r \in Regs |-> regs'[r]] /\ regs'[to] = x
      /\ \A r \in Regs \ {to} : regs'[r] = regs[r]
      /\ rsp' = rsp /\ stack' = stack /\ stack' = [s \in Stacks |-> stack'[s]]
  BY <1>3, <1>5, SetOne, Zenon
<1>9. /\ pc' = <<"syscall_entry", n + 1>> /\ TypeOK' /\ TablesFull' /\ Entries'
      /\ UNCHANGED <<saved_user_rsp, entry, result>>
  BY <1>1, <1>2, <1>4, <1>8, GoesFacts, Zenon
<1>10. \A r \in Regs : regs'[r] = e[Moved(n + 1, r)]
  BY <1>3, <1>6, <1>7, <1>8, Zenon
<1>11. SyscallRegs(n + 1, regs', e, result')
  BY <1>2, <1>10, Zenon DEF SyscallRegs
<1>12. SyscallStack(n + 1, rsp', stack'["user"], e)
  <2>1. SyscallDepth(n) = 9 /\ SyscallDepth(n + 1) = 9
    BY <1>2, DepthFacts
  <2> QED
    BY <1>1, <1>8, <2>1, Zenon DEF SyscallStack
<1> QED
  BY <1>1, <1>2, <1>9, <1>11, <1>12, SyscallNextAt, Zenon DEF e

\* syscall_dispatch may change what the calling convention lets it change.
LEMMA DispatchStep ==
  ASSUME IInv, Next, pc[1] = "syscall_entry", pc[2] = 17
  PROVE  IInv'
<1> DEFINE e == entry.regs
<1>1. /\ entry.kind = "syscall" /\ entry.state = "entered"
      /\ pc = <<"syscall_entry", 17>>
      /\ saved_user_rsp = <<"user", 0>>
      /\ SyscallStack(17, rsp, stack["user"], e)
      /\ SyscallRegs(17, regs, e, result)
      /\ stack = [s \in Stacks |-> stack[s]]
      /\ "syscall_entry" \in Codes /\ "user" \in Stacks
      /\ TablesFull /\ pc # User
      /\ Instr = syscall_entry[17]
  BY SyscallAt
<1> HIDE DEF e
<1>2. rsp = <<"user", 9>>
  BY <1>1, DepthFacts DEF SyscallStack
<1>3. \A r \in CalleeSaved \cup {"rip", "rflags"} : regs[r] = e[r]
  <2>1. \A r \in CalleeSaved \cup {"rip", "rflags"} : Moved(17, r) = r /\ r \in Regs
    BY Zenon DEF CalleeSaved, Moved, Source, Regs
  <2> QED
    BY <1>1, <2>1, Zenon DEF SyscallRegs
<1>4. Instr = <<"call", "syscall_dispatch">>
  BY <1>1, SyscallCode, Zenon
<1>5. (Dispatch(Instr) /\ UNCHANGED tableVars) \/ StackFault \/ DispatchFault
  BY <1>1, <1>4, Instruction, Zenon DEF Does
<1>6. CASE Dispatch(Instr) /\ UNCHANGED tableVars
  <2>1. /\ regs' = AfterCall(<<"result", result'>>) /\ Continue
        /\ UNCHANGED <<rsp, stack, room, saved_user_rsp, turn, entry, tableVars>>
    BY <1>6, Zenon DEF Dispatch
  <2>2. regs' = [r \in Regs |-> regs'[r]]
    BY <2>1 DEF AfterCall
  <2>3. pc' = <<"syscall_entry", 17 + 1>> /\ TypeOK' /\ TablesFull' /\ Entries'
    BY <1>1, <2>1, <2>2, StaysFacts
  <2>4. regs'["rax"] = <<"result", result'>>
    BY <2>1, Zenon DEF AfterCall, Regs, CalleeSaved
  <2>5. \A r \in CalleeSaved \cup {"rip", "rflags"} : regs'[r] = regs[r]
    BY <2>1, Zenon DEF AfterCall, Regs, CalleeSaved
  <2>6. SyscallRegs(18, regs', e, result')
    BY <1>3, <2>4, <2>5 DEF SyscallRegs
  <2>7. SyscallStack(18, rsp', stack'["user"], e)
    BY <1>1, <2>1, DepthFacts DEF SyscallStack
  <2>8. pc' = <<"syscall_entry", 18>>
    BY <2>3
  <2> QED
    BY <1>1, <2>1, <2>3, <2>6, <2>7, <2>8, SyscallNextAt DEF e
<1>7. CASE StackFault
  BY <1>1, <1>2, <1>7, StackFaultStops, Zenon
<1>8. CASE DispatchFault
  BY <1>1, <1>2, <1>8, DispatchFaultStops, Zenon
<1> QED
  BY <1>5, <1>6, <1>7, <1>8, Zenon

LEMMA DropArgumentStep ==
  ASSUME IInv, Next, pc[1] = "syscall_entry", pc[2] = 18
  PROVE  IInv'
<1> DEFINE e == entry.regs
<1>1. /\ entry.kind = "syscall" /\ entry.state = "entered"
      /\ pc = <<"syscall_entry", 18>>
      /\ saved_user_rsp = <<"user", 0>>
      /\ SyscallStack(18, rsp, stack["user"], e)
      /\ SyscallRegs(18, regs, e, result)
      /\ regs = [r \in Regs |-> regs[r]]
      /\ "syscall_entry" \in Codes /\ "user" \in Stacks
      /\ Instr = syscall_entry[18]
  BY SyscallAt
<1> HIDE DEF e
<1>2. /\ rsp = <<"user", 9>> /\ Full(stack["user"], 9)
      /\ \A k \in 1 .. 9 : stack["user"][k] = e[Source(PushOrder[k])]
  BY <1>1, DepthFacts, Zenon DEF SyscallStack
<1>3. Instr[1] = "drop"
  BY <1>1, SyscallCode
<1>4. Goes(Dropping)
  BY <1>1, <1>3, Instruction, Zenon DEF Does
<1>5. DropWords(1) /\ regs' = regs
  BY <1>4, Zenon DEF Goes, Dropping
<1>6. /\ rsp' = <<"user", 9 - 1>>
      /\ stack' = [q \in Stacks |-> stack'[q]]
      /\ Full(stack'["user"], 9 - 1)
      /\ \A k \in 1 .. (9 - 1) : stack'["user"][k] = stack["user"][k]
  BY <1>1, <1>2, <1>5, PopOne
<1>7. /\ pc' = <<"syscall_entry", 18 + 1>> /\ TypeOK' /\ TablesFull' /\ Entries'
      /\ UNCHANGED <<saved_user_rsp, entry, result>>
  BY <1>1, <1>4, <1>5, <1>6, GoesFacts
<1>8. SyscallStack(19, rsp', stack'["user"], e)
  BY <1>2, <1>6, DepthFacts DEF SyscallStack
<1>9. SyscallRegs(19, regs', e, result')
  BY <1>1, <1>5, <1>7 DEF SyscallRegs
<1>10. pc' = <<"syscall_entry", 19>>
  BY <1>7
<1> QED
  BY <1>1, <1>7, <1>8, <1>9, <1>10, SyscallNextAt DEF e

\* A word is popped into a register.
LEMMA PopInto ==
  ASSUME IInv, NEW q \in Regs, Popping(q),
         NEW s \in Stacks, NEW n \in Nat \ {0}, rsp = <<s, n>>, Full(stack[s], n)
  PROVE  /\ regs' = [r \in Regs |-> regs'[r]] /\ regs'[q] = stack[s][n]
         /\ \A r \in Regs \ {q} : regs'[r] = regs[r]
         /\ rsp' = <<s, n - 1>>
         /\ stack' = [t \in Stacks |-> stack'[t]]
         /\ \A t \in Stacks \ {s} : stack'[t] = stack[t]
         /\ Full(stack'[s], n - 1)
         /\ \A k \in 1 .. (n - 1) : stack'[s][k] = stack[s][k]
<1>1. regs' = [regs EXCEPT ![q] = Word(0)] /\ DropWords(1)
  BY Zenon DEF Popping
<1>2. /\ rsp' = <<s, n - 1>>
      /\ stack' = [t \in Stacks |-> stack'[t]]
      /\ \A t \in Stacks \ {s} : stack'[t] = stack[t]
      /\ Full(stack'[s], n - 1)
      /\ \A k \in 1 .. (n - 1) : stack'[s][k] = stack[s][k]
      /\ Word(0) = stack[s][n]
  BY <1>1, PopOne, Zenon
<1> DEFINE x == stack[s][n]
<1>3. regs = [r \in Regs |-> regs[r]] /\ regs' = [regs EXCEPT ![q] = x]
  BY <1>1, <1>2, Zenon DEF IInv, TypeOK
<1> HIDE DEF x
<1>4. regs' = [r \in Regs |-> IF r = q THEN x ELSE regs[r]]
  BY <1>3, Zenon
<1>5. regs' = [r \in Regs |-> regs'[r]] /\ regs'[q] = x /\ \A r \in Regs \ {q} : regs'[r] = regs[r]
  BY <1>4, Zenon
<1> QED
  BY <1>2, <1>5, Zenon DEF x

LEMMA RestoreStep ==
  ASSUME IInv, Next, pc[1] = "syscall_entry", pc[2] \in 19 .. 26
  PROVE  IInv'
<1> DEFINE n == pc[2]
           e == entry.regs
           q == PushOrder[27 - n]
           d == 27 - n
<1>1. /\ entry.kind = "syscall" /\ entry.state = "entered"
      /\ pc = <<"syscall_entry", n>> /\ n \in 1 .. 28
      /\ n > 1 => saved_user_rsp = <<"user", 0>>
      /\ SyscallStack(n, rsp, stack["user"], e)
      /\ SyscallRegs(n, regs, e, result)
      /\ "syscall_entry" \in Codes /\ "user" \in Stacks
      /\ Instr = syscall_entry[n]
  BY SyscallAt, Zenon
<1> HIDE DEF n, e
<1>2. n \in 19 .. 26 /\ n + 1 \in 1 .. 28 /\ n \in 1 .. 27 /\ d \in 1 .. 9 /\ d \in Nat \ {0}
  BY DEF n
<1>3. /\ Instr = <<"pop", q>> /\ q \in Regs
      /\ rsp = <<"user", d>> /\ Full(stack["user"], d)
      /\ \A k \in 1 .. d : stack["user"][k] = e[Source(PushOrder[k])]
  BY <1>1, <1>2, SyscallCode, DepthFacts, OrderFacts, Zenon DEF SyscallStack
<1>4. Goes(Popping(q))
  BY <1>1, <1>3, Instruction DEF Does
<1>5. Popping(q)
  BY <1>4, Zenon DEF Goes
<1>6. stack["user"][d] = e[Source(q)]
  BY <1>2, <1>3
<1>7. \/ n \in 19 .. 24 /\ q \in CalleeSaved /\ Source(q) = q
      \/ n = 25 /\ q = "rcx" /\ Source(q) = "rip"
      \/ n = 26 /\ q = "r11" /\ Source(q) = "rflags"
  BY <1>2, OrderFacts
<1> HIDE DEF q, d
<1>8. /\ regs' = [r \in Regs |-> regs'[r]] /\ regs'[q] = stack["user"][d]
      /\ \A r \in Regs \ {q} : regs'[r] = regs[r]
      /\ rsp' = <<"user", d - 1>>
      /\ stack' = [t \in Stacks |-> stack'[t]]
      /\ Full(stack'["user"], d - 1)
      /\ \A k \in 1 .. (d - 1) : stack'["user"][k] = stack["user"][k]
  BY <1>1, <1>2, <1>3, <1>5, PopInto
<1>9. /\ pc' = <<"syscall_entry", n + 1>> /\ TypeOK' /\ TablesFull' /\ Entries'
      /\ UNCHANGED <<saved_user_rsp, entry, result>>
  BY <1>1, <1>2, <1>4, <1>8, GoesFacts, Zenon
<1>10. SyscallStack(n + 1, rsp', stack'["user"], e)
  <2>1. SyscallDepth(n + 1) = d - 1
    BY <1>2, DepthFacts DEF d
  <2>2. \A k \in 1 .. (d - 1) : stack'["user"][k] = e[Source(PushOrder[k])]
    BY <1>2, <1>3, <1>8
  <2> QED
    BY <1>8, <2>1, <2>2, Zenon DEF SyscallStack
<1>11. SyscallRegs(n + 1, regs', e, result')
  <2>1. regs'[q] = e[Source(q)]
    BY <1>6, <1>8, Zenon
  <2>2. /\ regs["rax"] = <<"result", result>>
        /\ \A r \in CalleeSaved \cup {"rip", "rflags"} : regs[r] = e[r]
        /\ n = 26 => regs["rcx"] = e["rip"]
    BY <1>1, <1>2 DEF SyscallRegs
  <2>3. /\ q # "rax" /\ q \notin {"rip", "rflags"} /\ "rax" \in Regs /\ "rcx" \in Regs
        /\ CalleeSaved \cup {"rip", "rflags"} \subseteq Regs
    BY <1>7, Zenon DEF Regs, CalleeSaved
  <2>4. regs'["rax"] = <<"result", result'>>
    BY <1>8, <1>9, <2>2, <2>3, Zenon
  <2>5. \A r \in CalleeSaved \cup {"rip", "rflags"} : regs'[r] = e[r]
    <3>1. "rcx" \notin CalleeSaved /\ "r11" \notin CalleeSaved
      BY Zenon DEF CalleeSaved
    <3> QED
      BY <1>3, <1>7, <1>8, <2>1, <2>2, <2>3, <3>1
  <2>6. n + 1 > 25 => regs'["rcx"] = e["rip"]
    BY <1>2, <1>7, <1>8, <2>1, <2>2, <2>3
  <2>7. n + 1 > 26 => regs'["r11"] = e["rflags"]
    BY <1>2, <1>7, <2>1
  <2> QED
    BY <1>2, <2>4, <2>5, <2>6, <2>7 DEF SyscallRegs
<1>12. saved_user_rsp = <<"user", 0>>
  BY <1>1, <1>2
<1> QED
  BY <1>1, <1>2, <1>9, <1>10, <1>11, <1>12, SyscallNextAt, Zenon DEF e

\* SYSRETQ continues in user mode on the stack pointer that was saved.
LEMMA ReturnStep ==
  ASSUME IInv, Next, pc[1] = "syscall_entry", pc[2] \in 27 .. 28
  PROVE  IInv'
<1> DEFINE e == entry.regs
<1>1. /\ entry.kind = "syscall" /\ entry.state = "entered"
      /\ pc = <<"syscall_entry", pc[2]>>
      /\ saved_user_rsp = <<"user", 0>>
      /\ SyscallStack(pc[2], rsp, stack["user"], e)
      /\ SyscallRegs(pc[2], regs, e, result)
      /\ regs = [r \in Regs |-> regs[r]] /\ stack = [s \in Stacks |-> stack[s]]
      /\ "syscall_entry" \in Codes /\ "user" \in Stacks
      /\ Instr = syscall_entry[pc[2]] /\ TablesFull
  BY SyscallAt
<1> HIDE DEF e
<1>2. rsp = <<"user", 0>> /\ Full(stack["user"], 0)
  BY <1>1, DepthFacts DEF SyscallStack
<1>3. CASE pc[2] = 27
  <2>1. Instr[1] = "restore_rsp"
    BY <1>1, <1>3, SyscallCode
  <2>2. /\ rsp' = saved_user_rsp /\ Continue
        /\ UNCHANGED <<regs, stack, room, saved_user_rsp, turn, entry, result, tableVars>>
    BY <1>1, <2>1, Instruction, Zenon DEF Does, RestoreRsp, entryVars
  <2>3. pc = <<"syscall_entry", 27>>
    BY <1>1, <1>3, Zenon
  <2>4. pc' = <<"syscall_entry", 27 + 1>> /\ TypeOK' /\ TablesFull' /\ Entries'
    BY <1>1, <2>2, <2>3, StaysFacts
  <2>5. pc' = <<"syscall_entry", 28>>
    BY <2>4
  <2>6. SyscallStack(28, rsp', stack'["user"], e)
    BY <1>1, <1>2, <1>3, <2>2, DepthFacts, Zenon DEF SyscallStack
  <2>7. SyscallRegs(28, regs', e, result')
    BY <1>1, <1>3, <2>2 DEF SyscallRegs
  <2> QED
    BY <1>1, <2>2, <2>4, <2>5, <2>6, <2>7, SyscallNextAt DEF e
<1>4. CASE pc[2] = 28
  <2>1. Instr[1] = "sysretq"
    BY <1>1, <1>4, SyscallCode
  <2>2. /\ regs' = [regs EXCEPT !["rip"] = regs["rcx"], !["rflags"] = regs["r11"]]
        /\ pc' = User
        /\ entry' = [entry EXCEPT !.state = "left"]
        /\ UNCHANGED <<rsp, stack, room, saved_user_rsp, turn, result, tableVars>>
    BY <1>1, <2>1, Instruction, Zenon DEF Does, Sysretq
  <2>3. /\ regs["rax"] = <<"result", result>> /\ regs["rcx"] = e["rip"]
        /\ regs["r11"] = e["rflags"] /\ \A r \in CalleeSaved : regs[r] = e[r]
    <3>1. SyscallRegs(28, regs, e, result)
      BY <1>1, <1>4, Zenon
    <3> QED
      BY <3>1 DEF SyscallRegs
  <2>4. /\ regs' = [r \in Regs |-> regs'[r]]
        /\ regs'["rip"] = e["rip"] /\ regs'["rflags"] = e["rflags"]
        /\ regs'["rax"] = <<"result", result>> /\ \A r \in CalleeSaved : regs'[r] = e[r]
    <3> DEFINE x == regs["rcx"]
               y == regs["r11"]
    <3> HIDE DEF x, y
    <3>1. regs' = [r \in Regs |-> IF r = "rflags" THEN y ELSE IF r = "rip" THEN x ELSE regs[r]]
      BY <1>1, <2>2, Zenon DEF x, y
    <3>2. regs' = [r \in Regs |-> regs'[r]]
      BY <3>1, Zenon
    <3>3. regs'["rip"] = x /\ regs'["rflags"] = y /\ regs'["rax"] = regs["rax"]
          /\ \A r \in CalleeSaved : regs'[r] = regs[r]
      BY <3>1, Zenon DEF Regs, CalleeSaved
    <3> QED
      BY <2>3, <3>2, <3>3, Zenon DEF x, y
  <2>5. /\ entry = [kind |-> entry.kind, vector |-> entry.vector, regs |-> entry.regs,
                    rsp |-> entry.rsp, cs |-> entry.cs, state |-> entry.state]
        /\ turn \in Nat /\ room \in Nat
        /\ entry.regs = UserRegs(turn) /\ entry.rsp = <<"user", 0>>
    BY <1>1 DEF IInv, TypeOK, Entries
  <2>6. /\ entry'.kind = "syscall" /\ entry'.regs = e /\ entry'.rsp = <<"user", 0>>
        /\ entry'.regs = UserRegs(turn')
        /\ entry' = [kind |-> entry'.kind, vector |-> entry'.vector, regs |-> entry'.regs,
                     rsp |-> entry'.rsp, cs |-> entry'.cs, state |-> entry'.state]
    BY <1>1, <2>2, <2>5, Zenon DEF e
  <2>7. pc' \in Stops
    BY <2>2, Zenon DEF Stops
  <2>8. TypeOK'
    BY <1>1, <2>2, <2>4, <2>5, <2>6, <2>7 DEF TypeOK
  <2>9. TablesFull'
    BY <1>1, <2>2, Zenon DEF TablesFull, tableVars
  <2>10. Entries'
    BY <1>2, <2>2, <2>6, Zenon DEF Entries
  <2>11. UserStateKept' /\ DebugStateKept'
    <3>1. rsp' = entry'.rsp /\ regs'["rax"] = <<"result", result'>>
      BY <1>2, <2>2, <2>4, <2>6, Zenon
    <3>2. \A r \in CalleeSaved \cup {"rip", "rflags"} : regs'[r] = entry'.regs[r]
      BY <2>4, <2>6, Zenon
    <3>3. entry'.kind # "user_fault"
      BY <2>6, Zenon
    <3> QED
      BY <3>1, <3>2, <3>3, Zenon DEF UserStateKept, DebugStateKept
  <2> QED
    BY <1>2, <2>2, <2>8, <2>9, <2>10, <2>11, UserInv, Zenon
<1> QED
  BY <1>3, <1>4

LEMMA SyscallEntryStep ==
  ASSUME IInv, Next, pc[1] = "syscall_entry"
  PROVE  IInv'
<1>1. pc[2] \in 1 .. 28
  BY SyscallAt, Zenon
<1> QED
  BY <1>1, SaveStep, ConvertStep, DispatchStep, DropArgumentStep, RestoreStep, ReturnStep

-----------------------------------------------------------------------------
(***************************************************************************)
(* The stubs of the IDT.                                                   *)
(***************************************************************************)

\* The state at the first instruction of the stub that the processor found.
LEMMA EnteredInv ==
  ASSUME TablesFull, NEW d \in {0, 1, 6, 8, 13, 14}, NEW n \in Nat, NEW r, Entered(d, n, r),
         r = [q \in Regs |-> r[q]], turn' \in Nat, room' \in Nat, Full(stack["user"], 0),
         pc = User => n = 0 /\ r = UserRegs(turn') /\ rsp = <<"user", 0>>,
         pc # User => d \in {13, 14}
  PROVE  IInv'
<1> DEFINE c == Stubs[d]
           m == n + (IF HasError(d) THEN 6 ELSE 5)
<1>1. /\ pc' = <<c, 1>> /\ pc'[1] = c /\ pc'[2] = 1 /\ c \in Codes /\ regs' = r
      /\ VectorOf(c) = d
      /\ d \in {0, 1, 6} => c \in {"isr_0", "isr_1", "isr_6"}
      /\ d \in {13, 14} => c \in {"isr_13", "isr_14"}
      /\ d = 8 => c = "generic_fault_handler"
  BY StubFacts DEF Entered, Start, VectorOf, Codes
<1>2. entry' = [kind |-> IF pc = User THEN "user_fault" ELSE "kernel_fault",
                vector |-> d, regs |-> r, rsp |-> rsp, cs |-> cs, state |-> "entered"]
  BY Zenon DEF Entered
<1>3. /\ entry'.kind = (IF pc = User THEN "user_fault" ELSE "kernel_fault")
      /\ entry'.vector = d /\ entry'.regs = r /\ entry'.rsp = rsp /\ entry'.cs = cs
      /\ entry'.state = "entered"
  BY <1>2, Zenon
<1>4. /\ rsp' = <<"kernel", m>> /\ Full(stack'["kernel"], m)
      /\ stack' = [q \in Stacks |-> stack'[q]] /\ stack'["user"] = stack["user"]
      /\ stack'["kernel"][n + 2] = rsp
      /\ stack'["kernel"][n + 3] = r["rflags"]
      /\ stack'["kernel"][n + 4] = Const(cs)
      /\ stack'["kernel"][n + 5] = IF pc = User THEN r["rip"] ELSE pc
      /\ HasError(d) => stack'["kernel"][n + 6] = ErrorCode(d)
      /\ UNCHANGED tableVars
  BY Zenon DEF Entered
<1>5. /\ d \in {0, 1, 6} => ~HasError(d) /\ m = n + 5
      /\ d \in {8, 13, 14} => HasError(d) /\ m = n + 6
  BY DEF HasError
<1> HIDE DEF c, m
<1>6. TypeOK'
  <2>1. pc' \in {<<q, k>> : q \in Codes, k \in 1 .. 28}
    BY <1>1
  <2> QED
    BY <1>1, <1>2, <1>3, <1>4, <2>1 DEF TypeOK
<1>7. TablesFull'
  BY <1>4, Zenon DEF TablesFull, tableVars
<1>8. Entries'
  BY <1>3, <1>4, Zenon DEF Entries
<1>9. CASE d \in {0, 1, 6}
  <2>1. n = 0 /\ m = 5 /\ pc = User /\ entry'.kind = "user_fault"
    BY <1>3, <1>5, <1>9
  <2>2. StubWords'[2] = rsp /\ StubWords'[3] = r["rflags"] /\ StubWords'[4] = Const(cs)
        /\ StubWords'[5] = r["rip"]
    BY <1>3, Zenon DEF StubWords
  <2>3. StubDepth(1) = 5
    BY DEF StubDepth
  <2>4. \A k \in 2 .. 5 : stack'["kernel"][k] = StubWords'[k]
    BY <1>4, <2>1, <2>2
  <2>5. StubOK'
    <3>1. CalleeSaved \cup {"rip", "rflags", "rax", "rdi"} \subseteq Regs
      BY Zenon DEF CalleeSaved, Regs
    <3> QED
      BY <1>1, <1>3, <1>4, <2>1, <2>3, <2>4, <3>1 DEF StubOK
  <2> QED
    BY <1>1, <1>6, <1>7, <1>8, <1>9, <2>5, CodeInv
<1>10. CASE d \in {13, 14}
  <2>1. Below(1) = 0 /\ m = n + 6 /\ HasError(d)
    BY <1>5, <1>10 DEF Below
  <2>2. rsp'[2] = m /\ m > 0 /\ m - 0 = n + 6
    BY <1>4, <2>1
  <2>3. entry'.kind # "syscall"
    BY <1>3, Zenon
  <2>4. ErrorStubOK'
    BY <1>1, <1>3, <1>4, <2>1, <2>2, <2>3 DEF ErrorStubOK
  <2> QED
    BY <1>1, <1>6, <1>7, <1>8, <1>10, <2>4, CodeInv
<1>11. CASE d = 8
  <2>1. n = 0 /\ m = 6 /\ pc = User /\ entry'.kind = "user_fault"
    BY <1>3, <1>5, <1>11
  <2>2. GenericDepth(1) = 6
    BY DEF GenericDepth
  <2>3. GenericOK'
    BY <1>1, <1>3, <1>4, <1>11, <2>1, <2>2 DEF GenericOK
  <2> QED
    BY <1>1, <1>6, <1>7, <1>8, <1>11, <2>3, CodeInv
<1> QED
  BY <1>9, <1>10, <1>11, Zenon

\* A return that the processor refuses: a general protection fault.
LEMMA IretqRefused ==
  ASSUME IInv, TablesFull, pc[1] \in Codes \ {"syscall_entry"}, NEW n \in Nat,
         rsp = <<"kernel", n>>, Full(stack["kernel"], n),
         Deliver(13, regs), UNCHANGED <<turn, room>>
  PROVE  IInv'
<1>1. pc # User /\ pc # Shutdown
  BY PcFacts, Zenon DEF Stops
<1>2. /\ stack = [q \in Stacks |-> stack[q]] /\ regs = [q \in Regs |-> regs[q]]
      /\ turn' \in Nat /\ room' \in Nat /\ Full(stack["user"], 0)
  BY <1>1 DEF IInv, TypeOK, Entries
<1>3. Found(13) = 13
  BY StubFacts DEF Found
<1>4. Entered(13, n, regs)
  <2>1. 13 \in 0 .. 31
    OBVIOUS
  <2>2. Entered(Found(13), n, regs)
    BY <1>1, <1>2, <2>1, DeliverEnters, Zenon
  <2> QED
    BY <1>3, <2>2, Zenon
<1> QED
  BY <1>1, <1>2, <1>4, EnteredInv, Zenon

\* handle_fault_with_vector halts.
LEMMA HaltStep ==
  ASSUME IInv, TablesFull, pc[1] \in Codes \ {"syscall_entry"}, ReportAndHalt,
         entry.kind # "syscall"
  PROVE  IInv'
<1>1. /\ pc' = Halted /\ entry' = [entry EXCEPT !.state = "reported"]
      /\ UNCHANGED <<regs, rsp, cs, ss, stack, room, saved_user_rsp, turn, result, tableVars>>
  BY Zenon DEF ReportAndHalt
<1>2. pc # Shutdown /\ Halted # Shutdown /\ Halted \in Stops
  BY PcFacts, Zenon DEF Stops
<1>3. entry = [kind |-> entry.kind, vector |-> entry.vector, regs |-> entry.regs,
               rsp |-> entry.rsp, cs |-> entry.cs, state |-> entry.state]
  BY Zenon DEF IInv, TypeOK
<1>4. /\ entry'.kind = entry.kind /\ entry'.regs = entry.regs /\ entry'.rsp = entry.rsp
      /\ entry'.state = "reported"
      /\ entry' = [kind |-> entry'.kind, vector |-> entry'.vector, regs |-> entry'.regs,
                   rsp |-> entry'.rsp, cs |-> entry'.cs, state |-> entry'.state]
  BY <1>1, <1>3, Zenon
<1>5. TypeOK'
  BY <1>1, <1>2, <1>4 DEF IInv, TypeOK
<1>6. TablesFull'
  BY <1>1, Zenon DEF TablesFull, tableVars
<1>7. Entries'
  BY <1>1, <1>2, <1>4, Zenon DEF IInv, Entries
<1>8. StopOK'
  BY <1>1, <1>2, <1>4, Zenon DEF StopOK
<1> QED
  BY <1>1, <1>5, <1>6, <1>7, <1>8, StopInv, Zenon

LEMMA NoStackFault == ASSUME NEW n, rsp = <<"kernel", n>> PROVE ~StackFault
  BY Zenon DEF StackFault, Fits

LEMMA StubCode ==
  ASSUME NEW v
  PROVE  /\ StubWithoutError(v)[1] = <<"push_const", Const(0)>>
         /\ StubWithoutError(v)[2] = <<"push", "rax">>
         /\ StubWithoutError(v)[3] = <<"push", "rdi">>
         /\ StubWithoutError(v)[4] = <<"mov_const", "rdi", v>>
         /\ StubWithoutError(v)[5] = <<"mov_const", "rsi", 0>>
         /\ StubWithoutError(v)[6] = Report
         /\ StubWithoutError(v)[7] = <<"pop", "rdi">>
         /\ StubWithoutError(v)[8] = <<"pop", "rax">>
         /\ StubWithoutError(v)[9] = <<"drop">>
         /\ StubWithoutError(v)[10] = <<"iretq">>
  BY Zenon DEF StubWithoutError

LEMMA ErrorStubCode ==
  ASSUME NEW v
  PROVE  /\ StubWithError(v)[1] = <<"push", "rax">> /\ StubWithError(v)[2] = <<"push", "rdi">>
         /\ StubWithError(v)[3] = <<"load", "rsi", 2>>
         /\ StubWithError(v)[4] = <<"mov_const", "rdi", v>>
         /\ StubWithError(v)[5] = Report
  BY Zenon DEF StubWithError

\* isr_13 and isr_14 find the error code two words below the two that they push,
\* and do not come back from handle_fault_with_vector.
LEMMA ErrorStubStep ==
  ASSUME IInv, Next, pc[1] \in {"isr_13", "isr_14"}
  PROVE  IInv'
<1> DEFINE c == pc[1]
           n == pc[2]
           p == rsp[2]
           v == VectorOf(pc[1])
           code == ErrorCode(v)
<1>1. /\ c \in Codes /\ c \in {"isr_13", "isr_14"} /\ c # "syscall_entry"
      /\ v \in {13, 14} /\ "kernel" \in Stacks /\ "user" \in Stacks \ {"kernel"}
  BY Zenon DEF Codes, VectorOf, Stacks
<1>2. pc = <<c, n>> /\ TablesFull
  BY <1>1, InsideFacts, Zenon
<1>3. /\ n \in 1 .. 5 /\ entry.kind # "syscall" /\ entry.vector = v /\ entry.state = "entered"
      /\ rsp = <<"kernel", p>> /\ p > Below(n) /\ Full(stack["kernel"], p)
      /\ stack["kernel"][p - Below(n)] = code
      /\ n > 3 => regs["rsi"] = code
      /\ n > 4 => regs["rdi"] = Const(v)
  BY Zenon DEF IInv, ErrorStubOK
<1>4. Instr = StubWithError(v)[n]
  BY <1>1, <1>2, CodeFacts, Zenon DEF Instr
<1>5. Does(Instr)
  BY <1>1, Instruction, Zenon
<1>6. ASSUME n \in 1 .. 4, pc' = <<c, n + 1>>, TypeOK', TablesFull', Entries', UNCHANGED entry,
             rsp' = <<"kernel", rsp'[2]>>, rsp'[2] > Below(n + 1),
             Full(stack'["kernel"], rsp'[2]),
             stack'["kernel"][rsp'[2] - Below(n + 1)] = code,
             n + 1 > 3 => regs'["rsi"] = code,
             n + 1 > 4 => regs'["rdi"] = Const(v)
      PROVE  IInv'
  <2> HIDE DEF c, n, p, code
  <2>1. pc'[1] = c /\ pc'[2] = n + 1 /\ n + 1 \in 1 .. 5 /\ n + 1 \in 1 .. 28
    BY <1>6
  <2>2. v = VectorOf(c) /\ code = ErrorCode(v)
    BY Zenon DEF c, code
  <2> HIDE DEF v
  <2>3. ErrorStubOK'
    BY <1>3, <1>6, <2>1, <2>2, Zenon DEF ErrorStubOK
  <2>4. /\ c # "enter_user" /\ c # "syscall_entry" /\ c # "generic_fault_handler"
        /\ c \notin {"isr_0", "isr_1", "isr_6"}
    BY <1>1, Zenon
  <2> QED
    BY <1>1, <1>6, <2>1, <2>3, <2>4, CodeInv
<1>7. p \in Nat /\ n \in 1 .. 27 /\ ~StackFault
  BY <1>3, NoStackFault DEF Full
<1> HIDE DEF c, n, p, v, code
<1>8. ASSUME NEW x, Goes(Pushing(x)), n \in 1 .. 2
      PROVE  IInv'
  <2>1. Pushing(x)
    BY <1>8, Zenon DEF Goes
  <2>2. /\ regs' = [q \in Regs |-> regs'[q]] /\ regs' = regs
        /\ rsp' = <<"kernel", p + 1>>
        /\ stack' = [q \in Stacks |-> stack'[q]]
        /\ \A q \in Stacks \ {"kernel"} : stack'[q] = stack[q]
        /\ Full(stack'["kernel"], p + 1)
        /\ \A k \in 1 .. p : stack'["kernel"][k] = stack["kernel"][k]
    BY <1>1, <1>3, <2>1, PushOne
  <2>3. /\ pc' = <<c, n + 1>> /\ TypeOK' /\ TablesFull' /\ Entries' /\ UNCHANGED entry
    BY <1>1, <1>2, <1>7, <1>8, <2>2, GoesFacts, Zenon
  <2>4. Below(n) = n - 1 /\ Below(n + 1) = n
    BY <1>8 DEF Below
  <2>5. rsp'[2] = p + 1 /\ rsp'[2] > Below(n + 1) /\ rsp'[2] - Below(n + 1) = p - Below(n)
        /\ p - Below(n) \in 1 .. p
    BY <1>3, <1>7, <1>8, <2>2, <2>4
  <2>6. stack'["kernel"][rsp'[2] - Below(n + 1)] = code
    BY <1>3, <2>2, <2>5, Zenon
  <2>7. rsp' = <<"kernel", rsp'[2]>> /\ Full(stack'["kernel"], rsp'[2])
    BY <2>2, <2>5, Zenon
  <2>8. ~(n + 1 > 3) /\ ~(n + 1 > 4) /\ n \in 1 .. 4
    BY <1>8
  <2> QED
    BY <1>6, <2>3, <2>5, <2>6, <2>7, <2>8, Zenon
<1>9. ASSUME NEW q \in Regs, NEW x, Goes(Setting(q, x)), n \in 3 .. 4,
             n = 3 => q = "rsi" /\ x = code,
             n = 4 => q = "rdi" /\ x = Const(v)
      PROVE  IInv'
  <2>1. Setting(q, x)
    BY <1>9, Zenon DEF Goes
  <2>2. /\ regs' = [r \in Regs |-> regs'[r]] /\ regs'[q] = x
        /\ \A r \in Regs \ {q} : regs'[r] = regs[r]
        /\ rsp' = rsp /\ stack' = stack /\ stack' = [s \in Stacks |-> stack'[s]]
    BY <1>9, <2>1, SetOne, Zenon
  <2>3. /\ pc' = <<c, n + 1>> /\ TypeOK' /\ TablesFull' /\ Entries' /\ UNCHANGED entry
    BY <1>1, <1>2, <1>7, <1>9, <2>2, GoesFacts, Zenon
  <2>4. Below(n) = 2 /\ Below(n + 1) = 2
    BY <1>9 DEF Below
  <2>5. rsp'[2] = p
    BY <1>3, <2>2, Zenon
  <2>6. n + 1 > 3 => regs'["rsi"] = code
    BY <1>3, <1>9, <2>2 DEF Regs
  <2>7. n + 1 > 4 => regs'["rdi"] = Const(v)
    BY <1>9, <2>2
  <2>8. n \in 1 .. 4
    BY <1>9
  <2> QED
    BY <1>3, <1>6, <2>2, <2>3, <2>4, <2>5, <2>6, <2>7, <2>8, Zenon
<1>10. "rsi" \in Regs /\ "rdi" \in Regs
  BY Zenon DEF Regs
<1>11. CASE n = 1
  <2>1. Instr[1] = "push"
    BY <1>4, <1>11, ErrorStubCode
  <2> QED
    BY <1>5, <1>7, <1>8, <1>11, <2>1 DEF Does
<1>12. CASE n = 2
  <2>1. Instr[1] = "push"
    BY <1>4, <1>12, ErrorStubCode
  <2> QED
    BY <1>5, <1>7, <1>8, <1>12, <2>1 DEF Does
<1>13. CASE n = 3
  <2>1. Instr = <<"load", "rsi", 2>>
    BY <1>4, <1>13, ErrorStubCode, Zenon
  <2>2. Word(2) = code
    <3>1. Below(n) = 2 /\ 2 \in 0 .. (p - 1)
      BY <1>3, <1>7, <1>13 DEF Below
    <3> QED
      BY <1>3, <1>7, <3>1, WordFacts, Zenon
  <2>3. Goes(Setting("rsi", Word(2)))
    BY <1>5, <2>1, Zenon DEF Does
  <2> QED
    BY <1>9, <1>10, <1>13, <2>2, <2>3
<1>14. CASE n = 4
  <2>1. Instr = <<"mov_const", "rdi", v>>
    BY <1>4, <1>14, ErrorStubCode, Zenon
  <2>2. Goes(Setting("rdi", Const(v)))
    BY <1>5, <2>1, Zenon DEF Does
  <2> QED
    BY <1>9, <1>10, <1>14, <2>2
<1>15. CASE n = 5
  <2>1. Instr = Report
    BY <1>4, <1>15, ErrorStubCode, Zenon
  <2>2. regs["rdi"] = Const(v) /\ Const(v)[1] = "const" /\ Const(v)[2] = v /\ Const(1)[2] = 1
    BY <1>3, <1>15 DEF Const
  <2>3. ~ReportDebug
    BY <1>1, <2>2 DEF ReportDebug
  <2>4. ReportAndHalt
    BY <1>5, <1>7, <2>1, <2>3, Zenon DEF Does
  <2> QED
    BY <1>1, <1>2, <1>3, <2>4, HaltStep, Zenon
<1> QED
  BY <1>3, <1>11, <1>12, <1>13, <1>14, <1>15

\* What StubOK says of the stack and the registers before instruction n, with
\* x for the words, e for user mode's registers and v for the vector.
StubStack(n, p, s, x) ==
  /\ p = <<"kernel", StubDepth(n)>>
  /\ Full(s, StubDepth(n))
  /\ \A k \in 2 .. StubDepth(n) : s[k] = x[k]

StubRegs(n, g, e, v) ==
  /\ \A r \in CalleeSaved \cup {"rip", "rflags"} : g[r] = e[r]
  /\ n <= 2 \/ n > 8 => g["rax"] = e["rax"]
  /\ n <= 3 \/ n > 7 => g["rdi"] = e["rdi"]
  /\ n \in 5 .. 6 => g["rdi"] = Const(v)
  /\ n = 6 => g["rsi"] = Const(0)

LEMMA StubAt ==
  ASSUME IInv, pc[1] \in {"isr_0", "isr_1", "isr_6"}
  PROVE  /\ pc = <<pc[1], pc[2]>> /\ pc[2] \in 1 .. (IF pc[1] = "isr_1" THEN 10 ELSE 6)
         /\ entry.kind = "user_fault" /\ entry.vector = VectorOf(pc[1])
         /\ entry.state = IF pc[2] <= 6 THEN "entered" ELSE "reported"
         /\ StubStack(pc[2], rsp, stack["kernel"], StubWords)
         /\ StubRegs(pc[2], regs, entry.regs, entry.vector)
         /\ entry.regs = UserRegs(turn) /\ entry.rsp = <<"user", 0>>
         /\ regs = [r \in Regs |-> regs[r]] /\ stack = [s \in Stacks |-> stack[s]]
         /\ TablesFull /\ ~StackFault
         /\ Instr = StubWithoutError(VectorOf(pc[1]))[pc[2]]
<1>1. pc[1] \in Codes /\ StubOK /\ TypeOK /\ Entries
  BY Zenon DEF Codes, IInv
<1>2. pc = <<pc[1], pc[2]>> /\ TablesFull
  BY <1>1, InsideFacts, Zenon
<1>3. Instr = StubWithoutError(VectorOf(pc[1]))[pc[2]]
  BY <1>1, CodeFacts, Zenon DEF Instr
<1>4. StubStack(pc[2], rsp, stack["kernel"], StubWords)
  BY <1>1, Zenon DEF StubOK, StubStack
<1>5. StubRegs(pc[2], regs, entry.regs, entry.vector)
  BY <1>1, Zenon DEF StubOK, StubRegs
<1>6. ~StackFault
  BY <1>4, NoStackFault, Zenon DEF StubStack
<1>7. /\ pc[2] \in 1 .. (IF pc[1] = "isr_1" THEN 10 ELSE 6)
      /\ entry.kind = "user_fault" /\ entry.vector = VectorOf(pc[1])
      /\ entry.state = IF pc[2] <= 6 THEN "entered" ELSE "reported"
  BY <1>1, Zenon DEF StubOK
<1>8. /\ entry.regs = UserRegs(turn) /\ entry.rsp = <<"user", 0>>
      /\ regs = [r \in Regs |-> regs[r]] /\ stack = [s \in Stacks |-> stack[s]]
  BY <1>1, <1>7 DEF Entries, TypeOK
<1> QED
  BY <1>2, <1>3, <1>4, <1>5, <1>6, <1>7, <1>8, Zenon

LEMMA StubNextAt ==
  ASSUME NEW c \in {"isr_0", "isr_1", "isr_6"}, NEW n \in 1 .. (IF c = "isr_1" THEN 10 ELSE 6),
         pc' = <<c, n>>, TypeOK', TablesFull', Entries',
         entry'.kind = "user_fault", entry'.vector = VectorOf(c),
         entry'.state = (IF n <= 6 THEN "entered" ELSE "reported"),
         StubStack(n, rsp', stack'["kernel"], StubWords'),
         StubRegs(n, regs', entry'.regs, entry'.vector)
  PROVE  IInv'
<1>1. pc'[1] = c /\ pc'[2] = n /\ c \in Codes /\ n \in 1 .. 28
  BY DEF Codes
<1>2. StubOK'
  BY <1>1, Zenon DEF StubOK, StubStack, StubRegs
<1>3. c # "enter_user" /\ c # "syscall_entry" /\ c # "generic_fault_handler"
      /\ c \notin {"isr_13", "isr_14"}
  BY Zenon
<1> QED
  BY <1>1, <1>2, <1>3, CodeInv, Zenon

LEMMA StubDepthFacts ==
  /\ \A n \in 1 .. 3 : StubDepth(n) = n + 4 /\ StubDepth(n + 1) = n + 5
  /\ \A n \in 4 .. 6 : StubDepth(n) = 8 /\ StubDepth(n + 1) = 8
  /\ \A n \in 7 .. 9 : StubDepth(n) = 15 - n /\ StubDepth(n + 1) = 14 - n
  /\ StubDepth(10) = 5
  BY DEF StubDepth

LEMMA StubWordFacts ==
  /\ StubWords[2] = entry.rsp /\ StubWords[3] = entry.regs["rflags"]
  /\ StubWords[4] = Const(entry.cs) /\ StubWords[5] = entry.regs["rip"]
  /\ StubWords[6] = Const(0) /\ StubWords[7] = entry.regs["rax"]
  /\ StubWords[8] = entry.regs["rdi"]
  BY Zenon DEF StubWords

\* The instructions before the call: a word of the stub's own, RAX and RDI are
\* pushed, and the parameters are set.
LEMMA StubSaveStep ==
  ASSUME IInv, Next, pc[1] \in {"isr_0", "isr_1", "isr_6"}, pc[2] \in 1 .. 5
  PROVE  IInv'
<1> DEFINE c == pc[1]
           n == pc[2]
           e == entry.regs
           v == VectorOf(pc[1])
           x == StubWords
<1>1. /\ pc = <<c, n>> /\ n \in 1 .. (IF c = "isr_1" THEN 10 ELSE 6)
      /\ entry.kind = "user_fault" /\ entry.vector = v
      /\ entry.state = IF n <= 6 THEN "entered" ELSE "reported"
      /\ StubStack(n, rsp, stack["kernel"], x)
      /\ StubRegs(n, regs, e, v)
      /\ TablesFull /\ ~StackFault
      /\ Instr = StubWithoutError(v)[n]
  BY StubAt, Zenon
<1>2. c \in Codes /\ c \in {"isr_0", "isr_1", "isr_6"} /\ c # "syscall_entry"
      /\ "kernel" \in Stacks /\ "user" \in Stacks \ {"kernel"}
      /\ "rsi" \in Regs /\ "rdi" \in Regs
  BY Zenon DEF Codes, Stacks, Regs
<1>3. n \in 1 .. 5 /\ n \in 1 .. 27 /\ n + 1 \in 1 .. (IF c = "isr_1" THEN 10 ELSE 6)
      /\ n <= 6 /\ n + 1 <= 6
  OBVIOUS
<1>4. Does(Instr)
  BY <1>2, Instruction, Zenon
<1>5. x[6] = Const(0) /\ x[7] = e["rax"] /\ x[8] = e["rdi"]
  BY StubWordFacts, Zenon
<1>6. ASSUME pc' = <<c, n + 1>>, TypeOK', TablesFull', Entries', UNCHANGED entry,
             StubStack(n + 1, rsp', stack'["kernel"], x),
             StubRegs(n + 1, regs', e, v)
      PROVE  IInv'
  <2>1. StubWords' = x /\ entry'.regs = e /\ entry'.vector = v
    BY <1>1, <1>6, Zenon DEF StubWords
  <2>2. v = VectorOf(c)
    BY Zenon
  <2> HIDE DEF c, n, e, v, x
  <2> QED
    BY <1>1, <1>2, <1>3, <1>6, <2>1, <2>2, StubNextAt
<1> HIDE DEF c, n, e, v, x
<1>7. ASSUME NEW w, Goes(Pushing(w)), n \in 1 .. 3, w = x[n + 5]
      PROVE  IInv'
  <2> DEFINE d == n + 4
  <2>1. Pushing(w)
    BY <1>7, Zenon DEF Goes
  <2>2. rsp = <<"kernel", d>> /\ Full(stack["kernel"], d) /\ d \in Nat
        /\ \A k \in 2 .. d : stack["kernel"][k] = x[k]
    BY <1>1, <1>7, StubDepthFacts DEF StubStack
  <2> HIDE DEF d
  <2>3. /\ regs' = [q \in Regs |-> regs'[q]] /\ regs' = regs
        /\ rsp' = <<"kernel", d + 1>>
        /\ stack' = [q \in Stacks |-> stack'[q]]
        /\ \A q \in Stacks \ {"kernel"} : stack'[q] = stack[q]
        /\ Full(stack'["kernel"], d + 1)
        /\ stack'["kernel"][d + 1] = w
        /\ \A k \in 1 .. d : stack'["kernel"][k] = stack["kernel"][k]
    BY <1>2, <2>1, <2>2, PushOne, Zenon
  <2>4. /\ pc' = <<c, n + 1>> /\ TypeOK' /\ TablesFull' /\ Entries' /\ UNCHANGED entry
    BY <1>1, <1>2, <1>3, <1>7, <2>3, GoesFacts, Zenon
  <2>5. d + 1 = n + 5 /\ StubDepth(n + 1) = n + 5
    BY <1>7, StubDepthFacts DEF d
  <2>6. \A k \in 2 .. (d + 1) : stack'["kernel"][k] = x[k]
    BY <1>7, <2>2, <2>3, <2>5
  <2>7. StubStack(n + 1, rsp', stack'["kernel"], x)
    BY <2>3, <2>5, <2>6, Zenon DEF StubStack
  <2>8. StubRegs(n + 1, regs', e, v)
    BY <1>1, <1>7, <2>3 DEF StubRegs
  <2> QED
    BY <1>6, <2>4, <2>7, <2>8, Zenon
<1>8. ASSUME NEW q \in Regs, NEW w, Goes(Setting(q, w)), n \in 4 .. 5,
             n = 4 => q = "rdi" /\ w = Const(v),
             n = 5 => q = "rsi" /\ w = Const(0)
      PROVE  IInv'
  <2>1. Setting(q, w)
    BY <1>8, Zenon DEF Goes
  <2>2. /\ regs' = [r \in Regs |-> regs'[r]] /\ regs'[q] = w
        /\ \A r \in Regs \ {q} : regs'[r] = regs[r]
        /\ rsp' = rsp /\ stack' = stack /\ stack' = [s \in Stacks |-> stack'[s]]
    BY <1>8, <2>1, SetOne, Zenon
  <2>3. /\ pc' = <<c, n + 1>> /\ TypeOK' /\ TablesFull' /\ Entries' /\ UNCHANGED entry
    BY <1>1, <1>2, <1>3, <1>8, <2>2, GoesFacts, Zenon
  <2>4. StubStack(n + 1, rsp', stack'["kernel"], x)
    BY <1>1, <1>8, <2>2, StubDepthFacts DEF StubStack
  <2>5. \A r \in CalleeSaved \cup {"rip", "rflags"} : r \in Regs \ {q}
    BY <1>8 DEF CalleeSaved, Regs
  <2>6. /\ n + 1 \in 5 .. 6 => regs'["rdi"] = Const(v)
        /\ n + 1 = 6 => regs'["rsi"] = Const(0)
    BY <1>1, <1>2, <1>8, <2>2 DEF StubRegs
  <2>7. StubRegs(n + 1, regs', e, v)
    BY <1>1, <1>8, <2>2, <2>5, <2>6 DEF StubRegs
  <2> QED
    BY <1>6, <2>3, <2>4, <2>7, Zenon
<1>9. CASE n = 1
  <2>1. Instr = <<"push_const", Const(0)>>
    BY <1>1, <1>9, StubCode, Zenon
  <2>2. Goes(Pushing(Const(0)))
    BY <1>1, <1>4, <2>1 DEF Does
  <2> QED
    BY <1>5, <1>7, <1>9, <2>2
<1>10. CASE n = 2
  <2>1. Instr = <<"push", "rax">>
    BY <1>1, <1>10, StubCode, Zenon
  <2>2. Goes(Pushing(regs["rax"]))
    BY <1>1, <1>4, <2>1 DEF Does
  <2>3. regs["rax"] = e["rax"]
    BY <1>1, <1>10 DEF StubRegs
  <2> QED
    BY <1>5, <1>7, <1>10, <2>2, <2>3
<1>11. CASE n = 3
  <2>1. Instr = <<"push", "rdi">>
    BY <1>1, <1>11, StubCode, Zenon
  <2>2. Goes(Pushing(regs["rdi"]))
    BY <1>1, <1>4, <2>1 DEF Does
  <2>3. regs["rdi"] = e["rdi"]
    BY <1>1, <1>11 DEF StubRegs
  <2> QED
    BY <1>5, <1>7, <1>11, <2>2, <2>3
<1>12. CASE n = 4
  <2>1. Instr = <<"mov_const", "rdi", v>>
    BY <1>1, <1>12, StubCode, Zenon
  <2>2. Goes(Setting("rdi", Const(v)))
    BY <1>4, <2>1, Zenon DEF Does
  <2> QED
    BY <1>2, <1>8, <1>12, <2>2
<1>13. CASE n = 5
  <2>1. Instr = <<"mov_const", "rsi", 0>>
    BY <1>1, <1>13, StubCode, Zenon
  <2>2. Goes(Setting("rsi", Const(0)))
    BY <1>4, <2>1, Zenon DEF Does
  <2> QED
    BY <1>2, <1>8, <1>13, <2>2
<1> QED
  BY <1>3, <1>9, <1>10, <1>11, <1>12, <1>13

\* handle_fault_with_vector comes back.
LEMMA ReportedFacts ==
  ASSUME IInv, NEW c \in Codes \ {"syscall_entry", "enter_user"}, NEW n \in 1 .. 27,
         pc = <<c, n>>, ReportDebug
  PROVE  /\ pc' = <<c, n + 1>> /\ TypeOK' /\ TablesFull' /\ Entries'
         /\ entry'.kind = entry.kind /\ entry'.vector = entry.vector /\ entry'.regs = entry.regs
         /\ entry'.rsp = entry.rsp /\ entry'.cs = entry.cs /\ entry'.state = "reported"
         /\ \A r \in CalleeSaved \cup {"rip", "rflags"} : regs'[r] = regs[r]
         /\ rsp' = rsp /\ stack' = stack
<1>1. /\ regs' = AfterCall(Junk) /\ Continue /\ entry' = [entry EXCEPT !.state = "reported"]
      /\ UNCHANGED <<rsp, cs, ss, stack, room, saved_user_rsp, turn, result, tableVars>>
  BY Zenon DEF ReportDebug
<1>2. pc' = <<c, n + 1>>
  BY <1>1, Zenon DEF Continue
<1>3. pc[1] \in Codes /\ pc[1] # "syscall_entry" /\ pc # Shutdown
  <2>1. pc[1] = c
    BY Zenon
  <2> QED
    BY <2>1, PcFacts, Zenon DEF Stops
<1>4. TypeOK /\ Entries /\ TablesFull
  BY <1>3, InsideFacts, Zenon DEF IInv
<1>5. entry = [kind |-> entry.kind, vector |-> entry.vector, regs |-> entry.regs,
               rsp |-> entry.rsp, cs |-> entry.cs, state |-> entry.state]
  BY <1>4, Zenon DEF TypeOK
<1>6. /\ entry'.kind = entry.kind /\ entry'.vector = entry.vector /\ entry'.regs = entry.regs
      /\ entry'.rsp = entry.rsp /\ entry'.cs = entry.cs /\ entry'.state = "reported"
      /\ entry' = [kind |-> entry'.kind, vector |-> entry'.vector, regs |-> entry'.regs,
                   rsp |-> entry'.rsp, cs |-> entry'.cs, state |-> entry'.state]
  BY <1>1, <1>5, Zenon
<1>7. regs' = [r \in Regs |-> regs'[r]]
  BY <1>1 DEF AfterCall
<1>8. TypeOK'
  <2>1. pc' \in {<<q, k>> : q \in Codes, k \in 1 .. 28}
    BY <1>2
  <2> QED
    BY <1>1, <1>4, <1>6, <1>7, <2>1 DEF TypeOK
<1>9. TablesFull'
  BY <1>1, <1>4, Zenon DEF TablesFull, tableVars
<1>10. Entries'
  <2>1. stack' = stack /\ turn' = turn /\ Full(stack["user"], 0) /\ entry'.state # "left"
    BY <1>1, <1>3, <1>4, <1>6, Zenon DEF Entries
  <2> QED
    BY <1>4, <1>6, <2>1, Zenon DEF Entries
<1>11. \A r \in CalleeSaved \cup {"rip", "rflags"} : regs'[r] = regs[r]
  BY <1>1, Zenon DEF AfterCall, Regs, CalleeSaved
<1> QED
  BY <1>1, <1>2, <1>6, <1>8, <1>9, <1>10, <1>11

LEMMA StubReportStep ==
  ASSUME IInv, Next, pc[1] \in {"isr_0", "isr_1", "isr_6"}, pc[2] = 6
  PROVE  IInv'
<1> DEFINE c == pc[1]
           e == entry.regs
           v == VectorOf(pc[1])
           x == StubWords
<1>1. /\ pc = <<c, 6>> /\ entry.kind = "user_fault" /\ entry.vector = v
      /\ StubStack(6, rsp, stack["kernel"], x)
      /\ StubRegs(6, regs, e, v)
      /\ TablesFull /\ ~StackFault
      /\ Instr = StubWithoutError(v)[6]
  BY StubAt, Zenon
<1>2. /\ c \in Codes \ {"syscall_entry", "enter_user"} /\ c \in {"isr_0", "isr_1", "isr_6"}
      /\ v = VectorOf(c) /\ (v = 1 <=> c = "isr_1")
  BY DEF Codes, VectorOf
<1>3. ReportDebug \/ ReportAndHalt
  <2>1. Instr = Report
    BY <1>1, StubCode, Zenon
  <2> QED
    BY <1>1, <1>2, <2>1, Instruction, Zenon DEF Does
<1>4. regs["rdi"] = Const(v) /\ Const(v)[1] = "const" /\ Const(v)[2] = v /\ Const(1)[2] = 1
  BY <1>1 DEF StubRegs, Const
<1>5. CASE c # "isr_1"
  <2>1. ~ReportDebug
    BY <1>2, <1>4, <1>5 DEF ReportDebug
  <2>2. entry.kind # "syscall"
    BY <1>1, Zenon
  <2> QED
    BY <1>1, <1>2, <1>3, <2>1, <2>2, HaltStep, Zenon
<1>6. CASE c = "isr_1"
  <2>1. ~ReportAndHalt
    BY <1>2, <1>4, <1>6, Zenon DEF ReportAndHalt
  <2>2. ReportDebug
    BY <1>3, <2>1, Zenon
  <2> HIDE DEF c, e, v, x
  <2>3. /\ pc' = <<c, 6 + 1>> /\ TypeOK' /\ TablesFull' /\ Entries'
        /\ entry'.kind = entry.kind /\ entry'.vector = entry.vector /\ entry'.regs = entry.regs
        /\ entry'.rsp = entry.rsp /\ entry'.cs = entry.cs /\ entry'.state = "reported"
        /\ \A r \in CalleeSaved \cup {"rip", "rflags"} : regs'[r] = regs[r]
        /\ rsp' = rsp /\ stack' = stack
    BY <1>1, <1>2, <2>2, ReportedFacts
  <2>4. StubWords' = x
    BY <2>3, Zenon DEF StubWords, x
  <2>5. StubStack(7, rsp', stack'["kernel"], StubWords')
    BY <1>1, <2>3, <2>4, StubDepthFacts DEF StubStack
  <2>6. StubRegs(7, regs', e, v)
    BY <1>1, <2>3 DEF StubRegs
  <2>7. entry'.regs = e /\ pc' = <<c, 7>>
    BY <2>3 DEF e
  <2> QED
    BY <1>1, <1>2, <1>6, <2>3, <2>5, <2>6, <2>7, StubNextAt
<1> QED
  BY <1>5, <1>6, Zenon

\* isr_1 pops what it pushed.
LEMMA StubRestoreStep ==
  ASSUME IInv, Next, pc[1] = "isr_1", pc[2] \in 7 .. 9
  PROVE  IInv'
<1> DEFINE n == pc[2]
           e == entry.regs
           x == StubWords
           d == 15 - n
<1>1. /\ pc = <<"isr_1", n>> /\ entry.kind = "user_fault" /\ entry.vector = VectorOf("isr_1")
      /\ entry.state = IF n <= 6 THEN "entered" ELSE "reported"
      /\ StubStack(n, rsp, stack["kernel"], x)
      /\ StubRegs(n, regs, e, entry.vector)
      /\ Instr = StubWithoutError(VectorOf("isr_1"))[n]
  BY StubAt, Zenon
<1>2. /\ "isr_1" \in Codes /\ "kernel" \in Stacks /\ "user" \in Stacks \ {"kernel"}
      /\ "rax" \in Regs /\ "rdi" \in Regs
  BY Zenon DEF Codes, Stacks, Regs
<1>3. n \in 7 .. 9 /\ n \in 1 .. 27 /\ n + 1 \in 1 .. 10 /\ d \in Nat \ {0} /\ d \in 6 .. 8
      /\ ~(n <= 6) /\ ~(n + 1 <= 6)
  OBVIOUS
<1>4. Does(Instr)
  BY <1>2, Instruction, Zenon
<1>5. x[7] = e["rax"] /\ x[8] = e["rdi"]
  BY StubWordFacts, Zenon
<1>6. ASSUME pc' = <<"isr_1", n + 1>>, TypeOK', TablesFull', Entries', UNCHANGED entry,
             StubStack(n + 1, rsp', stack'["kernel"], x),
             StubRegs(n + 1, regs', e, entry.vector)
      PROVE  IInv'
  <2>1. StubWords' = x /\ entry'.regs = e
    BY <1>6, Zenon DEF StubWords
  <2> HIDE DEF n, e, x
  <2> QED
    BY <1>1, <1>3, <1>6, <2>1, StubNextAt, Zenon
<1>7. /\ rsp = <<"kernel", d>> /\ Full(stack["kernel"], d)
      /\ \A k \in 2 .. d : stack["kernel"][k] = x[k]
  BY <1>1, <1>3, StubDepthFacts, Zenon DEF StubStack
<1> HIDE DEF n, e, x
<1>8. ASSUME rsp' = <<"kernel", d - 1>>, Full(stack'["kernel"], d - 1),
             \A k \in 1 .. (d - 1) : stack'["kernel"][k] = stack["kernel"][k]
      PROVE  StubStack(n + 1, rsp', stack'["kernel"], x)
  <2>1. StubDepth(n + 1) = d - 1
    BY <1>3, StubDepthFacts
  <2>2. \A k \in 2 .. (d - 1) : stack'["kernel"][k] = x[k]
    BY <1>3, <1>7, <1>8
  <2> QED
    BY <1>8, <2>1, <2>2, Zenon DEF StubStack
<1>9. ASSUME NEW q \in Regs, Goes(Popping(q)), (n = 7 /\ q = "rdi") \/ (n = 8 /\ q = "rax")
      PROVE  IInv'
  <2>1. Popping(q)
    BY <1>9, Zenon DEF Goes
  <2>2. x[d] = e[q]
    BY <1>5, <1>9
  <2>3. stack["kernel"][d] = x[d]
    BY <1>3, <1>7
  <2>4. d \in Nat \ {0}
    BY <1>3, Zenon
  <2> HIDE DEF d
  <2>5. /\ regs' = [r \in Regs |-> regs'[r]] /\ regs'[q] = stack["kernel"][d]
        /\ \A r \in Regs \ {q} : regs'[r] = regs[r]
        /\ rsp' = <<"kernel", d - 1>>
        /\ stack' = [t \in Stacks |-> stack'[t]]
        /\ \A t \in Stacks \ {"kernel"} : stack'[t] = stack[t]
        /\ Full(stack'["kernel"], d - 1)
        /\ \A k \in 1 .. (d - 1) : stack'["kernel"][k] = stack["kernel"][k]
    BY <1>2, <1>7, <1>9, <2>1, <2>4, PopInto
  <2>6. /\ pc' = <<"isr_1", n + 1>> /\ TypeOK' /\ TablesFull' /\ Entries' /\ UNCHANGED entry
    BY <1>1, <1>2, <1>3, <1>9, <2>5, GoesFacts, Zenon
  <2>7. \A r \in CalleeSaved \cup {"rip", "rflags"} : r \in Regs \ {q}
    BY <1>9, Zenon DEF CalleeSaved, Regs
  <2>8. regs'[q] = e[q]
    BY <2>2, <2>3, <2>5, Zenon
  <2>9. StubRegs(n + 1, regs', e, entry.vector)
    BY <1>1, <1>2, <1>9, <2>5, <2>7, <2>8 DEF StubRegs
  <2> QED
    BY <1>6, <1>8, <2>5, <2>6, <2>9, Zenon
<1>10. CASE n = 7
  <2>1. Instr = <<"pop", "rdi">>
    BY <1>1, <1>10, StubCode, Zenon
  <2>2. Goes(Popping("rdi"))
    BY <1>4, <2>1, Zenon DEF Does
  <2> QED
    BY <1>2, <1>9, <1>10, <2>2, Zenon
<1>11. CASE n = 8
  <2>1. Instr = <<"pop", "rax">>
    BY <1>1, <1>11, StubCode, Zenon
  <2>2. Goes(Popping("rax"))
    BY <1>4, <2>1, Zenon DEF Does
  <2> QED
    BY <1>2, <1>9, <1>11, <2>2, Zenon
<1>12. CASE n = 9
  <2>1. Instr[1] = "drop"
    BY <1>1, <1>12, StubCode
  <2>2. Goes(Dropping)
    BY <1>4, <2>1, Zenon DEF Does
  <2>3. DropWords(1) /\ regs' = regs
    BY <2>2, Zenon DEF Goes, Dropping
  <2>4. d \in Nat \ {0} /\ regs' = [r \in Regs |-> regs'[r]]
    BY <1>3, <2>3, Zenon DEF IInv, TypeOK
  <2> HIDE DEF d
  <2>5. /\ rsp' = <<"kernel", d - 1>>
        /\ stack' = [t \in Stacks |-> stack'[t]]
        /\ \A t \in Stacks \ {"kernel"} : stack'[t] = stack[t]
        /\ Full(stack'["kernel"], d - 1)
        /\ \A k \in 1 .. (d - 1) : stack'["kernel"][k] = stack["kernel"][k]
    BY <1>2, <1>7, <2>3, <2>4, PopOne, Zenon
  <2>6. /\ pc' = <<"isr_1", n + 1>> /\ TypeOK' /\ TablesFull' /\ Entries' /\ UNCHANGED entry
    BY <1>1, <1>2, <1>3, <2>2, <2>4, <2>5, GoesFacts, Zenon
  <2>7. StubRegs(n + 1, regs', e, entry.vector)
    <3>1. StubRegs(9, regs, e, entry.vector)
      BY <1>1, <1>12, Zenon
    <3>2. StubRegs(10, regs, e, entry.vector)
      BY <3>1 DEF StubRegs
    <3> QED
      BY <1>12, <2>3, <3>2
  <2> QED
    BY <1>6, <1>8, <2>5, <2>6, <2>7, Zenon
<1> QED
  BY <1>3, <1>10, <1>11, <1>12

\* Where iretq of isr_1 accepts the segments, user mode goes on as it was.
LEMMA StubReturnStep ==
  ASSUME IInv, Next, pc[1] = "isr_1", pc[2] = 10
  PROVE  IInv'
<1> DEFINE e == entry.regs
           x == StubWords
           sel(w) == IF w[1] = "const" THEN w[2] ELSE 0
<1>1. /\ entry.kind = "user_fault"
      /\ StubStack(10, rsp, stack["kernel"], x)
      /\ StubRegs(10, regs, e, entry.vector)
      /\ e = UserRegs(turn) /\ entry.rsp = <<"user", 0>>
      /\ regs = [r \in Regs |-> regs[r]] /\ stack = [s \in Stacks |-> stack[s]]
      /\ TablesFull
      /\ Instr = StubWithoutError(VectorOf("isr_1"))[10]
  BY StubAt, Zenon
<1>2. /\ "isr_1" \in Codes \ {"syscall_entry"} /\ "kernel" \in Stacks
      /\ "user" \in Stacks \ {"kernel"}
  BY Zenon DEF Codes, Stacks
<1>3. Iretq
  <2>1. Instr[1] = "iretq"
    BY <1>1, StubCode
  <2> QED
    BY <1>2, <2>1, Instruction, Zenon DEF Does
<1>4. /\ rsp = <<"kernel", 5>> /\ Full(stack["kernel"], 5)
      /\ \A k \in 2 .. 5 : stack["kernel"][k] = x[k]
  BY <1>1, StubDepthFacts, Zenon DEF StubStack
<1>5. /\ Word(0) = e["rip"] /\ Word(1) = Const(entry.cs)
      /\ Word(2) = e["rflags"] /\ Word(3) = <<"user", 0>>
  BY <1>1, <1>4, StubWordFacts DEF Word
<1>6. sel(Word(1)) = entry.cs
  BY <1>5 DEF Const
<1> HIDE DEF e, x
<1>7. CASE IsUserCode(gdt, sel(Word(1))) /\ IsUserData(gdt, sel(Word(4)))
  <2>1. /\ pc' = User
        /\ regs' = [regs EXCEPT !["rip"] = Word(0), !["rflags"] = Word(2)]
        /\ cs' = entry.cs /\ rsp' = <<"user", 0>>
        /\ Cut(5)
        /\ entry' = [entry EXCEPT !.state = "left"]
        /\ UNCHANGED <<room, saved_user_rsp, turn, result, tableVars>>
    BY <1>3, <1>5, <1>6, <1>7 DEF Iretq, Cut
  <2>2. Shorter("kernel", 5, 5)
    BY <1>1, <1>2, <1>4, <2>1, DropStep
  <2>3. regs' = [r \in Regs |-> IF r = "rflags" THEN e["rflags"]
                                ELSE IF r = "rip" THEN e["rip"] ELSE regs[r]]
    BY <1>1, <1>5, <2>1, Zenon
  <2>4. regs' = [r \in Regs |-> regs'[r]]
    BY <2>3, Zenon
  <2>5. /\ regs["rax"] = e["rax"] /\ regs["rdi"] = e["rdi"]
        /\ \A r \in CalleeSaved : regs[r] = e[r]
    <3>1. StubRegs(10, regs, e, entry.vector)
      BY <1>1, Zenon
    <3> QED
      BY <3>1 DEF StubRegs
  <2>6. \A r \in CalleeSaved \cup {"rax", "rdi", "rip", "rflags"} : regs'[r] = e[r]
    BY <2>3, <2>5, Zenon DEF CalleeSaved, Regs
  <2>7. /\ entry = [kind |-> entry.kind, vector |-> entry.vector, regs |-> entry.regs,
                    rsp |-> entry.rsp, cs |-> entry.cs, state |-> entry.state]
        /\ turn \in Nat /\ room \in Nat
    BY DEF IInv, TypeOK
  <2>8. /\ entry'.kind = "user_fault" /\ entry'.regs = e /\ entry'.rsp = <<"user", 0>>
        /\ entry'.cs = entry.cs
        /\ entry' = [kind |-> entry'.kind, vector |-> entry'.vector, regs |-> entry'.regs,
                     rsp |-> entry'.rsp, cs |-> entry'.cs, state |-> entry'.state]
    BY <1>1, <2>1, <2>7, Zenon DEF e
  <2>9. pc' \in Stops
    BY <2>1, Zenon DEF Stops
  <2>10. TypeOK'
    BY <2>1, <2>2, <2>4, <2>7, <2>8, <2>9 DEF TypeOK, Shorter
  <2>11. TablesFull'
    BY <1>1, <2>1, Zenon DEF TablesFull, tableVars
  <2>12. Entries'
    <3>1. pc # Shutdown /\ pc[1] # "syscall_entry"
      BY <1>2, PcFacts, Zenon DEF Stops
    <3>2. Full(stack["user"], 0) /\ stack'["user"] = stack["user"]
      BY <1>2, <2>2, <3>1, Zenon DEF IInv, Entries, Shorter
    <3>3. entry'.regs = UserRegs(turn')
      BY <1>1, <2>1, <2>8, Zenon
    <3> QED
      BY <2>1, <2>8, <3>2, <3>3, Zenon DEF Entries
  <2>13. UserStateKept' /\ DebugStateKept'
    <3>1. rsp' = entry'.rsp /\ cs' = entry'.cs /\ entry'.kind # "syscall"
      BY <2>1, <2>8, Zenon
    <3>2. \A r \in CalleeSaved \cup {"rax", "rdi", "rip", "rflags"} : regs'[r] = entry'.regs[r]
      BY <2>6, <2>8, Zenon
    <3> QED
      BY <3>1, <3>2, Zenon DEF UserStateKept, DebugStateKept
  <2> QED
    BY <2>1, <2>10, <2>11, <2>12, <2>13, UserInv, Zenon
<1>8. CASE ~(IsUserCode(gdt, sel(Word(1))) /\ IsUserData(gdt, sel(Word(4))))
  <2>1. Deliver(13, regs) /\ UNCHANGED <<turn, room>>
    BY <1>3, <1>8, Zenon DEF Iretq
  <2> QED
    BY <1>1, <1>2, <1>4, <2>1, IretqRefused
<1> QED
  BY <1>7, <1>8, Zenon

LEMMA StubStep ==
  ASSUME IInv, Next, pc[1] \in {"isr_0", "isr_1", "isr_6"}
  PROVE  IInv'
<1>1. pc[2] \in 1 .. (IF pc[1] = "isr_1" THEN 10 ELSE 6)
  BY StubAt, Zenon
<1>2. CASE pc[2] \in 1 .. 5
  BY <1>2, StubSaveStep, Zenon
<1>3. CASE pc[2] = 6
  BY <1>3, StubReportStep, Zenon
<1>4. CASE pc[1] = "isr_1" /\ pc[2] \in 7 .. 10
  BY <1>4, StubRestoreStep, StubReturnStep
<1> QED
  BY <1>1, <1>2, <1>3, <1>4

LEMMA GenericCode ==
  /\ generic_fault_handler[1] = <<"push", "rax">>
  /\ generic_fault_handler[2] = <<"push_const", Const(0)>>
  /\ generic_fault_handler[3] = <<"mov_const", "rax", 99>>
  /\ generic_fault_handler[4] = Report
  /\ generic_fault_handler[5] = <<"pop", "rax">> /\ generic_fault_handler[6] = <<"drop">>
  /\ generic_fault_handler[7] = <<"iretq">>
  BY Zenon DEF generic_fault_handler

LEMMA GenericDepthFacts ==
  /\ \A n \in 1 .. 2 : GenericDepth(n) = n + 5 /\ GenericDepth(n + 1) = n + 6
  /\ \A n \in 3 .. 4 : GenericDepth(n) = 8 /\ GenericDepth(n + 1) = 8
  /\ \A n \in 5 .. 6 : GenericDepth(n) = 13 - n /\ GenericDepth(n + 1) = 12 - n
  /\ GenericDepth(7) = 6
  BY DEF GenericDepth

\* generic_fault_handler leaves the error code of the double fault on the stack,
\* so that its iretq takes the return address for a selector, which is refused.
LEMMA GenericStep ==
  ASSUME IInv, Next, pc[1] = "generic_fault_handler"
  PROVE  IInv'
<1> DEFINE c == "generic_fault_handler"
           n == pc[2]
           d == GenericDepth(pc[2])
           w == entry.regs["rip"]
<1>1. /\ c \in Codes \ {"syscall_entry", "enter_user"} /\ c \in Codes
      /\ "kernel" \in Stacks /\ "user" \in Stacks \ {"kernel"} /\ "rax" \in Regs
  BY Zenon DEF Codes, Stacks, Regs
<1>2. pc = <<c, n>> /\ TablesFull
  BY <1>1, InsideFacts, Zenon
<1>3. /\ n \in 1 .. 7 /\ entry.kind = "user_fault" /\ entry.vector = 8
      /\ entry.state = (IF n <= 4 THEN "entered" ELSE "reported")
      /\ rsp = <<"kernel", d>> /\ Full(stack["kernel"], d) /\ stack["kernel"][5] = w
  BY Zenon DEF IInv, GenericOK
<1>4. Instr = generic_fault_handler[n]
  BY CodeFacts, Zenon DEF Instr
<1>5. Does(Instr)
  BY <1>1, Instruction, Zenon
<1>6. ASSUME n \in 1 .. 6, pc' = <<c, n + 1>>, TypeOK', TablesFull', Entries',
             entry'.kind = "user_fault", entry'.vector = 8, entry'.regs = entry.regs,
             entry'.state = (IF n + 1 <= 4 THEN "entered" ELSE "reported"),
             rsp' = <<"kernel", GenericDepth(n + 1)>>,
             Full(stack'["kernel"], GenericDepth(n + 1)),
             stack'["kernel"][5] = w
      PROVE  IInv'
  <2>1. w = entry'.regs["rip"]
    BY <1>6, Zenon
  <2> HIDE DEF n, w
  <2>2. pc'[1] = c /\ pc'[2] = n + 1 /\ n + 1 \in 1 .. 7 /\ n + 1 \in 1 .. 28
    BY <1>6
  <2>3. GenericOK'
    BY <1>6, <2>1, <2>2, Zenon DEF GenericOK
  <2> QED
    BY <1>1, <1>6, <2>2, <2>3, CodeInv
<1>7. /\ d \in 6 .. 8 /\ d \in Nat \ {0} /\ n \in 1 .. 27 /\ ~StackFault
      /\ n \in 5 .. 6 => d \in 7 .. 8
  <2>1. ~StackFault
    BY <1>3, NoStackFault, Zenon
  <2> QED
    BY <1>3, <2>1 DEF GenericDepth
<1>8. n \in 1 .. 3 \cup 5 .. 6 => (n <= 4 <=> n + 1 <= 4)
  OBVIOUS
<1> HIDE DEF n, d, w
<1>9. ASSUME NEW x, Goes(Pushing(x)), n \in 1 .. 2
      PROVE  IInv'
  <2>1. Pushing(x)
    BY <1>9, Zenon DEF Goes
  <2>2. /\ regs' = [q \in Regs |-> regs'[q]] /\ regs' = regs
        /\ rsp' = <<"kernel", d + 1>>
        /\ stack' = [q \in Stacks |-> stack'[q]]
        /\ \A q \in Stacks \ {"kernel"} : stack'[q] = stack[q]
        /\ Full(stack'["kernel"], d + 1)
        /\ \A k \in 1 .. d : stack'["kernel"][k] = stack["kernel"][k]
    BY <1>1, <1>3, <2>1, PushOne
  <2>3. /\ pc' = <<c, n + 1>> /\ TypeOK' /\ TablesFull' /\ Entries' /\ UNCHANGED entry
    BY <1>1, <1>2, <1>7, <1>9, <2>2, GoesFacts, Zenon
  <2>4. GenericDepth(n + 1) = d + 1
    BY <1>9, GenericDepthFacts DEF d, n
  <2>5. stack'["kernel"][5] = w
    BY <1>3, <1>7, <2>2
  <2> QED
    BY <1>3, <1>6, <1>8, <1>9, <2>2, <2>3, <2>4, <2>5
<1>10. ASSUME Goes(Setting("rax", Const(99))), n = 3
       PROVE  IInv'
  <2>1. Setting("rax", Const(99))
    BY <1>10, Zenon DEF Goes
  <2>2. /\ regs' = [r \in Regs |-> regs'[r]]
        /\ rsp' = rsp /\ stack' = stack /\ stack' = [s \in Stacks |-> stack'[s]]
    BY <1>1, <2>1, SetOne, Zenon
  <2>3. /\ pc' = <<c, n + 1>> /\ TypeOK' /\ TablesFull' /\ Entries' /\ UNCHANGED entry
    BY <1>1, <1>2, <1>7, <1>10, <2>2, GoesFacts
  <2>4. GenericDepth(n + 1) = d
    BY <1>10, GenericDepthFacts DEF d, n
  <2> QED
    BY <1>3, <1>6, <1>8, <1>10, <2>2, <2>3, <2>4
<1>11. ASSUME NEW A, Goes(A), DropWords(1), regs' = [r \in Regs |-> regs'[r]], n \in 5 .. 6
       PROVE  IInv'
  <2>1. /\ rsp' = <<"kernel", d - 1>>
        /\ stack' = [t \in Stacks |-> stack'[t]]
        /\ \A t \in Stacks \ {"kernel"} : stack'[t] = stack[t]
        /\ Full(stack'["kernel"], d - 1)
        /\ \A k \in 1 .. (d - 1) : stack'["kernel"][k] = stack["kernel"][k]
    BY <1>1, <1>3, <1>7, <1>11, PopOne
  <2>2. /\ pc' = <<c, n + 1>> /\ TypeOK' /\ TablesFull' /\ Entries' /\ UNCHANGED entry
    BY <1>1, <1>2, <1>7, <1>11, <2>1, GoesFacts
  <2>3. GenericDepth(n + 1) = d - 1
    BY <1>11, GenericDepthFacts DEF d, n
  <2>4. stack'["kernel"][5] = w
    BY <1>3, <1>7, <1>11, <2>1
  <2> QED
    BY <1>3, <1>6, <1>8, <1>11, <2>1, <2>2, <2>3, <2>4
<1>12. CASE n = 1
  <2>1. Instr[1] = "push"
    BY <1>4, <1>12, GenericCode
  <2> QED
    BY <1>5, <1>7, <1>9, <1>12, <2>1 DEF Does
<1>13. CASE n = 2
  <2>1. Instr[1] = "push_const"
    BY <1>4, <1>13, GenericCode
  <2> QED
    BY <1>5, <1>7, <1>9, <1>13, <2>1 DEF Does
<1>14. CASE n = 3
  <2>1. Instr = <<"mov_const", "rax", 99>>
    BY <1>4, <1>14, GenericCode, Zenon
  <2> QED
    BY <1>5, <1>10, <1>14, <2>1, Zenon DEF Does
<1>15. CASE n = 4
  <2>1. Instr = Report
    BY <1>4, <1>15, GenericCode, Zenon
  <2>2. ReportDebug \/ ReportAndHalt
    BY <1>5, <1>7, <2>1, Zenon DEF Does
  <2>3. CASE ReportDebug
    <3>1. /\ pc' = <<c, n + 1>> /\ TypeOK' /\ TablesFull' /\ Entries'
          /\ entry'.kind = entry.kind /\ entry'.vector = entry.vector
          /\ entry'.regs = entry.regs /\ entry'.state = "reported"
          /\ rsp' = rsp /\ stack' = stack
      BY <1>1, <1>2, <1>7, <2>3, ReportedFacts
    <3>2. GenericDepth(n + 1) = d
      BY <1>15, GenericDepthFacts DEF d, n
    <3> QED
      BY <1>3, <1>6, <1>15, <3>1, <3>2
  <2>4. CASE ReportAndHalt
    BY <1>1, <1>2, <1>3, <2>4, HaltStep, Zenon
  <2> QED
    BY <2>2, <2>3, <2>4, Zenon
<1>16. CASE n = 5
  <2>1. Instr = <<"pop", "rax">>
    BY <1>4, <1>16, GenericCode, Zenon
  <2>2. Goes(Popping("rax"))
    BY <1>5, <2>1, Zenon DEF Does
  <2>3. DropWords(1) /\ regs' = [r \in Regs |-> regs'[r]]
    BY <2>2, Zenon DEF Goes, Popping, IInv, TypeOK
  <2> QED
    BY <1>11, <1>16, <2>2, <2>3
<1>17. CASE n = 6
  <2>1. Instr[1] = "drop"
    BY <1>4, <1>17, GenericCode
  <2>2. Goes(Dropping)
    BY <1>5, <2>1, Zenon DEF Does
  <2>3. DropWords(1) /\ regs' = [r \in Regs |-> regs'[r]]
    BY <2>2, Zenon DEF Goes, Dropping, IInv, TypeOK
  <2> QED
    BY <1>11, <1>17, <2>2, <2>3
<1>18. CASE n = 7
  <2>1. Instr[1] = "iretq"
    BY <1>4, <1>18, GenericCode
  <2>2. Iretq
    BY <1>5, <2>1, Zenon DEF Does
  <2>3. rsp = <<"kernel", 6>> /\ Full(stack["kernel"], 6)
    BY <1>3, <1>18, GenericDepthFacts, Zenon DEF d, n
  <2>4. Word(1) = w
    <3>1. 1 \in 0 .. (6 - 1) /\ 6 - 1 = 5
      OBVIOUS
    <3>2. Word(1) = stack["kernel"][6 - 1]
      BY <2>3, <3>1, WordFacts, Zenon
    <3> QED
      BY <1>3, <3>1, <3>2, Zenon
  <2>5. w = UserValue(turn, "rip")
    <3>1. entry.regs = UserRegs(turn)
      BY <1>3, Zenon DEF IInv, Entries
    <3> QED
      BY <3>1, Zenon DEF UserRegs, Regs, w
  <2>6. Word(1)[1] # "const"
    BY <2>4, <2>5 DEF UserValue
  <2>7. ~IsUserCode(gdt, 0)
    BY <1>2, SelectorFacts, Zenon DEF TablesFull
  <2>8. Deliver(13, regs) /\ UNCHANGED <<turn, room>>
    BY <2>2, <2>6, <2>7, Zenon DEF Iretq
  <2> QED
    BY <1>1, <1>2, <2>3, <2>8, IretqRefused, Zenon
<1> QED
  BY <1>3, <1>12, <1>13, <1>14, <1>15, <1>16, <1>17, <1>18

-----------------------------------------------------------------------------
(***************************************************************************)
(* User mode, and the whole.                                               *)
(***************************************************************************)

LEMMA UserAt ==
  ASSUME IInv, pc = User
  PROVE  /\ rsp = <<"user", 0>> /\ Full(stack["user"], 0) /\ TablesFull
         /\ stack = [q \in Stacks |-> stack[q]] /\ turn \in Nat /\ room \in Nat
<1>1. pc \notin BootPcs /\ pc # Shutdown /\ pc[1] # "syscall_entry"
  BY PcFacts, Zenon DEF Stops, Codes
<1>2. rsp = <<"user", 0>> /\ stack = [q \in Stacks |-> stack[q]] /\ turn \in Nat /\ room \in Nat
  BY DEF IInv, UserOK, TypeOK
<1>3. Full(stack["user"], 0)
  BY <1>1, Zenon DEF IInv, Entries
<1>4. TablesFull
  BY <1>1, Zenon DEF IInv, TablesOK, TablesFull, BootPcs
<1> QED
  BY <1>2, <1>3, <1>4, Zenon

LEMMA SyscallUserStep == ASSUME IInv, Syscall /\ UNCHANGED tableVars PROVE IInv'
<1>1. /\ rsp = <<"user", 0>> /\ Full(stack["user"], 0) /\ TablesFull
      /\ stack = [q \in Stacks |-> stack[q]] /\ turn \in Nat
  BY UserAt, Zenon DEF Syscall
<1> DEFINE e == UserRegs(turn')
           a == UserValue(turn', "rip")
           f == UserValue(turn', "rflags")
<1>2. /\ turn' = NextTurn /\ room' \in UserRooms
      /\ regs' = [e EXCEPT !["rcx"] = a, !["r11"] = f]
      /\ entry' = [kind |-> "syscall", vector |-> -1, regs |-> e,
                   rsp |-> rsp, cs |-> cs, state |-> "entered"]
      /\ pc' = <<"syscall_entry", 1>>
      /\ UNCHANGED <<rsp, stack, saved_user_rsp, result, tableVars>>
  BY Zenon DEF Syscall, Start
<1>3. turn' \in Nat /\ room' \in Nat
  BY <1>1, <1>2, EntryAssumption DEF NextTurn
<1>4. e = [r \in Regs |-> e[r]] /\ e["rip"] = a /\ e["rflags"] = f
  BY Zenon DEF UserRegs, Regs
<1>5. /\ entry'.kind = "syscall" /\ entry'.regs = e /\ entry'.rsp = <<"user", 0>>
      /\ entry'.state = "entered" /\ "syscall_entry" \in Codes
  BY <1>1, <1>2, Zenon DEF Codes
<1>6. entry' = [kind |-> entry'.kind, vector |-> entry'.vector, regs |-> entry'.regs,
                rsp |-> entry'.rsp, cs |-> entry'.cs, state |-> entry'.state]
  BY <1>2, Zenon
<1>7. Entries'
  BY <1>2, <1>5, Zenon DEF Entries
<1> HIDE DEF e, a, f
<1>8. regs' = [r \in Regs |-> IF r = "r11" THEN f ELSE IF r = "rcx" THEN a ELSE e[r]]
  BY <1>2, <1>4, Zenon
<1>9. regs' = [r \in Regs |-> regs'[r]]
  BY <1>8
<1>10. TypeOK'
  <2>1. pc' \in {<<q, k>> : q \in Codes, k \in 1 .. 28}
    BY <1>2, <1>5
  <2> QED
    BY <1>1, <1>2, <1>3, <1>6, <1>9, <2>1 DEF TypeOK
<1>11. TablesFull'
  BY <1>1, <1>2, Zenon DEF TablesFull, tableVars
<1>12. SyscallStack(1, rsp', stack'["user"], e)
  BY <1>1, <1>2, DepthFacts DEF SyscallStack
<1>13. SyscallRegs(1, regs', e, result')
  <2>1. \A r \in Regs : regs'[r] = e[Source(r)]
    BY <1>4, <1>8, Zenon DEF Source
  <2>2. \A r \in Regs : Moved(1, r) = Source(r)
    <3>1. 1 \in 1 .. 12
      OBVIOUS
    <3> QED
      BY <3>1, MovedFacts, Zenon
  <2> QED
    BY <2>1, <2>2 DEF SyscallRegs
<1> QED
  BY <1>2, <1>5, <1>7, <1>10, <1>11, <1>12, <1>13, SyscallNextAt

LEMMA UserFaultStep == ASSUME IInv, UserFault PROVE IInv'
<1>1. /\ rsp = <<"user", 0>> /\ Full(stack["user"], 0) /\ TablesFull
      /\ stack = [q \in Stacks |-> stack[q]] /\ turn \in Nat /\ room \in Nat
  BY UserAt, Zenon DEF UserFault
<1>2. PICK v \in UserFaults : Deliver(Raised(v), UserRegs(turn'))
  BY Zenon DEF UserFault
<1>3. pc = User /\ turn' \in Nat /\ room' \in Nat
  BY <1>1 DEF UserFault, NextTurn
<1>4. Raised(v) \in 0 .. 31 /\ Raised(v) # 3
  <2>1. v \in 0 .. 31
    BY <1>2, FaultAssumption, Zenon
  <2>2. "DPL3" \notin idt[3].type_attr
    BY <1>1, IdtFacts, StubFacts, Zenon DEF TablesFull
  <2> QED
    BY <2>1, <2>2 DEF Raised
<1> DEFINE d == Found(Raised(v))
           r == UserRegs(turn')
<1>5. d \in {0, 1, 6, 8, 13, 14}
  BY <1>4, StubFacts, Zenon DEF Found
<1>6. Entered(d, 0, r)
  BY <1>1, <1>2, <1>3, <1>4, DeliverEnters
<1>7. r = [q \in Regs |-> r[q]]
  BY Zenon DEF UserRegs
<1> HIDE DEF d
<1> QED
  BY <1>1, <1>3, <1>5, <1>6, <1>7, EnteredInv

LEMMA NextInv == IInv /\ [Next]_vars => IInv'
<1> SUFFICES ASSUME IInv, [Next]_vars PROVE IInv'
  BY Zenon
<1>1. CASE UNCHANGED vars
  <2>1. UNCHANGED <<pc, regs, rsp, cs, ss, stack, room, saved_user_rsp, turn, entry, result,
                    gdt, tr, tss, idt>>
    BY <1>1 DEF vars, cpuVars, entryVars, tableVars
  <2>2. TypeOK' /\ TablesOK' /\ Entries' /\ BootOK'
    BY <2>1 DEF IInv, TypeOK, TablesOK, Entries, BootOK
  <2>3. UserOK' /\ StopOK'
    BY <2>1, Zenon DEF IInv, UserOK, UserStateKept, DebugStateKept, StopOK
  <2>4. SyscallOK'
    BY <2>1, Zenon DEF IInv, SyscallOK
  <2>5. StubOK'
    BY <2>1, Zenon DEF IInv, StubOK, StubWords
  <2>6. ErrorStubOK' /\ GenericOK'
    BY <2>1, Zenon DEF IInv, ErrorStubOK, GenericOK
  <2> QED
    BY <2>2, <2>3, <2>4, <2>5, <2>6 DEF IInv
<1>2. CASE Next
  <2>1. CASE pc[1] \in Codes
    <3>1. pc[1] \in {"enter_user", "syscall_entry", "generic_fault_handler"}
                  \cup {"isr_0", "isr_1", "isr_6"} \cup {"isr_13", "isr_14"}
      BY <2>1, Zenon DEF Codes
    <3> QED
      BY <1>2, <3>1, EnterStep, SyscallEntryStep, GenericStep, StubStep, ErrorStubStep
  <2>2. CASE pc[1] \notin Codes
    <3>1. ~InCode
      BY <2>2, CodeFacts, Zenon DEF InCode
    <3>2. Boot \/ (Syscall /\ UNCHANGED tableVars) \/ UserFault
      BY <1>2, <3>1 DEF Next, Kernel, StackFault, DispatchFault,
        ReportDebug, ReportAndHalt, Iretq
    <3> QED
      BY <3>2, BootStep, SyscallUserStep, UserFaultStep, Zenon
  <2> QED
    BY <2>1, <2>2, Zenon
<1> QED
  BY <1>1, <1>2, Zenon

\* At each instruction of syscall_entry, enter_user and the stubs of the IDT, the
\* stack and the registers are what IInv says, and the tables are those that the
\* boot wrote.
THEOREM FaultEntryInvariant == Spec => []IInv
  BY InitInv, NextInv, PTL DEF Spec

\* User mode continues behind its SYSCALL with the result in RAX and with its
\* stack pointer, its flags and the registers that syscall_entry saves, whatever
\* syscall_dispatch did, for every room on the user's stack.
THEOREM UserStateKeptTheorem == Spec => []UserStateKept
<1>1. IInv => UserStateKept
  <2> SUFFICES ASSUME IInv, entry.kind = "syscall", entry.state = "left" PROVE UserStateKept
    BY Zenon DEF UserStateKept
  <2>1. pc \notin BootPcs /\ pc[1] # "enter_user"
    BY Zenon DEF IInv, BootOK
  <2>2. pc = User
    BY <2>1, Zenon DEF IInv, Entries
  <2> QED
    BY <2>2, Zenon DEF IInv, UserOK
<1> QED
  BY <1>1, FaultEntryInvariant, PTL

\* syscall_dispatch is called with the number of the system call and its
\* arguments 1 to 4 in the parameters of the C convention, and with argument 6
\* on the stack.
THEOREM ArgumentsPassedTheorem == Spec => []ArgumentsPassed
<1>1. IInv => ArgumentsPassed
  <2> SUFFICES ASSUME IInv, AtDispatch PROVE ArgumentsPassed
    BY Zenon DEF ArgumentsPassed
  <2> DEFINE e == entry.regs
  <2>1. pc[1] = "syscall_entry" /\ syscall_entry[pc[2]] = <<"call", "syscall_dispatch">>
    BY Zenon DEF AtDispatch
  <2>2. /\ pc[2] \in 1 .. 28
        /\ SyscallStack(pc[2], rsp, stack["user"], e)
        /\ SyscallRegs(pc[2], regs, e, result)
    BY <2>1, SyscallAt, Zenon
  <2>3. pc[2] = 17
    <3>1. \A n \in (1 .. 28) \ {17} : syscall_entry[n][1] # "call"
      BY SyscallCode
    <3> QED
      BY <2>1, <2>2, <3>1
  <2> HIDE DEF e
  <2>4. SyscallStack(17, rsp, stack["user"], e) /\ SyscallRegs(17, regs, e, result)
    BY <2>2, <2>3, Zenon
  <2>5. \A r \in Regs : regs[r] = e[Moved(17, r)]
    <3>1. 17 <= 17
      OBVIOUS
    <3> QED
      BY <2>4, <3>1, Zenon DEF SyscallRegs
  <2>6. /\ Moved(17, "rdi") = "rax" /\ Moved(17, "rsi") = "rdi" /\ Moved(17, "rdx") = "rsi"
        /\ Moved(17, "rcx") = "rdx" /\ Moved(17, "r8") = "r10"
    BY DEF Moved
  <2>7. {"rdi", "rsi", "rdx", "rcx", "r8"} \subseteq Regs
    BY Zenon DEF Regs
  <2>8. Word(0) = e["r9"]
    <3>1. rsp = <<"user", 9>> /\ stack["user"][9] = e[Source(PushOrder[9])]
      BY <2>4, DepthFacts DEF SyscallStack
    <3>2. Source(PushOrder[9]) = "r9"
      BY Zenon DEF Source, PushOrder
    <3> QED
      BY <3>1, <3>2 DEF Word
  <2> QED
    BY <2>5, <2>6, <2>7, <2>8, Zenon DEF ArgumentsPassed, e
<1> QED
  BY <1>1, FaultEntryInvariant, PTL

\* The stubs isr_0, isr_1, isr_6, isr_13 and isr_14 call handle_fault_with_vector
\* with the vector that the processor delivered and with its error code, or 0,
\* whichever exceptions user mode raises and whether or not they have a gate.
THEOREM StubReportsTheorem == Spec => []StubReports
<1>1. IInv => StubReports
  <2> SUFFICES ASSUME IInv, InCode, Instr = Report, pc[1] # "generic_fault_handler"
               PROVE  /\ regs["rdi"] = Const(entry.vector)
                      /\ regs["rsi"] = IF HasError(entry.vector) THEN ErrorCode(entry.vector)
                                       ELSE Const(0)
    BY Zenon DEF StubReports
  <2>1. pc[1] \in Codes
    BY CodeFacts, Zenon DEF InCode
  <2>2. Report[1] = "call" /\ Report[2] = "handle_fault_with_vector"
    BY Zenon DEF Report
  <2>3. CASE pc[1] = "syscall_entry"
    <3>1. pc[2] \in 1 .. 28 /\ Instr = syscall_entry[pc[2]]
      BY <2>3, SyscallAt, Zenon
    <3>2. \A n \in 1 .. 28 : syscall_entry[n] # Report
      BY <2>2, SyscallCode
    <3> QED
      BY <3>1, <3>2, Zenon
  <2>4. CASE pc[1] = "enter_user"
    <3>1. pc[2] \in 1 .. 6 /\ Instr = enter_user[pc[2]]
      BY <2>4, CodeFacts, Zenon DEF IInv, BootOK, Instr
    <3>2. \A n \in 1 .. 6 : enter_user[n][1] # "call"
      BY EnterCode
    <3> QED
      BY <2>2, <3>1, <3>2, Zenon
  <2>5. CASE pc[1] \in {"isr_0", "isr_1", "isr_6"}
    <3>1. /\ pc[2] \in 1 .. 10 /\ entry.vector = VectorOf(pc[1])
          /\ StubRegs(pc[2], regs, entry.regs, entry.vector)
          /\ Instr = StubWithoutError(VectorOf(pc[1]))[pc[2]]
      BY <2>5, StubAt
    <3>2. pc[2] = 6
      <4>1. \A n \in (1 .. 10) \ {6} : StubWithoutError(VectorOf(pc[1]))[n][1] # "call"
        BY StubCode
      <4> QED
        BY <2>2, <3>1, <4>1, Zenon
    <3>3. regs["rdi"] = Const(entry.vector) /\ regs["rsi"] = Const(0)
      BY <3>1, <3>2 DEF StubRegs
    <3>4. ~HasError(entry.vector)
      BY <2>5, <3>1 DEF VectorOf, HasError
    <3> QED
      BY <3>3, <3>4, Zenon
  <2>6. CASE pc[1] \in {"isr_13", "isr_14"}
    <3>1. /\ pc[2] \in 1 .. 5 /\ entry.vector = VectorOf(pc[1])
          /\ pc[2] > 3 => regs["rsi"] = ErrorCode(entry.vector)
          /\ pc[2] > 4 => regs["rdi"] = Const(entry.vector)
      BY <2>6, Zenon DEF IInv, ErrorStubOK
    <3>2. Instr = StubWithError(VectorOf(pc[1]))[pc[2]]
      BY <2>6, CodeFacts, Zenon DEF Instr
    <3>3. pc[2] = 5
      <4>1. \A n \in 1 .. 4 : StubWithError(VectorOf(pc[1]))[n][1] # "call"
        BY ErrorStubCode
      <4> QED
        BY <2>2, <3>1, <3>2, <4>1
    <3>4. HasError(entry.vector)
      BY <2>6, <3>1, Zenon DEF VectorOf, HasError
    <3> QED
      BY <3>1, <3>3, <3>4
  <2>7. pc[1] \in {"syscall_entry", "enter_user"} \cup {"isr_0", "isr_1", "isr_6"}
                \cup {"isr_13", "isr_14"}
    BY <2>1, Zenon DEF Codes
  <2> QED
    BY <2>3, <2>4, <2>5, <2>6, <2>7, Zenon
<1> QED
  BY <1>1, FaultEntryInvariant, PTL

\* Where user mode goes on after a debug exception, it does so at the same
\* place, on the same stack and in the same segment, with RAX, RDI and the
\* registers that handle_fault_with_vector keeps.
THEOREM DebugStateKeptTheorem == Spec => []DebugStateKept
<1>1. IInv => DebugStateKept
  <2> SUFFICES ASSUME IInv, entry.kind = "user_fault", entry.state = "left"
               PROVE  DebugStateKept
    BY Zenon DEF DebugStateKept
  <2>1. pc \notin BootPcs /\ pc[1] # "enter_user"
    BY Zenon DEF IInv, BootOK
  <2>2. pc = User
    BY <2>1, Zenon DEF IInv, Entries
  <2> QED
    BY <2>2, Zenon DEF IInv, UserOK
<1> QED
  BY <1>1, FaultEntryInvariant, PTL

\* The processor shuts down only where syscall_entry, which stays on the stack
\* of user mode, has no room on it: never for an exception of user mode, not
\* even for one without a gate, and never in a stub.
ShutdownOnlyOnUserStack ==
  pc = Shutdown => entry.kind = "kernel_fault" /\ entry.vector = 14 /\ rsp[1] = "user"

\* ShutdownOnlyOnUserStack holds for every choice of exceptions and every room.
THEOREM ShutdownTheorem == Spec => []ShutdownOnlyOnUserStack
<1>1. IInv => ShutdownOnlyOnUserStack
  BY Zenon DEF IInv, StopOK, ShutdownOnlyOnUserStack
<1> QED
  BY <1>1, FaultEntryInvariant, PTL
=============================================================================
