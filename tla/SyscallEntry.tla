---------------------------- MODULE SyscallEntry ----------------------------
(***************************************************************************)
(* The way of a system call from user mode into the kernel and back:       *)
(* syscall_entry.S, instruction by instruction, between the SYSCALL and    *)
(* SYSRETQ instructions, as msr.c sets them up.  The C code it calls is    *)
(* any function that keeps to the calling convention.                      *)
(***************************************************************************)
EXTENDS Processor

CONSTANTS
  MaxTurns,      \* the turns of user mode are numbered 1 to MaxTurns, then from 1
  UserRooms,     \* how much room the user's stack may have left, in words
  DispatchRoom,  \* how much of it syscall_dispatch and what it calls take
  Results        \* what syscall_dispatch may return

ASSUME EntryAssumption ==
  /\ MaxTurns \in Nat \ {0}
  /\ UserRooms \subseteq Nat
  /\ DispatchRoom \in Nat \ {0}

\* setup_syscall_msrs: the bases of the user and the kernel selectors.
StarUser == 24     \* 0x18
StarKernel == 8    \* 0x08

VARIABLES
  saved_user_rsp,
  turn,     \* the number of user mode's turn
  entry,    \* the last entry into the kernel: what user mode, or the kernel code
            \* that was interrupted, had in its registers, and how far it is
  result    \* what syscall_dispatch returned last

entryVars == <<saved_user_rsp, turn, entry, result>>

NoEntry ==
  [kind |-> "none", vector |-> -1, regs |-> [r \in Regs |-> Junk],
   rsp |-> <<"boot", 0>>, cs |-> 0, state |-> "left"]

\* What user mode has in its registers when its next turn ends.
NextTurn == IF turn = MaxTurns THEN 1 ELSE turn + 1
UserRegs(n) == [r \in Regs |-> UserValue(n, r)]

-----------------------------------------------------------------------------
SaveState ==
  << <<"save_rsp">>, <<"load_rsp">>,
     <<"push", "r11">>, <<"push", "rcx">>, <<"push", "rbp">>, <<"push", "rbx">>,
     <<"push", "r12">>, <<"push", "r13">>, <<"push", "r14">>, <<"push", "r15">> >>

ConvertForwards ==
  << <<"push", "r9">>,
     <<"mov", "rdi", "rax">>, <<"mov", "rsi", "rdi">>, <<"mov", "rdx", "rsi">>,
     <<"mov", "rcx", "rdx">>, <<"mov", "r8", "r10">> >>

\* From the registers of a system call to those of a C call.
ConvertArguments ==
  << <<"push", "r9">>,
     <<"mov", "r8", "r10">>, <<"mov", "rcx", "rdx">>, <<"mov", "rdx", "rsi">>,
     <<"mov", "rsi", "rdi">>, <<"mov", "rdi", "rax">> >>

CallDispatch == << <<"call", "syscall_dispatch">>, <<"drop">> >>

RestoreSwapped ==
  << <<"pop", "r15">>, <<"pop", "r14">>, <<"pop", "r13">>, <<"pop", "r12">>,
     <<"pop", "rbp">>, <<"pop", "rbx">>, <<"pop", "rcx">>, <<"pop", "r11">>,
     <<"restore_rsp">>, <<"sysretq">> >>

RestoreState ==
  << <<"pop", "r15">>, <<"pop", "r14">>, <<"pop", "r13">>, <<"pop", "r12">>,
     <<"pop", "rbx">>, <<"pop", "rbp">>, <<"pop", "rcx">>, <<"pop", "r11">>,
     <<"restore_rsp">>, <<"sysretq">> >>

syscall_entry == SaveState \o ConvertArguments \o CallDispatch \o RestoreState

-----------------------------------------------------------------------------
\* User mode executes SYSCALL with values of its own in the registers, which
\* leaves the return address in RCX and the flags in R11.
Syscall ==
  /\ pc = User
  /\ turn' = NextTurn
  /\ room' \in UserRooms
  /\ regs' = [UserRegs(turn') EXCEPT !["rcx"] = UserValue(turn', "rip"),
                                     !["r11"] = UserValue(turn', "rflags")]
  /\ entry' = [kind |-> "syscall", vector |-> -1, regs |-> UserRegs(turn'),
               rsp |-> rsp, cs |-> cs, state |-> "entered"]
  /\ cs' = StarKernel
  /\ ss' = StarKernel + 8
  /\ pc' = Start("syscall_entry")
  /\ UNCHANGED <<rsp, stack, saved_user_rsp, result>>

SaveRsp(i) ==
  /\ i[1] = "save_rsp"
  /\ saved_user_rsp' = rsp
  /\ Continue
  /\ UNCHANGED <<regs, rsp, cs, ss, stack, room, turn, entry, result>>

\* "mov rsp, kernel_syscall_stack_top" loads the word at that label, which is
\* where saved_user_rsp is.
LoadRsp(i) ==
  /\ i[1] = "load_rsp"
  /\ rsp' = saved_user_rsp
  /\ Continue
  /\ UNCHANGED <<regs, cs, ss, stack, room, entryVars>>

\* syscall_dispatch is called, has room for its frame and those of the functions
\* it calls, and returns.
Dispatch(i) ==
  /\ i = <<"call", "syscall_dispatch">>
  /\ Fits(rsp, DispatchRoom)
  /\ result' \in Results
  /\ regs' = AfterCall(<<"result", result'>>)
  /\ Continue
  /\ UNCHANGED <<rsp, cs, ss, stack, room, saved_user_rsp, turn, entry>>

RestoreRsp(i) ==
  /\ i[1] = "restore_rsp"
  /\ rsp' = saved_user_rsp
  /\ Continue
  /\ UNCHANGED <<regs, cs, ss, stack, room, entryVars>>

\* SYSRETQ goes to RCX with the flags in R11 and the selectors that are 16 and
\* 8 above the user base of STAR, with RPL 3.  It looks at no descriptor.
Sysretq(i) ==
  /\ i[1] = "sysretq"
  /\ regs' = [regs EXCEPT !["rip"] = regs["rcx"], !["rflags"] = regs["r11"]]
  /\ cs' = StarUser + 16 + 3
  /\ ss' = StarUser + 8 + 3
  /\ pc' = User
  /\ entry' = [entry EXCEPT !.state = "left"]
  /\ UNCHANGED <<rsp, stack, room, saved_user_rsp, turn, result>>

SyscallStep(i) ==
  SaveRsp(i) \/ LoadRsp(i) \/ Dispatch(i) \/ RestoreRsp(i) \/ Sysretq(i)

-----------------------------------------------------------------------------
\* User mode continues behind its SYSCALL with the result in RAX and the stack
\* pointer, the flags and the registers that the convention keeps as they were,
\* whatever syscall_dispatch did to the others.
UserStateKept ==
  entry.kind = "syscall" /\ entry.state = "left" =>
    /\ rsp = entry.rsp
    /\ regs["rax"] = <<"result", result>>
    /\ \A r \in CalleeSaved \cup {"rip", "rflags"} : regs[r] = entry.regs[r]

AtDispatch == pc[1] = "syscall_entry" /\ syscall_entry[pc[2]] = <<"call", "syscall_dispatch">>

\* syscall_dispatch gets the call number in its first parameter, arguments 1 to
\* 4 in the next four and argument 6 on the stack.
ArgumentsPassed ==
  AtDispatch =>
    /\ regs["rdi"] = entry.regs["rax"]
    /\ regs["rsi"] = entry.regs["rdi"]
    /\ regs["rdx"] = entry.regs["rsi"]
    /\ regs["rcx"] = entry.regs["rdx"]
    /\ regs["r8"] = entry.regs["r10"]
    /\ Word(0) = entry.regs["r9"]
=============================================================================
