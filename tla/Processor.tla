----------------------------- MODULE Processor ------------------------------
(***************************************************************************)
(* The part of the processor that the kernel's entry code works with: the  *)
(* registers, the stacks and the instructions on them.  A word tells where *)
(* it came from.  pc is the name of a routine with the number of its next  *)
(* instruction.  A stack is the sequence of the words pushed on it, and a  *)
(* stack address its name with the number of words below the top.          *)
(***************************************************************************)
EXTENDS Integers, Sequences

Regs == {"rax", "rbx", "rcx", "rdx", "rsi", "rdi", "rbp",
         "r8", "r9", "r10", "r11", "r12", "r13", "r14", "r15",
         "rip", "rflags"}    \* the last two are those of user mode

\* What a C function keeps.
CalleeSaved == {"rbx", "rbp", "r12", "r13", "r14", "r15"}

Stacks == {"boot", "user", "kernel"}

VARIABLES
  pc, regs, rsp, cs, ss,
  stack,            \* the words on each stack
  room              \* how many words the user's stack has room for

cpuVars == <<pc, regs, rsp, cs, ss, stack, room>>

Const(n) == <<"const", n>>
Junk == <<"junk">>
UserValue(n, r) == <<"user", n, r>>

User == <<"user", 0>>
Halted == <<"halted", 0>>
Shutdown == <<"shutdown", 0>>
Start(routine) == <<routine, 1>>

-----------------------------------------------------------------------------
Fits(at, n) == at[1] = "user" => at[2] + n <= room

\* The word k places below the top, and the stack without its n top words.
Word(k) == IF rsp[2] > k THEN stack[rsp[1]][rsp[2] - k] ELSE Junk
Up(n) == <<rsp[1], IF rsp[2] > n THEN rsp[2] - n ELSE 0>>

PushWords(at, words) ==
  /\ stack' = [stack EXCEPT ![at[1]] = SubSeq(@, 1, at[2]) \o words]
  /\ rsp' = <<at[1], at[2] + Len(words)>>

DropWords(n) ==
  /\ rsp' = Up(n)
  /\ stack' = [stack EXCEPT ![rsp[1]] = SubSeq(@, 1, Up(n)[2])]

Continue == pc' = <<pc[1], pc[2] + 1>>

\* The registers after a C function returned ret, or nothing, in RAX.
AfterCall(ret) ==
  [r \in Regs |-> CASE r = "rax" -> ret
                    [] r \in CalleeSaved \cup {"rip", "rflags"} -> regs[r]
                    [] OTHER -> Junk]

Pushes(i) == i[1] \in {"push", "push_const", "call"}

\* The instructions that only touch registers and the stack.
Execute(i) ==
  /\ \/ /\ i[1] = "push"
        /\ Fits(rsp, 1)
        /\ PushWords(rsp, <<regs[i[2]]>>)
        /\ UNCHANGED regs
     \/ /\ i[1] = "push_const"
        /\ Fits(rsp, 1)
        /\ PushWords(rsp, <<i[2]>>)
        /\ UNCHANGED regs
     \/ /\ i[1] = "mov"
        /\ regs' = [regs EXCEPT ![i[2]] = regs[i[3]]]
        /\ UNCHANGED <<rsp, stack>>
     \/ /\ i[1] = "mov_const"
        /\ regs' = [regs EXCEPT ![i[2]] = Const(i[3])]
        /\ UNCHANGED <<rsp, stack>>
     \/ /\ i[1] = "load"
        /\ regs' = [regs EXCEPT ![i[2]] = Word(i[3])]
        /\ UNCHANGED <<rsp, stack>>
     \/ /\ i[1] = "pop"
        /\ regs' = [regs EXCEPT ![i[2]] = Word(0)]
        /\ DropWords(1)
     \/ /\ i[1] = "drop"
        /\ DropWords(1)
        /\ UNCHANGED regs
  /\ Continue
  /\ UNCHANGED <<cs, ss, room>>
=============================================================================
