------------------------------- MODULE KbStub -------------------------------
(***************************************************************************)
(* The keyboard's interrupt stub, kernel/src/stubs/kb_stub.asm, one action *)
(* for each kind of instruction.  It runs between any two instructions of  *)
(* the kernel, so whatever it changes changes under the interrupted code.  *)
(* A register is its low byte and the rest of it; a value is named after   *)
(* the register that held it when the machine started.                     *)
(***************************************************************************)
EXTENDS Integers, Sequences, SequencesExt

\* The registers in the order they are pushed.
Registers ==
  <<"rax", "rbx", "rcx", "rdx", "rsi", "rdi", "rbp",
    "r8", "r9", "r10", "r11", "r12", "r13", "r14", "r15">>

\* What a C function may change: the calling convention kb_handler is compiled to.
CallerSaved ==
  {"rax", "rcx", "rdx", "rsi", "rdi", "r8", "r9", "r10", "r11"}

Word(x) == [rest |-> x, low |-> x]
EOI == "0x20"
Frame == Word("frame")   \* what the CPU pushes for iretq

\* A defect the code does not have: registers popped in the order of the pushes.
PopsInOrder == Registers
Pops == Reverse(Registers)

Instr(op, args) == [i \in DOMAIN args |-> [op |-> op, arg |-> args[i]]]

\* A defect the code does not have: AL goes to the PIC as it is, without EOI.
NoExchange ==
  Instr("push_imm", <<"0", "33">>) \o Instr("push", Registers) \o Instr("call", <<"kb_handler">>)
    \o Instr("pop", Pops) \o Instr("add_rsp", <<2>>)
    \o Instr("mov_bl", <<EOI>>) \o Instr("out", <<"al">>)
    \o Instr("iretq", <<"">>)
kb_stub ==
  Instr("push_imm", <<"0", "33">>) \o Instr("push", Registers) \o Instr("call", <<"kb_handler">>)
    \o Instr("pop", Pops) \o Instr("add_rsp", <<2>>)
    \o Instr("mov_bl", <<EOI>>) \o Instr("xchg_al_bl", <<"">>) \o Instr("out", <<"al">>)
    \o Instr("xchg_al_bl", <<"">>) \o Instr("iretq", <<"">>)

VARIABLES pc,      \* the instruction of kb_stub to run, 0 in the interrupted code
          regs, stack,
          pic,     \* whether the PIC waits for the end of an interrupt
          before   \* the registers when the interrupt came

vars == <<pc, regs, stack, pic, before>>

RegSet == ToSet(Registers)

Init ==
  /\ pc = 0
  /\ regs = [r \in RegSet |-> Word(r)]
  /\ stack = <<>>
  /\ pic = "idle"
  /\ before = regs

\* IRQ 1, with interrupts on.  The gate turns them off until iretq.
Interrupt ==
  /\ pc = 0 /\ pic = "idle"
  /\ pc' = 1
  /\ stack' = <<Frame>>
  /\ pic' = "in service"
  /\ before' = regs
  /\ UNCHANGED regs

Does(op) == pc > 0 /\ kb_stub[pc].op = op
Arg == kb_stub[pc].arg
Continues == pc' = pc + 1

PushImm ==
  /\ Does("push_imm") /\ Continues
  /\ stack' = Append(stack, Word(Arg))
  /\ UNCHANGED <<regs, pic, before>>

Push ==
  /\ Does("push") /\ Continues
  /\ stack' = Append(stack, regs[Arg])
  /\ UNCHANGED <<regs, pic, before>>

\* kb_handler leaves what it likes in the registers that are its own, rdi's
\* argument among them, and the stack as it was.
CallHandler ==
  /\ Does("call") /\ Continues
  /\ \E changed \in SUBSET CallerSaved :
       regs' = [r \in RegSet |-> IF r \in changed THEN Word("handler's") ELSE regs[r]]
  /\ UNCHANGED <<stack, pic, before>>

Pop ==
  /\ Does("pop") /\ Continues
  /\ regs' = [regs EXCEPT ![Arg] = Last(stack)]
  /\ stack' = Front(stack)
  /\ UNCHANGED <<pic, before>>

AddRsp ==
  /\ Does("add_rsp") /\ Continues
  /\ stack' = SubSeq(stack, 1, Len(stack) - Arg)
  /\ UNCHANGED <<regs, pic, before>>

MovBl ==
  /\ Does("mov_bl") /\ Continues
  /\ regs' = [regs EXCEPT !["rbx"].low = Arg]
  /\ UNCHANGED <<stack, pic, before>>

Xchg ==
  /\ Does("xchg_al_bl") /\ Continues
  /\ regs' = [regs EXCEPT !["rax"].low = regs["rbx"].low, !["rbx"].low = regs["rax"].low]
  /\ UNCHANGED <<stack, pic, before>>

Out ==
  /\ Does("out") /\ Continues
  /\ pic' = IF regs["rax"].low = EOI THEN "idle" ELSE pic
  /\ UNCHANGED <<regs, stack, before>>

Iretq ==
  /\ Does("iretq")
  /\ Last(stack) = Frame
  /\ pc' = 0
  /\ stack' = Front(stack)
  /\ UNCHANGED <<regs, pic, before>>

Next ==
  \/ Interrupt \/ PushImm \/ Push \/ CallHandler \/ Pop
  \/ AddRsp \/ MovBl \/ Xchg \/ Out \/ Iretq

Spec == Init /\ [][Next]_vars

------------------------------------------------------------------------------
(* Properties *)

\* The interrupted code finds every register but BL as it left it, and nothing
\* left on its stack, whatever the handler did with the registers it may use.
\* BL is 0x20: the end of the interrupt is sent after the registers are popped.
RestoresAllButBl ==
  pc = 0 => /\ stack = <<>>
            /\ \A r \in RegSet : regs[r].rest = before[r].rest
            /\ \A r \in RegSet \ {"rbx"} : regs[r].low = before[r].low
            /\ regs["rbx"].low \in {before["rbx"].low, EOI}

\* The PIC is told of the end of every interrupt before the interrupted code goes
\* on: otherwise the next key could not interrupt.
Acknowledged == pc = 0 => pic = "idle"
==============================================================================
