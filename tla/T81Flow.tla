------------------------------ MODULE T81Flow ------------------------------
(***************************************************************************)
(* Control flow: Nop, Halt, Trap, jumps, and the call stack.               *)
(***************************************************************************)
EXTENDS T81Machine, SequencesExt

\* What control flow leaves alone.
data == <<regs, mem, pools, axion_log>>

\* Mutant of InProgram: one past the end counts as inside.
InProgram_onePast(target) == target \in 0 .. Len(program.insns)

InProgram(target) == target \in 0 .. (Len(program.insns) - 1)

\* check_jump_target
JumpTo(target) ==
  IF InProgram(target)
  THEN pc' = target /\ Complete(NoWrite) /\ UNCHANGED <<flags, call_stack, data>>
  ELSE QuietFault("DecodeFault", "unknown")

FallThrough ==
  pc' = pc + 1 /\ Complete(NoWrite) /\ UNCHANGED <<flags, call_stack, data>>

Nop == Fetch({"Nop"}) /\ FallThrough

\* The only handler that clears last_trap_payload.
Halt ==
  /\ Fetch({"Halt"})
  /\ halted' = TRUE
  /\ last_trap_payload' = NoPayload
  /\ pc' = pc + 1
  /\ Retire(NoWrite)
  /\ UNCHANGED <<flags, call_stack, data>>

Jump == Fetch({"Jump"}) /\ JumpTo(insn.a)

Taken(opcode) ==
  CASE opcode = "JumpIfZero"     -> flags = "zero"
    [] opcode = "JumpIfNotZero"  -> flags # "zero"
    [] opcode = "JumpIfNegative" -> flags = "negative"
    [] opcode = "JumpIfPositive" -> flags = "positive"

BranchTaken    == Fetch(BranchOps) /\ Taken(insn.opcode) /\ JumpTo(insn.a)
BranchNotTaken == Fetch(BranchOps) /\ ~Taken(insn.opcode) /\ FallThrough

\* The target comes from a register, so only the interpreter can check it.
\* The return address is not checked: it may be one past the last instruction.
\* Mutants of ReturnAddress: the call itself; the instruction after the next.
ReturnAddress_same == pc
ReturnAddress_skip == pc + 2

ReturnAddress == pc + 1

Call ==
  /\ Fetch({"Call"})
  /\ InProgram(registers[insn.a])
  /\ call_stack' = Append(call_stack, ReturnAddress)
  /\ pc' = registers[insn.a]
  /\ Complete(NoWrite)
  /\ UNCHANGED <<flags, data>>

CallOutside ==
  /\ Fetch({"Call"})
  /\ ~InProgram(registers[insn.a])
  /\ QuietFault("DecodeFault", "unknown")

Ret ==
  /\ Fetch({"Ret"})
  /\ call_stack # <<>>
  /\ pc' = Last(call_stack)
  /\ call_stack' = Front(call_stack)
  /\ Complete(NoWrite)
  /\ UNCHANGED <<flags, data>>

RetEmpty == Fetch({"Ret"}) /\ call_stack = <<>> /\ QuietFault("StackFault", "unknown")

TrapInsn == Fetch({"Trap"}) /\ QuietFault("TrapInstruction", "unknown")

Flow ==
  \/ Nop \/ Halt \/ Jump \/ BranchTaken \/ BranchNotTaken
  \/ Call \/ CallOutside \/ Ret \/ RetEmpty \/ TrapInsn

=============================================================================
