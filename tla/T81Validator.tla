---------------------------- MODULE T81Validator ----------------------------
(***************************************************************************)
(* validate_program: the static check load_program runs over a program.    *)
(* A rejected program is not refused: load_program keeps it and only        *)
(* arms preload_trap.                                                      *)
(***************************************************************************)
EXTENDS T81Isa

\* Mutant of ChecksB: forgets the source of Mov.
ChecksB_noMov == ArithOps \cup CompareOps \cup TritOps \cup TensorPairOps \cup MakeOps
                 \cup UnwrapOps \cup TensorUnaryOps \cup {"TNot", "Cmp", "AxSet", "SetF", "Store"}

\* Opcodes whose a, b, c operands the validator checks with valid_reg.
ChecksC == ArithOps \cup CompareOps \cup TritOps \cup TensorPairOps
ChecksB == ChecksC \cup MakeOps \cup UnwrapOps \cup TensorUnaryOps
           \cup {"TNot", "Cmp", "Mov", "AxSet", "SetF", "Store"}
ChecksA == (ChecksB \ {"Store"}) \cup ConvertOps \cup FrameOps
           \cup {"LoadImm", "Load", "Inc", "Dec", "Push", "Pop", "Neg", "Call",
                 "MakeOptionNone", "MakeEnumVariant", "AxRead", "AxVerify", "WeightsLoad"}

\* The instruction is well formed in a program of size instructions.
ValidInsn(i, size) ==
  /\ i.opcode \in Opcode
  /\ i.opcode \in ChecksA => i.a \in Regs
  /\ i.opcode \in ChecksB => i.b \in Regs
  /\ i.opcode \in ChecksC => i.c \in Regs
  /\ i.opcode \in JumpOps => i.a \in 0 .. (size - 1)

validate_program(insns) ==
  IF \A k \in DOMAIN insns : ValidInsn(insns[k], Len(insns)) THEN NoTrap ELSE "DecodeFault"

\* Opcodes whose register operand b the interpreter indexes and no case checks.
UncheckedB == ConvertOps \cup {"Neg"}

=============================================================================
