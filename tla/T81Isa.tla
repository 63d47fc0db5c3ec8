------------------------------- MODULE T81Isa -------------------------------
(***************************************************************************)
(* The instruction set of the VM: opcodes, traps, value tags, memory       *)
(* segments, instruction words, fixed-width integers, and the register     *)
(* operands each opcode indexes.  Everything here is constant level.       *)
(***************************************************************************)
EXTENDS Integers, Sequences

CONSTANTS
  RegCount,     \* number of registers (243 in the code)
  Half,         \* a machine word holds -Half .. Half-1 (2^63 in the code)
  StackSize,    \* words in the stack segment (256)
  HeapSize,     \* words in the heap segment (768)
  TensorSize,   \* words in the tensor segment (256)
  MetaSize,     \* words in the meta segment (256)
  GcInterval,   \* a GC cycle is counted every GcInterval steps (64)
  WeightsBase   \* base of the handles WeightsLoad makes up (1000)

ASSUME IsaAssumption ==
  /\ RegCount \in Nat \ {0}
  /\ Half \in Nat \ {0, 1}
  /\ StackSize \in Nat \ {0}
  /\ HeapSize \in Nat \ {0}
  /\ TensorSize \in Nat \ {0}
  /\ MetaSize \in Nat \ {0}
  /\ GcInterval \in Nat \ {0}
  /\ WeightsBase \in Nat

-----------------------------------------------------------------------------
(* Opcodes, in the groups the interpreter's switch handles together.       *)

AddOps  == {"Add", "FAdd", "FracAdd"}
SubOps  == {"Sub", "FSub", "FracSub"}
MulOps  == {"Mul", "FMul", "FracMul"}
DivOps  == {"Div", "FDiv", "FracDiv"}
ArithOps   == AddOps \cup SubOps \cup MulOps \cup DivOps \cup {"Mod"}
CompareOps == {"Less", "LessEqual", "Greater", "GreaterEqual", "Equal", "NotEqual"}
TritOps    == {"TAnd", "TOr", "TXor"}
ConvertOps == {"I2F", "F2I", "I2Frac", "Frac2I"}
BranchOps  == {"JumpIfZero", "JumpIfNotZero", "JumpIfNegative", "JumpIfPositive"}
JumpOps    == BranchOps \cup {"Jump"}
AxionOps   == {"AxRead", "AxSet", "AxVerify"}
UnwrapOps  == {"OptionIsSome", "OptionUnwrap", "ResultIsOk", "ResultUnwrapOk",
               "ResultUnwrapErr", "EnumIsVariant", "EnumUnwrapPayload"}
MakeOps    == {"MakeOptionSome", "MakeResultOk", "MakeResultErr", "MakeEnumVariantPayload"}
TensorPairOps  == {"TVecAdd", "TVecMul", "TMatMul", "TTenDot", "ChkShape"}
TensorUnaryOps == {"TTranspose", "TExp", "TSqrt", "TSiLU", "TSoftmax", "TRMSNorm", "TRoPE"}
FrameOps   == {"StackAlloc", "StackFree", "HeapAlloc", "HeapFree"}

\* The enumerators of t81::tisc::Opcode.
Opcode ==
  {"Nop", "Halt", "Ret", "Trap", "LoadImm", "Load", "Store", "Mov", "Inc", "Dec",
   "Cmp", "Push", "Pop", "Call", "Neg", "TNot", "WeightsLoad", "SetF",
   "MakeOptionNone", "MakeEnumVariant"}
  \cup ArithOps \cup CompareOps \cup TritOps \cup ConvertOps \cup JumpOps
  \cup AxionOps \cup UnwrapOps \cup MakeOps \cup TensorPairOps
  \cup TensorUnaryOps \cup FrameOps

\* An opcode byte that names no enumerator: a host can hand one to
\* load_program in memory, no file format can produce it.
IllegalOpcode == "Illegal"

TrapCode == {"DecodeFault", "TypeFault", "BoundsFault", "StackFault", "DivisionFault",
             "SecurityFault", "ShapeFault", "TrapInstruction"}
NoTrap   == "None"

ValueTag == {"Int", "TensorHandle", "ShapeHandle", "WeightsTensorHandle",
             "OptionHandle", "ResultHandle", "EnumHandle"}

SegmentKind == {"unknown", "code", "stack", "heap", "tensor", "meta"}

-----------------------------------------------------------------------------
(* Machine words.                                                          *)

Int64 == -Half .. (Half - 1)

\* static_cast<int64_t> of a size_t: an address or a handle.
Wrap(v) == ((v + Half) % (2 * Half)) - Half

Magnitude(v) == IF v < 0 THEN -v ELSE v

\* Mutant of TruncDiv: rounds towards minus infinity.
TruncDiv_floor(x, y) == IF y > 0 THEN x \div y ELSE (-x) \div (-y)

\* C++ division truncates towards zero; the remainder takes the dividend's sign.
TruncDiv(x, y) ==
  LET q == Magnitude(x) \div Magnitude(y)
  IN  IF (x < 0) = (y < 0) THEN q ELSE -q
TruncMod(x, y) == x - y * TruncDiv(x, y)

clamp_trit(v) == IF v > 1 THEN 1 ELSE IF v < -1 THEN -1 ELSE v

-----------------------------------------------------------------------------
(* What the scalar opcodes compute, before the result is put in a word.    *)

Divides(opcode) == opcode \in DivOps \cup {"Mod"}

\* The exact result of an arithmetic opcode.
Arith(opcode, lhs, rhs) ==
  CASE opcode \in AddOps -> lhs + rhs
    [] opcode \in SubOps -> lhs - rhs
    [] opcode \in MulOps -> lhs * rhs
    [] opcode \in DivOps -> TruncDiv(lhs, rhs)
    [] opcode = "Mod"    -> TruncMod(lhs, rhs)

Holds(opcode, lhs, rhs) ==
  CASE opcode = "Less"         -> lhs < rhs
    [] opcode = "LessEqual"    -> lhs <= rhs
    [] opcode = "Greater"      -> lhs > rhs
    [] opcode = "GreaterEqual" -> lhs >= rhs
    [] opcode = "Equal"        -> lhs = rhs
    [] opcode = "NotEqual"     -> lhs # rhs

\* Mutant of TritXor: folds on one side only.
TritXor_oneSided(x, y) == IF x - y > 1 THEN -1 ELSE x - y

\* The difference of two trits, folded back into -1 .. 1.
TritXor(x, y) == IF x - y > 1 THEN -1 ELSE IF x - y < -1 THEN 1 ELSE x - y

TritOp(opcode, x, y) ==
  CASE opcode = "TAnd" -> IF x < y THEN x ELSE y
    [] opcode = "TOr"  -> IF x > y THEN x ELSE y
    [] opcode = "TXor" -> TritXor(x, y)

-----------------------------------------------------------------------------
(* Instruction words and programs.  A program carries the tier its policy  *)
(* text names, NoPolicy when the text has no "(tier N)" clause.            *)

Regs == 0 .. (RegCount - 1)

Insn == [opcode : Opcode \cup {IllegalOpcode}, a : Int64, b : Int64, c : Int64]

NoPolicy == -1
Program == [insns : Seq(Insn), tier : Nat \cup {NoPolicy}]

-----------------------------------------------------------------------------
(* Register operands.                                                      *)

\* Opcodes whose handlers index the registers with operand b, operand c.
UsesC == ArithOps \cup CompareOps \cup TritOps \cup TensorPairOps
UsesB == UsesC \cup UnwrapOps \cup MakeOps \cup TensorUnaryOps \cup ConvertOps
         \cup {"Store", "Mov", "Cmp", "Neg", "TNot", "AxSet", "SetF"}

=============================================================================
