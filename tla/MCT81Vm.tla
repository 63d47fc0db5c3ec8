------------------------------ MODULE MCT81Vm ------------------------------
(***************************************************************************)
(* Instances of the VM for TLC.  A run explores every program of up to a   *)
(* given length over a small alphabet of instructions, under every         *)
(* sequence of host calls the run allows.                                  *)
(***************************************************************************)
EXTENDS T81Properties

I(opcode, a, b, c) == [opcode |-> opcode, a |-> a, b |-> b, c |-> c]

\* Every program of 0 .. n instructions over the alphabet.
ProgramsOver(alphabet, n, tiers) ==
  {[insns |-> s, tier |-> t] : s \in SeqOf(alphabet, n), t \in tiers}

NoPrograms == {}
NoWrites == {}
NoSeeds == {}

-----------------------------------------------------------------------------
\* Calls into every position, returns, taken and untaken branches, loops.
FlowAlphabet ==
  {I("LoadImm", 0, 2, 0), I("LoadImm", 0, 0, 0), I("Call", 0, 0, 0), I("Ret", 0, 0, 0),
   I("JumpIfZero", 2, 0, 0), I("JumpIfPositive", 0, 0, 0), I("Jump", 1, 0, 0),
   I("Nop", 0, 0, 0), I("Halt", 0, 0, 0), I("Trap", 0, 0, 0)}
FlowPrograms == ProgramsOver(FlowAlphabet, 4, {NoPolicy})

-----------------------------------------------------------------------------
\* Frames of two sizes freed in and out of order, pushes and pops in between.
StackAlphabet ==
  {I("StackAlloc", 0, 1, 0), I("StackAlloc", 1, 2, 0), I("StackFree", 0, 1, 0),
   I("StackFree", 1, 2, 0), I("Push", 0, 0, 0), I("Pop", 2, 0, 0)}

\* Pops inside live frames raise sp by two words, then by four: the push that
\* follows is past the last word of memory.
EscapeProgram ==
  <<I("StackAlloc", 0, 2, 0), I("Pop", 1, 0, 0), I("Pop", 1, 0, 0), I("StackFree", 0, 2, 0),
    I("StackAlloc", 0, 6, 0), I("Pop", 1, 0, 0), I("Pop", 1, 0, 0), I("Pop", 1, 0, 0),
    I("Pop", 1, 0, 0), I("StackFree", 0, 6, 0), I("Push", 0, 0, 0)>>

\* The whole stack taken and given back, twice.
RefillProgram ==
  <<I("StackAlloc", 0, 4, 0), I("StackFree", 0, 4, 0),
    I("StackAlloc", 0, 4, 0), I("StackFree", 0, 4, 0), I("Push", 0, 0, 0)>>

StackPrograms ==
  ProgramsOver(StackAlphabet, 5, {NoPolicy})
  \cup {[insns |-> insns, tier |-> NoPolicy] :
           insns \in {EscapeProgram, RefillProgram, <<I("StackAlloc", 0, 0, 0)>>}}

-----------------------------------------------------------------------------
\* Blocks of two sizes freed in and out of order, until the heap is full, and
\* stores over the whole address space.
HeapAlphabet ==
  {I("HeapAlloc", 0, 1, 0), I("HeapAlloc", 1, 2, 0), I("HeapFree", 0, 1, 0),
   I("HeapFree", 1, 2, 0), I("Store", 7, 0, 0), I("Load", 1, 7, 0)}
HeapPrograms ==
  ProgramsOver(HeapAlphabet, 5, {NoPolicy})
  \cup ProgramsOver({I("Store", a, 0, 0) : a \in -1 .. 13} \cup {I("Load", 0, a, 0) : a \in -1 .. 13}
                     \cup {I("HeapAlloc", 0, 0, 0), I("HeapAlloc", 0, -1, 0),
                            I("LoadImm", 0, 5, 0)}, 2, {NoPolicy})

\* A host that makes up a tensor handle, at any moment.
ForgedWrites == {[idx |-> 2, value |-> 7, tag |-> "TensorHandle"]}
ForgedPrograms == {[insns |-> <<I("TExp", 0, 2, 0)>>, tier |-> NoPolicy]}

Seed(r, tag, shape, size) == [idx |-> r, tag |-> tag, tensor |-> Tensor(shape, size)]
\* A host whose tensors have negative dimensions, no rows, or so many elements
\* that their number, and the check of it, wraps around.
OverrunAlphabet == {I("TTranspose", 0, 0, 0), I("TMatMul", 0, 0, 0)}
UnsoundSeeds == {Seed(0, "TensorHandle", <<-1, -1>>, 1), Seed(0, "TensorHandle", <<0, -1>>, 0),
                 Seed(0, "TensorHandle", <<8, 8>>, 0)}
OverrunPrograms == ProgramsOver(OverrunAlphabet, 1, {NoPolicy})

MemoryPrograms == StackPrograms \cup HeapPrograms \cup ForgedPrograms \cup OverrunPrograms

-----------------------------------------------------------------------------
\* Values nested in one another, unwrapped, tested and moved; handles overwritten
\* by arithmetic.
ValueAlphabet ==
  {I("MakeOptionSome", 0, 0, 0), I("MakeOptionSome", 1, 0, 0), I("OptionUnwrap", 0, 1, 0),
   I("MakeResultErr", 0, 1, 0), I("ResultUnwrapErr", 1, 0, 0),
   I("MakeEnumVariantPayload", 1, 0, 3), I("EnumUnwrapPayload", 0, 1, 0),
   I("Mov", 0, 1, 0), I("Inc", 0, 0, 0)}

\* One value of each alternative, then each reader.
MakeAlphabet ==
  {I("MakeOptionNone", 0, 0, 0), I("MakeOptionSome", 0, 1, 0), I("MakeResultOk", 0, 1, 0),
   I("MakeResultErr", 0, 1, 0), I("MakeEnumVariant", 0, 3, 0),
   I("MakeEnumVariantPayload", 0, 1, 3), I("MakeEnumVariantPayload", 0, 1, -1),
   I("WeightsLoad", 0, 1, 0)}
ReadAlphabet ==
  {I(op, 1, 0, 3) : op \in UnwrapOps} \cup {I("SetF", 0, 0, 0), I("I2F", 1, 0, 0)}

ValuePrograms ==
  ProgramsOver(ValueAlphabet, 4, {NoPolicy})
  \cup {[insns |-> <<m, r1, r2>>, tier |-> NoPolicy] :
           m \in MakeAlphabet, r1 \in ReadAlphabet, r2 \in ReadAlphabet}

-----------------------------------------------------------------------------
\* Every tensor opcode on vectors, on matrices that do and do not multiply, on
\* an odd and an empty one, then another opcode on its result; a shape to
\* compare with, and the same register as both operands.
TensorAlphabet ==
  {I(op, 0, 0, 1) : op \in TensorOps} \cup {I("TMatMul", 0, 1, 0), I("TTranspose", 1, 1, 0)}
TensorPrograms == ProgramsOver(TensorAlphabet, 2, {NoPolicy})

TensorSeeds ==
  {Seed(0, "TensorHandle", <<2>>, 2), Seed(0, "TensorHandle", <<3>>, 3),
   Seed(0, "TensorHandle", <<0>>, 0), Seed(0, "TensorHandle", <<2, 1>>, 2),
   Seed(1, "TensorHandle", <<2>>, 2), Seed(1, "TensorHandle", <<1, 3>>, 3),
   Seed(1, "TensorHandle", <<2, 1>>, 2), Seed(1, "TensorHandle", <<2, 1, 1>>, 2),
   Seed(1, "ShapeHandle", <<2>>, 2)}

\* Guarded instructions, under a policy that denies them and without one; a VM
\* that is given the empty program whatever it has run.
GuardedPrograms == ProgramsOver({I("AxRead", 0, 0, 0), I("AxSet", 0, 1, 0)}, 2, {NoPolicy, 0})
EmptyProgram == {[insns |-> <<>>, tier |-> NoPolicy]}

\* Everything that does not address memory.
InstructionPrograms == FlowPrograms \cup ValuePrograms \cup TensorPrograms \cup GuardedPrograms

-----------------------------------------------------------------------------
\* Every scalar opcode on the boundary values of a 4-bit word, then a branch.
Boundary == {-8, -7, -1, 0, 1, 2, 7}
ScalarInsns ==
  {I(op, 2, 0, 1) : op \in ArithOps \cup CompareOps \cup TritOps \cup {"Mov", "SetF"} \cup ConvertOps}
  \cup {I("Cmp", 0, 1, 0), I("Neg", 2, 0, 0), I("TNot", 2, 0, 0), I("Inc", 0, 0, 0), I("Dec", 0, 0, 0)}
ScalarPrograms ==
  {[insns |-> <<I("LoadImm", 0, x, 0), I("LoadImm", 1, y, 0), op>>, tier |-> NoPolicy] :
     x \in Boundary, y \in Boundary, op \in ScalarInsns}

-----------------------------------------------------------------------------
\* Programs the validator rejects next to ones it accepts; operands out of
\* range in every position it checks and in those it forgets.
HostileAlphabet ==
  {I("LoadImm", 0, 1, 0), I("LoadImm", 5, 1, 0), I("Mov", 0, 5, 0), I("Neg", 0, 5, 0),
   I("I2F", 5, 0, 0), I("Add", 0, 0, 5), I("Jump", 7, 0, 0), I(IllegalOpcode, 0, 0, 0),
   I("JumpIfNotZero", 0, 0, 0), I("JumpIfNegative", -1, 0, 0), I("Call", 0, 0, 0),
   I("Halt", 0, 0, 0), I("Trap", 0, 0, 0), I("AxVerify", 5, 0, 0)}
HostilePrograms == ProgramsOver(HostileAlphabet, 3, {NoPolicy})

\* Everything scalar, and everything out of range.
OperandPrograms == ScalarPrograms \cup HostilePrograms

-----------------------------------------------------------------------------
\* A host that steps again after traps, fixes registers, hands out integers
\* and weights handles, and reloads: programs that trap, that halt, that make
\* values, and that call on Axion for every segment, under no policy, tier 0
\* and tier 1.
RecoveryAlphabet ==
  {I("Div", 0, 1, 0), I("LoadImm", 1, 6, 0), I("Halt", 0, 0, 0), I("Neg", 0, 5, 0), I("Jump", 7, 0, 0)}
ReloadAlphabet ==
  {I("MakeOptionSome", 0, 0, 0), I("OptionUnwrap", 0, 0, 0), I("Push", 0, 0, 0), I("Pop", 0, 0, 0),
   I("Inc", 0, 0, 0)}
AxionAlphabet ==
  {I("AxRead", 0, 0, 0), I("AxRead", 0, -1, 0), I("AxSet", 0, 1, 0), I("AxVerify", 1, 0, 0),
   I("WeightsLoad", 0, 0, 0), I("WeightsLoad", 1, 2, 0), I("Store", 3, 0, 0), I("Store", -1, 0, 0)}
FrameAlphabet ==
  {I("AxSet", 0, 1, 0), I("StackAlloc", 0, 1, 0), I("StackAlloc", 0, 0, 0), I("StackAlloc", 1, 4, 0),
   I("StackFree", 0, 1, 0), I("HeapAlloc", 0, 1, 0), I("HeapFree", 0, 1, 0), I("Pop", 1, 0, 0)}

HostReloads ==
  ProgramsOver(RecoveryAlphabet, 1, {NoPolicy}) \cup ProgramsOver(ReloadAlphabet, 1, {NoPolicy})
    \cup ProgramsOver({I("AxRead", 0, 0, 0)}, 1, {NoPolicy, 0, 1})
HostPrograms ==
  HostReloads \cup ProgramsOver(RecoveryAlphabet, 2, {NoPolicy})
              \cup ProgramsOver(ReloadAlphabet, 2, {NoPolicy})
              \cup ProgramsOver(AxionAlphabet, 3, {NoPolicy, 0, 1})
              \cup ProgramsOver(FrameAlphabet, 3, {0, 1})
              \cup OverrunPrograms

HonestWrites == {[idx |-> 0, value |-> 0, tag |-> "Int"],
                 [idx |-> 0, value |-> 2, tag |-> "WeightsTensorHandle"],
                 [idx |-> 9, value |-> 0, tag |-> "Int"]}

=============================================================================
