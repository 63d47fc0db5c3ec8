----------------------------- MODULE T81Tensor -----------------------------
(***************************************************************************)
(* The tensor instructions.  No instruction reads an element into a         *)
(* register and none branches on one, so a tensor is its shape and the       *)
(* number of its elements; the element values are left out.                  *)
(***************************************************************************)
EXTENDS T81Values

TensorOps == TensorPairOps \cup TensorUnaryOps

Tensor(shape, size) == [shape |-> shape, size |-> size]

\* A dimension as a size_t, and a product of two.
Dim(d) == d % (2 * Half)
Elements(rows, cols) == (rows * cols) % (2 * Half)

\* ChkShape compares a tensor with a shape, every other pair is of tensors.
RightTag == IF insn.opcode = "ChkShape" THEN "ShapeHandle" ELSE "TensorHandle"

Tagged ==
  /\ SourceTag = "TensorHandle"
  /\ insn.opcode \in TensorPairOps => register_tags[insn.c] = RightTag

\* tensor_ptr and shape_ptr find what the handles name.
RightPool == IF insn.opcode = "ChkShape" THEN shape_pool ELSE tensor_pool

Resolved ==
  /\ Resolves(tensor_pool, Source)
  /\ insn.opcode \in TensorPairOps => Resolves(RightPool, registers[insn.c])

Left  == tensor_pool[Source]
Right == RightPool[registers[insn.c]]

IsMatrix(t) == Len(t.shape) = 2 /\ t.size = Elements(t.shape[1], t.shape[2])

\* What the opcode asks of its operands.  The maximum of a softmax adds 1 to its
\* sum, which is never 0.
Fits ==
  CASE insn.opcode \in {"TVecAdd", "TVecMul"} ->
         Len(Left.shape) = 1 /\ Left = Right
    [] insn.opcode = "TMatMul" ->
         IsMatrix(Left) /\ IsMatrix(Right) /\ Left.shape[2] = Right.shape[1]
    [] insn.opcode = "TTenDot"    -> Left.size = Right.size
    [] insn.opcode = "TTranspose" -> IsMatrix(Left)
    [] insn.opcode \in {"TSoftmax", "TRMSNorm"} -> Left.size # 0
    [] insn.opcode = "TRoPE"      -> Left.size % 2 = 0
    [] OTHER -> TRUE

\* A loop over rows and columns runs past the elements: the size_t product that
\* matched their number had wrapped around.
WrapsAround(rows, cols) == Dim(rows) * Dim(cols) >= 2 * Half

\* The shape checks are passed and the loops read or write out of bounds.  A
\* product of matrices with no row or no column enters none of them.
Overruns ==
  CASE insn.opcode = "TMatMul" ->
         LET rows == Left.shape[1]  inner == Left.shape[2]  cols == Right.shape[2]
         IN  /\ rows # 0 /\ cols # 0
             /\ WrapsAround(rows, inner) \/ WrapsAround(inner, cols) \/ WrapsAround(rows, cols)
    [] insn.opcode = "TTranspose" -> WrapsAround(Left.shape[1], Left.shape[2])
    [] OTHER -> FALSE

\* Mutant of Made: a matrix product takes the shape of its left operand.
Made_left ==
  CASE insn.opcode = "TMatMul"    -> Tensor(Left.shape, Elements(Left.shape[1], Right.shape[2]))
    [] insn.opcode = "TTenDot"    -> Tensor(<<1>>, 1)
    [] insn.opcode = "TTranspose" -> Tensor(<<Left.shape[2], Left.shape[1]>>, Left.size)
    [] OTHER -> Left

\* The tensor the opcode interns; element-wise opcodes keep shape and size.
Made ==
  CASE insn.opcode = "TMatMul"    -> Tensor(<<Left.shape[1], Right.shape[2]>>,
                                            Elements(Left.shape[1], Right.shape[2]))
    [] insn.opcode = "TTenDot"    -> Tensor(<<1>>, 1)
    [] insn.opcode = "TTranspose" -> Tensor(<<Left.shape[2], Left.shape[1]>>, Left.size)
    [] OTHER -> Left

-----------------------------------------------------------------------------
TensorTypeFault ==
  Fetch(TensorOps) /\ ~Tagged /\ QuietFault("TypeFault", "unknown")

TensorDecodeFault ==
  Fetch(TensorOps) /\ Tagged /\ ~Resolved /\ QuietFault("DecodeFault", "unknown")

TensorShapeFault ==
  Fetch(TensorOps) /\ Tagged /\ Resolved /\ ~Fits /\ QuietFault("ShapeFault", "unknown")

MakeTensor ==
  /\ Fetch(TensorOps \ {"ChkShape"})
  /\ Tagged /\ Resolved /\ Fits /\ ~Overruns
  /\ tensor_pool' = Append(tensor_pool, Made)
  /\ Produce(NextHandle(tensor_pool), "TensorHandle")
  /\ UNCHANGED <<frames, option_pool, result_pool, enum_pool, shape_pool, axion_log>>

TensorOverrun ==
  /\ Fetch(TensorOps)
  /\ Tagged /\ Resolved /\ Fits /\ Overruns
  /\ undefined' = "tensor"
  /\ UNCHANGED <<program, policy, pc, halted, flags, call_stack, regs, mem, pools, trace, axion_log,
                 last_trap_payload, steps, gc_cycles, preload_trap, current_write>>

ChkShape ==
  /\ Fetch({"ChkShape"})
  /\ Tagged /\ Resolved
  /\ Produce(IF Left.shape = Right THEN 1 ELSE 0, "Int")
  /\ UNCHANGED <<frames, pools, axion_log>>

TensorStep ==
  \/ TensorTypeFault \/ TensorDecodeFault \/ TensorShapeFault \/ TensorOverrun
  \/ MakeTensor \/ ChkShape

=============================================================================
