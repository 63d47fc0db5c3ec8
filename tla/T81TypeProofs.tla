--------------------------- MODULE T81TypeProofs ---------------------------
(***************************************************************************)
(* The type invariant of the VM, for every size of the machine, every set  *)
(* of programs and every host: one lemma per helper the handlers end in,   *)
(* then one per instruction family.                                        *)
(***************************************************************************)
EXTENDS T81Properties, TLAPS

-----------------------------------------------------------------------------
(* Machine words.                                                          *)

\* A wrapped result fits a machine word, whatever the exact result.
LEMMA WrapIsWord ==
  ASSUME NEW v \in Int
  PROVE  Wrap(v) \in Int64
<1>1. Half \in Nat \ {0}
  BY IsaAssumption
<1>2. 2 * Half \in Nat \ {0}
  BY <1>1
<1>3. (v + Half) % (2 * Half) \in 0 .. (2 * Half - 1)
  BY <1>1, <1>2
<1> QED
  BY <1>1, <1>3 DEF Wrap, Int64

\* A word is its own wrapped value.
LEMMA WrapOfWord ==
  ASSUME NEW v \in Int64
  PROVE  Wrap(v) = v
<1>1. Half \in Nat \ {0} /\ v + Half \in 0 .. (2 * Half - 1) /\ v \in Int
  BY IsaAssumption DEF Int64
<1>2. (v + Half) % (2 * Half) = v + Half
  BY <1>1
<1> QED
  BY <1>1, <1>2 DEF Wrap

\* The exact result of an arithmetic opcode is an integer.
LEMMA ArithIsInt ==
  ASSUME NEW op \in ArithOps, NEW x \in Int, NEW y \in Int, Divides(op) => y # 0
  PROVE  Arith(op, x, y) \in Int
<1>1. CASE op \in AddOps
  BY <1>1 DEF Arith, AddOps, SubOps, MulOps, DivOps
<1>2. CASE op \in SubOps
  BY <1>2 DEF Arith, AddOps, SubOps, MulOps, DivOps
<1>3. CASE op \in MulOps
  BY <1>3 DEF Arith, AddOps, SubOps, MulOps, DivOps
<1>4. y # 0 => TruncDiv(x, y) \in Int
  <2>1. y # 0 => Magnitude(x) \in Nat /\ Magnitude(y) \in Nat \ {0}
    BY DEF Magnitude
  <2>2. y # 0 => Magnitude(x) \div Magnitude(y) \in Int
    BY <2>1
  <2> QED
    BY <2>2 DEF TruncDiv
<1>5. y # 0 => TruncMod(x, y) \in Int
  BY <1>4 DEF TruncMod
<1>6. CASE op \in DivOps
  BY <1>4, <1>6 DEF Arith, AddOps, SubOps, MulOps, DivOps, Divides
<1>7. CASE op = "Mod"
  BY <1>5, <1>7 DEF Arith, AddOps, SubOps, MulOps, DivOps, Divides
<1> QED
  BY <1>1, <1>2, <1>3, <1>6, <1>7 DEF ArithOps

-----------------------------------------------------------------------------
(* The helpers every handler ends in.                                      *)

\* The instruction at pc is an instruction word.
LEMMA InsnType ==
  ASSUME ControlOK, Fetched
  PROVE  /\ insn \in Insn
         /\ insn.a \in Int64 /\ insn.b \in Int64 /\ insn.c \in Int64
         /\ insn.opcode \in OpcodeByte
         /\ pc \in Nat /\ pc + 1 \in 1 .. Len(program.insns)
         /\ Len(program.insns) \in Nat
<1>1. program.insns \in Seq(Insn)
  BY DEF ControlOK, Program
<1>2. pc \in Nat /\ Len(program.insns) \in Nat /\ pc + 1 \in 1 .. Len(program.insns)
  BY <1>1 DEF ControlOK, Fetched
<1>3. insn \in Insn
  BY <1>1, <1>2 DEF insn
<1> QED
  BY <1>2, <1>3 DEF Insn, OpcodeByte

\* No write is recorded as a write of its own kind.
LEMMA NoWriteType == NoWrite \in WriteRecord
  BY IsaAssumption DEF NoWrite, Write, WriteRecord, Int64, ValueTag

\* A completed instruction keeps the observers well typed.
LEMMA RetireType ==
  ASSUME ControlOK, TraceOK, Fetched, NEW w \in WriteRecord, Retire(w),
         last_trap_payload' \in TrapPayload
  PROVE  TraceOK' /\ program' = program
<1>1. pc \in Nat /\ insn.opcode \in OpcodeByte
  BY InsnType
<1>2. Entry(pc, insn.opcode, w, NoTrap) \in TraceEntry
  BY <1>1 DEF Entry, TraceEntry
<1>3. trace' \in Seq(TraceEntry)
  BY <1>2 DEF TraceOK, Retire
<1>4. steps' \in Nat /\ gc_cycles' \in Nat
  BY DEF TraceOK, Retire, CountStep
<1> QED
  BY <1>3, <1>4 DEF TraceOK, Retire

LEMMA CompleteType ==
  ASSUME ControlOK, TraceOK, Fetched, NEW w \in WriteRecord, Complete(w)
  PROVE  TraceOK' /\ program' = program /\ halted' = halted
<1>1. last_trap_payload' \in TrapPayload
  BY DEF Complete, TraceOK
<1> QED
  BY <1>1, RetireType DEF Complete

\* A trap keeps everything well typed but for the audit log, and changes
\* neither control state nor data.
LEMMA TrapType ==
  ASSUME TypeOK, NEW code \in TrapCode, NEW op \in OpcodeByte, NEW seg \in SegmentKind,
         NEW w \in WriteRecord, trap(code, op, seg, w),
         steps' \in Nat, gc_cycles' \in Nat
  PROVE  /\ ControlOK' /\ RegsOK' /\ MemoryOK' /\ FramesOK' /\ PoolsOK' /\ TraceOK'
         /\ program' = program
<1>1. pc \in Nat /\ Len(program.insns) \in Nat /\ program.insns \in Seq(Insn)
  BY DEF TypeOK, ControlOK, Program
<1>2. pc < Len(program.insns) => insn \in Insn
  BY <1>1 DEF insn
<1>3. (IF pc < Len(program.insns) THEN <<insn.a, insn.b, insn.c>> ELSE <<0, 0, 0>>)
        \in Int64 \X Int64 \X Int64
  BY <1>2, IsaAssumption DEF Insn, Int64
<1>4. last_trap_payload' \in TrapPayload
  BY <1>1, <1>3 DEF trap, Payload, TrapPayload
<1>5. Entry(pc, op, w, code) \in TraceEntry
  BY <1>1 DEF Entry, TraceEntry
<1>6. trace' \in Seq(TraceEntry)
  BY <1>5 DEF trap, TypeOK, TraceOK
<1>7. TraceOK'
  BY <1>4, <1>6 DEF trap, TypeOK, TraceOK
<1>8. ControlOK' /\ program' = program
  BY DEF trap, TypeOK, ControlOK
<1>9. RegsOK' /\ PoolsOK'
  BY DEF trap, TypeOK, RegsOK, PoolsOK, regs, pools
<1>10. MemoryOK' /\ FramesOK'
  BY <1>8 DEF trap, TypeOK, MemoryOK, FramesOK, mem, frames, StackStart, Addresses
<1> QED
  BY <1>7, <1>8, <1>9, <1>10

\* An audit event is well typed.
LEMMA LogType ==
  ASSUME LogOK, insn.opcode \in Opcode, NEW e \in Event, NEW seg \in SegmentKind, Log(e, seg)
  PROVE  LogOK'
  BY DEF LogOK, Log, AxionEvent

\* A register write followed by trace_ok keeps control, registers, memory and
\* observers well typed, whether or not the target register exists.
LEMMA ProduceType ==
  ASSUME TypeOK, Fetched, NEW v \in Int64, NEW tag \in ValueTag, NEW f \in FlagState,
         ProduceWith(v, tag, f)
  PROVE  /\ ControlOK' /\ RegsOK' /\ MemoryOK' /\ TraceOK'
         /\ program' = program
<1>1. CASE insn.a \in Regs
  <2>1. Write(insn.a, v, tag) \in WriteRecord
    BY <1>1 DEF Write, WriteRecord
  <2>2. TraceOK' /\ program' = program /\ halted' = halted
    BY <1>1, <2>1, CompleteType DEF ProduceWith, TypeOK
  <2>3. pc' = pc + 1 /\ flags' = f /\ call_stack' = call_stack /\ memory' = memory
    BY <1>1 DEF ProduceWith
  <2>4. ControlOK'
    BY <2>2, <2>3, InsnType DEF ControlOK, TypeOK
  <2>5. RegsOK'
    BY <1>1 DEF ProduceWith, TypeOK, RegsOK
  <2>6. MemoryOK'
    BY <2>2, <2>3 DEF TypeOK, MemoryOK
  <2> QED
    BY <2>2, <2>4, <2>5, <2>6
<1>2. CASE insn.a \notin Regs
  <2>1. UNCHANGED <<program, pc, halted, flags, call_stack, regs, memory>>
    BY <1>2 DEF ProduceWith
  <2>2. TraceOK'
    BY <1>2 DEF ProduceWith, TypeOK, TraceOK
  <2> QED
    BY <2>1, <2>2 DEF TypeOK, ControlOK, RegsOK, MemoryOK, regs
<1> QED
  BY <1>1, <1>2

LEMMA SignType == ASSUME NEW v \in Int PROVE SignOf(v) \in FlagState
  BY DEF SignOf, FlagState

\* A trap of a handler that logs nothing.
LEMMA QuietFaultType ==
  ASSUME TypeOK, Fetched, NEW code \in TrapCode, NEW seg \in SegmentKind, QuietFault(code, seg)
  PROVE  TypeOK'
<1>1. insn.opcode \in OpcodeByte
  BY InsnType DEF TypeOK
<1>2. steps' \in Nat /\ gc_cycles' \in Nat
  BY DEF QuietFault, Fault, CountStep, TypeOK, TraceOK
<1>3. LogOK'
  BY DEF QuietFault, TypeOK, LogOK
<1>4. trap(code, insn.opcode, seg, NoWrite)
  BY DEF QuietFault, Fault
<1> QED
  BY <1>1, <1>2, <1>3, <1>4, NoWriteType, TrapType DEF TypeOK

\* A trap of a handler that logs an audit event.
LEMMA LoggedFaultType ==
  ASSUME TypeOK, Fetched, insn.opcode \in Opcode, NEW code \in TrapCode,
         NEW seg \in SegmentKind, Fault(code, seg), NEW e \in Event, Log(e, seg)
  PROVE  TypeOK'
<1>1. insn.opcode \in OpcodeByte
  BY InsnType DEF TypeOK
<1>2. steps' \in Nat /\ gc_cycles' \in Nat
  BY DEF Fault, CountStep, TypeOK, TraceOK
<1>3. LogOK'
  BY LogType DEF TypeOK
<1>4. trap(code, insn.opcode, seg, NoWrite)
  BY DEF Fault
<1> QED
  BY <1>1, <1>2, <1>3, <1>4, NoWriteType, TrapType DEF TypeOK

LEMMA SameFrames ==
  ASSUME FramesOK, program' = program, UNCHANGED frames
  PROVE  FramesOK'
  BY DEF FramesOK, frames, StackStart

LEMMA SameMemory ==
  ASSUME MemoryOK, program' = program, memory' = memory
  PROVE  MemoryOK'
  BY DEF MemoryOK

LEMMA SamePools == ASSUME PoolsOK, UNCHANGED pools PROVE PoolsOK'
  BY DEF PoolsOK, pools

LEMMA SameLog == ASSUME LogOK, UNCHANGED axion_log PROVE LogOK'
  BY DEF LogOK

LEMMA SameRegs == ASSUME RegsOK, UNCHANGED regs PROVE RegsOK'
  BY DEF RegsOK, regs

\* An instruction that completes without a register write and goes to target.
LEMMA GoType ==
  ASSUME TypeOK, Fetched, Complete(NoWrite), pc' \in 0 .. Len(program.insns),
         flags' \in FlagState, call_stack' \in Seq(1 .. Len(program.insns))
  PROVE  ControlOK' /\ TraceOK' /\ program' = program
<1>1. TraceOK' /\ program' = program /\ halted' = halted
  BY NoWriteType, CompleteType DEF TypeOK
<1> QED
  BY <1>1 DEF TypeOK, ControlOK

\* What an instruction that only moves the control state leaves well typed.
LEMMA SameData ==
  ASSUME TypeOK, program' = program, UNCHANGED data
  PROVE  RegsOK' /\ MemoryOK' /\ FramesOK' /\ PoolsOK' /\ LogOK'
<1>1. memory' = memory /\ UNCHANGED <<regs, frames, pools, axion_log>>
  BY DEF data, mem
<1> QED
  BY <1>1, SameFrames, SameMemory, SamePools, SameLog, SameRegs DEF TypeOK

-----------------------------------------------------------------------------
(* Control flow.                                                           *)

LEMMA FallThroughType ==
  ASSUME TypeOK, Fetched, FallThrough
  PROVE  TypeOK'
<1>1. pc' \in 0 .. Len(program.insns)
  BY InsnType DEF FallThrough, TypeOK
<1>2. flags' \in FlagState /\ call_stack' \in Seq(1 .. Len(program.insns))
  BY DEF FallThrough, TypeOK, ControlOK
<1>3. ControlOK' /\ TraceOK' /\ program' = program
  BY <1>1, <1>2, GoType DEF FallThrough
<1> QED
  BY <1>3, SameData DEF FallThrough, TypeOK

LEMMA JumpType ==
  ASSUME TypeOK, Fetched, NEW target \in Int, JumpTo(target)
  PROVE  TypeOK'
<1>1. CASE InProgram(target)
  <2>1. pc' \in 0 .. Len(program.insns)
    BY <1>1, InsnType DEF JumpTo, InProgram, TypeOK
  <2>2. flags' \in FlagState /\ call_stack' \in Seq(1 .. Len(program.insns))
    BY <1>1 DEF JumpTo, TypeOK, ControlOK
  <2>3. ControlOK' /\ TraceOK' /\ program' = program
    BY <1>1, <2>1, <2>2, GoType DEF JumpTo
  <2> QED
    BY <1>1, <2>3, SameData DEF JumpTo, TypeOK
<1>2. CASE ~InProgram(target)
  BY <1>2, QuietFaultType DEF JumpTo, TrapCode, SegmentKind
<1> QED
  BY <1>1, <1>2

\* Control-flow instructions preserve the types: pc stays in the program or
\* one past it, and so does every return address.
LEMMA FlowType ==
  ASSUME TypeOK, Flow
  PROVE  TypeOK'
<1>1. CASE Nop
  BY <1>1, FallThroughType DEF Nop, Fetch
<1>2. CASE Halt
  <2>1. Fetched /\ Retire(NoWrite) /\ pc' = pc + 1 /\ halted' = TRUE
        /\ UNCHANGED <<flags, call_stack, data>>
    BY <1>2 DEF Halt, Fetch
  <2>2. last_trap_payload' \in TrapPayload
    BY <1>2, IsaAssumption
       DEF Halt, NoPayload, Payload, TrapPayload, Int64, OpcodeByte, Opcode, SegmentKind
  <2>3. TraceOK' /\ program' = program
    BY <2>1, <2>2, NoWriteType, RetireType DEF TypeOK
  <2>4. ControlOK'
    BY <2>1, <2>3, InsnType DEF TypeOK, ControlOK
  <2> QED
    BY <2>1, <2>3, <2>4, SameData DEF TypeOK
<1>3. CASE Jump
  BY <1>3, InsnType, JumpType DEF Jump, Fetch, Int64, TypeOK
<1>4. CASE BranchTaken
  BY <1>4, InsnType, JumpType DEF BranchTaken, Fetch, Int64, TypeOK
<1>5. CASE BranchNotTaken
  BY <1>5, FallThroughType DEF BranchNotTaken, Fetch
<1>6. CASE Call
  <2>1. Fetched /\ Complete(NoWrite) /\ UNCHANGED <<flags, data>>
    BY <1>6 DEF Call, Fetch
  <2>2. pc' \in 0 .. Len(program.insns)
    BY <1>6, <2>1, InsnType DEF Call, InProgram, TypeOK
  <2>3. pc + 1 \in 1 .. Len(program.insns)
    BY <2>1, InsnType DEF TypeOK
  <2>4. call_stack' \in Seq(1 .. Len(program.insns))
    BY <1>6, <2>3 DEF Call, ReturnAddress, TypeOK, ControlOK
  <2>5. flags' \in FlagState
    BY <2>1 DEF TypeOK, ControlOK
  <2>6. ControlOK' /\ TraceOK' /\ program' = program
    BY <2>1, <2>2, <2>4, <2>5, GoType
  <2> QED
    BY <2>1, <2>6, SameData DEF TypeOK
<1>7. CASE CallOutside
  BY <1>7, QuietFaultType DEF CallOutside, Fetch, TrapCode, SegmentKind
<1>8. CASE Ret
  <2>1. Fetched /\ Complete(NoWrite) /\ UNCHANGED <<flags, data>>
    BY <1>8 DEF Ret, Fetch
  <2>2. call_stack \in Seq(1 .. Len(program.insns)) /\ call_stack # <<>>
    BY <1>8 DEF Ret, TypeOK, ControlOK
  <2>3. Last(call_stack) \in 1 .. Len(program.insns)
    BY <2>2 DEF Last
  <2>4. Front(call_stack) \in Seq(1 .. Len(program.insns))
    BY <2>2 DEF Front
  <2>5. pc' \in 0 .. Len(program.insns)
    BY <1>8, <2>1, <2>3, InsnType DEF Ret, TypeOK
  <2>6. flags' \in FlagState
    BY <2>1 DEF TypeOK, ControlOK
  <2>7. call_stack' \in Seq(1 .. Len(program.insns))
    BY <1>8, <2>4 DEF Ret
  <2>8. ControlOK' /\ TraceOK' /\ program' = program
    BY <2>1, <2>5, <2>6, <2>7, GoType
  <2> QED
    BY <2>1, <2>8, SameData DEF TypeOK
<1>9. CASE RetEmpty
  BY <1>9, QuietFaultType DEF RetEmpty, Fetch, TrapCode, SegmentKind
<1>10. CASE TrapInsn
  BY <1>10, QuietFaultType DEF TrapInsn, Fetch, TrapCode, SegmentKind
<1> QED
  BY <1>1, <1>2, <1>3, <1>4, <1>5, <1>6, <1>7, <1>8, <1>9, <1>10 DEF Flow

-----------------------------------------------------------------------------
(* Scalar instructions.                                                    *)

\* What a scalar instruction, having produced its result, leaves well typed.
LEMMA SameStore ==
  ASSUME TypeOK, program' = program, UNCHANGED store
  PROVE  FramesOK' /\ PoolsOK' /\ LogOK'
<1>1. UNCHANGED frames /\ UNCHANGED pools /\ UNCHANGED axion_log
  BY DEF store
<1> QED
  BY <1>1, SameFrames, SamePools, SameLog DEF TypeOK

LEMMA ResultType ==
  ASSUME TypeOK, Fetched, NEW v \in Int64, NEW tag \in ValueTag, Produce(v, tag), UNCHANGED store
  PROVE  TypeOK'
<1>1. SignOf(v) \in FlagState
  BY SignType DEF Int64
<1>2. ControlOK' /\ RegsOK' /\ MemoryOK' /\ TraceOK' /\ program' = program
  BY <1>1, ProduceType DEF Produce
<1> QED
  BY <1>2, SameStore DEF TypeOK

\* Whatever an overflow leaves is a word.
LEMMA WordsType ==
  ASSUME NEW v \in Int
  PROVE  Words(v) \subseteq Int64 /\ Int64 \subseteq Int
BY DEF Words, Int64

LEMMA ProduceOneOfType ==
  ASSUME TypeOK, Fetched, NEW words \in SUBSET Int64, NEW v \in Int, ProduceOneOf(words, v),
         UNCHANGED store
  PROVE  TypeOK'
<1>1. PICK w \in words : \E f \in {SignOf(v), SignOf(w)} : ProduceWith(w, "Int", f)
  BY DEF ProduceOneOf
<1>2. w \in Int64 /\ w \in Int
  BY DEF Int64
<1>3. SignOf(v) \in FlagState /\ SignOf(w) \in FlagState
  BY <1>2, SignType
<1>4. PICK f \in FlagState : ProduceWith(w, "Int", f)
  BY <1>1, <1>3
<1>5. ControlOK' /\ RegsOK' /\ MemoryOK' /\ TraceOK' /\ program' = program
  BY <1>2, <1>4, ProduceType DEF ValueTag
<1> QED
  BY <1>5, SameStore DEF TypeOK

\* Undefined behaviour freezes the machine; what it froze is well typed.
LEMMA UndefinedType ==
  ASSUME TypeOK, undefined' \in {"register", "memory", "division", "tensor"},
         UNCHANGED <<program, policy, pc, halted, flags, call_stack, regs, mem, pools, trace, axion_log,
                     last_trap_payload, steps, gc_cycles, preload_trap, current_write>>
  PROVE  TypeOK'
<1>1. UNCHANGED frames /\ memory' = memory /\ program' = program
  BY DEF mem
<1>2. ControlOK' /\ TraceOK'
  BY DEF TypeOK, ControlOK, TraceOK
<1> QED
  BY <1>1, <1>2, SameFrames, SameMemory, SamePools, SameLog, SameRegs DEF TypeOK

\* A register operand the handler indexes holds a machine word and a tag.
LEMMA OperandType ==
  ASSUME TypeOK, NEW r \in Regs
  PROVE  registers[r] \in Int64 /\ registers[r] \in Int /\ register_tags[r] \in ValueTag
  BY DEF TypeOK, RegsOK, Int64

\* An instruction of UsesB or UsesC indexes that operand.
LEMMA SourceOperands ==
  ASSUME NEW ops, Fetch(ops),
         ops \subseteq UsesB \ {"Store", "MakeEnumVariantPayload"}
  PROVE  insn.b \in Regs /\ (insn.opcode \in UsesC \ TensorPairOps => insn.c \in Regs)
  BY DEF Fetch, OperandsInRange, IndexesB, IndexesC

LEMMA BumpType ==
  ASSUME TypeOK, Fetched, insn.a \in Regs, NEW v \in Int, Bump(v)
  PROVE  TypeOK'
<1>1. PICK w \in Words(v) : /\ registers' = [registers EXCEPT ![insn.a] = w]
                            /\ flags' \in {SignOf(v), SignOf(w)}
  BY DEF Bump
<1>2. w \in Int64 /\ w \in Int /\ flags' \in FlagState
  BY <1>1, WordsType, SignType
<1>3. pc' \in 0 .. Len(program.insns) /\ call_stack' \in Seq(1 .. Len(program.insns))
  BY InsnType DEF Bump, TypeOK, ControlOK
<1>4. ControlOK' /\ TraceOK' /\ program' = program
  BY <1>2, <1>3, GoType DEF Bump
<1>5. RegsOK'
  BY <1>1, <1>2 DEF Bump, TypeOK, RegsOK, ValueTag
<1>6. memory' = memory /\ UNCHANGED store
  BY DEF Bump
<1> QED
  BY <1>4, <1>5, <1>6, SameStore, SameMemory DEF TypeOK

\* Scalar instructions keep registers machine words and the rest well typed,
\* overflow included.
LEMMA ScalarType ==
  ASSUME TypeOK, Scalar
  PROVE  TypeOK'
<1>1. CASE LoadImm
  BY <1>1, InsnType, ResultType DEF LoadImm, Fetch, ValueTag, TypeOK
<1>2. CASE DivideByZero
  BY <1>2, QuietFaultType DEF DivideByZero, Fetch, TrapCode, SegmentKind
<1>3. CASE Arithmetic
  <2>1. insn.opcode \in ArithOps /\ insn.b \in Regs /\ insn.c \in Regs /\ Fetched
    BY <1>3 DEF Arithmetic, Fetch, OperandsInRange, IndexesB, IndexesC, TensorPairOps, UsesB, UsesC, ArithOps,
                AddOps, SubOps, MulOps, DivOps
  <2>2. registers[insn.b] \in Int /\ registers[insn.c] \in Int
    BY <2>1, OperandType
  <2>3. Arith(insn.opcode, registers[insn.b], registers[insn.c]) \in Int
    BY <1>3, <2>1, <2>2, ArithIsInt DEF Arithmetic
  <2> DEFINE v == Arith(insn.opcode, registers[insn.b], registers[insn.c])
             words == IF QuotientOverflows THEN Int64 ELSE Words(v)
  <2>4. words \in SUBSET Int64
    BY <2>3, WordsType
  <2>5. ProduceOneOf(words, v) /\ UNCHANGED store
    BY <1>3 DEF Arithmetic
  <2> HIDE DEF words, v
  <2> QED
    BY <2>1, <2>3, <2>4, <2>5, ProduceOneOfType DEF v
<1>4. CASE DivisionCrash
  BY <1>4, UndefinedType DEF DivisionCrash
<1>5. CASE Mov
  <2>1. insn.b \in Regs /\ Fetched
    BY <1>5, SourceOperands DEF Mov, Fetch, UsesB, ConvertOps
  <2> QED
    BY <1>5, <2>1, OperandType, ResultType DEF Mov
<1>6. CASE SetF
  <2>1. insn.b \in Regs /\ Fetched
    BY <1>6, SourceOperands DEF SetF, Fetch, UsesB
  <2> QED
    BY <1>6, <2>1, OperandType, ResultType DEF SetF, ValueTag
<1>7. CASE Neg
  <2>1. insn.b \in Regs /\ Fetched
    BY <1>7, SourceOperands DEF Neg, Fetch, UsesB
  <2>2. -registers[insn.b] \in Int
    BY <2>1, OperandType
  <2> QED
    BY <1>7, <2>1, <2>2, WordsType, ProduceOneOfType DEF Neg
<1>8. CASE Inc
  <2>1. insn.a \in Regs /\ Fetched
    BY <1>8 DEF Inc, Fetch, OperandsInRange, IndexesA
  <2>2. registers[insn.a] + 1 \in Int
    BY <2>1, OperandType
  <2> QED
    BY <1>8, <2>1, <2>2, BumpType DEF Inc
<1>9. CASE Dec
  <2>1. insn.a \in Regs /\ Fetched
    BY <1>9 DEF Dec, Fetch, OperandsInRange, IndexesA
  <2>2. registers[insn.a] - 1 \in Int
    BY <2>1, OperandType
  <2> QED
    BY <1>9, <2>1, <2>2, BumpType DEF Dec
<1>10. CASE Cmp
  <2>1. insn.a \in Regs /\ insn.b \in Regs /\ Fetched
    BY <1>10 DEF Cmp, Fetch, OperandsInRange, IndexesA, IndexesB, UsesB
  <2>2. Difference(registers[insn.a], registers[insn.b]) \in Int
    BY <2>1, OperandType DEF Difference
  <2>3. flags' \in FlagState
    BY <1>10, <2>2, WordsType, SignType DEF Cmp
  <2>4. pc' \in 0 .. Len(program.insns) /\ call_stack' \in Seq(1 .. Len(program.insns))
    BY <1>10, <2>1, InsnType DEF Cmp, TypeOK, ControlOK
  <2>5. ControlOK' /\ TraceOK' /\ program' = program
    BY <1>10, <2>1, <2>3, <2>4, GoType DEF Cmp
  <2>6. UNCHANGED data
    BY <1>10 DEF Cmp, data
  <2> QED
    BY <2>5, <2>6, SameData DEF TypeOK
<1>11. CASE Compare
  <2>1. 0 \in Int64 /\ 1 \in Int64
    BY IsaAssumption DEF Int64
  <2> QED
    BY <1>11, <2>1, ResultType DEF Compare, Fetch, ValueTag
<1>12. CASE TNot
  <2>1. insn.b \in Regs /\ Fetched
    BY <1>12, SourceOperands DEF TNot, Fetch, UsesB
  <2>2. -clamp_trit(registers[insn.b]) \in Int64
    BY <2>1, OperandType, IsaAssumption DEF clamp_trit, Int64
  <2> QED
    BY <1>12, <2>1, <2>2, ResultType DEF TNot, ValueTag
<1>13. CASE TritLogic
  <2>1. insn.opcode \in TritOps /\ insn.b \in Regs /\ insn.c \in Regs /\ Fetched
    BY <1>13 DEF TritLogic, Fetch, OperandsInRange, IndexesB, IndexesC, TensorPairOps, UsesB, UsesC, TritOps
  <2>2. clamp_trit(registers[insn.b]) \in -1 .. 1 /\ clamp_trit(registers[insn.c]) \in -1 .. 1
    BY <2>1, OperandType DEF clamp_trit
  <2>3. TritOp(insn.opcode, clamp_trit(registers[insn.b]), clamp_trit(registers[insn.c])) \in -1 .. 1
    BY <2>1, <2>2 DEF TritOp, TritXor, TritOps
  <2>4. -1 .. 1 \subseteq Int64
    BY IsaAssumption DEF Int64
  <2> QED
    BY <1>13, <2>1, <2>3, <2>4, ResultType DEF TritLogic, ValueTag
<1> QED
  BY <1>1, <1>2, <1>3, <1>4, <1>5, <1>6, <1>7, <1>8, <1>9, <1>10, <1>11, <1>12, <1>13 DEF Scalar

-----------------------------------------------------------------------------
(* Memory.                                                                 *)

\* The segments of a program's memory, laid out in a row.
LEMMA LayoutType ==
  ASSUME ControlOK
  PROVE  /\ StackStart \in Nat /\ StackLimit \in Nat /\ HeapStart \in Nat
         /\ HeapLimit \in Nat /\ TensorLimit \in Nat /\ MetaLimit \in Nat
         /\ Addresses(program) = 0 .. (MetaLimit - 1)
         /\ StackStart < StackLimit /\ StackLimit = HeapStart /\ HeapStart < HeapLimit
         /\ HeapLimit < TensorLimit /\ TensorLimit < MetaLimit
<1>1. Len(program.insns) \in Nat
  BY DEF ControlOK, Program
<1> QED
  BY <1>1, IsaAssumption
     DEF StackStart, StackLimit, HeapStart, HeapLimit, TensorLimit, MetaLimit, Addresses

\* valid_mem accepts the addresses of memory and no other.
LEMMA ValidMem ==
  ASSUME ControlOK, NEW addr \in Int
  PROVE  /\ valid_mem(addr) <=> addr \in Addresses(program)
         /\ segment_of(addr) \in SegmentKind
  BY LayoutType DEF valid_mem, segment_of, SegmentKind

\* What an instruction that leaves control as FallThrough does keeps well typed.
LEMMA AdvanceType ==
  ASSUME TypeOK, Fetched, Complete(NoWrite), pc' = pc + 1, flags' \in FlagState,
         call_stack' = call_stack
  PROVE  ControlOK' /\ TraceOK' /\ program' = program
<1>1. pc' \in 0 .. Len(program.insns) /\ call_stack' \in Seq(1 .. Len(program.insns))
  BY InsnType DEF TypeOK, ControlOK
<1> QED
  BY <1>1, GoType

LEMMA BoundsFaultType ==
  ASSUME TypeOK, Fetched, insn.opcode \in Opcode, NEW code \in TrapCode, NEW seg \in SegmentKind,
         BoundsFault(code, seg)
  PROVE  TypeOK'
  BY LoggedFaultType DEF BoundsFault, Event

\* The frame an allocator pushes, and the one it frees.
LEMMA FrameTypes ==
  ASSUME NEW live \in Seq(FrameRecord)
  PROVE  /\ \A addr \in Nat, size \in Nat \ {0} : Append(live, Frame(addr, size)) \in Seq(FrameRecord)
         /\ live # <<>> => /\ Last(live) \in FrameRecord
                           /\ Last(live).addr \in Nat /\ Last(live).size \in Nat \ {0}
                           /\ Front(live) \in Seq(FrameRecord)
<1>1. \A addr \in Nat, size \in Nat \ {0} : Frame(addr, size) \in FrameRecord
  BY DEF Frame, FrameRecord
<1>2. live # <<>> => Last(live) \in FrameRecord
  BY DEF Last
<1>3. live # <<>> => Front(live) \in Seq(FrameRecord)
  BY DEF Front
<1>4. \A f \in FrameRecord : f.addr \in Nat /\ f.size \in Nat \ {0}
  BY DEF FrameRecord
<1>5. \A f \in FrameRecord : Append(live, f) \in Seq(FrameRecord)
  OBVIOUS
<1>6. live # <<>> => Last(live).addr \in Nat /\ Last(live).size \in Nat \ {0}
  BY <1>2, <1>4
<1>7. \A addr \in Nat, size \in Nat \ {0} : Append(live, Frame(addr, size)) \in Seq(FrameRecord)
  BY <1>1, <1>5
<1> QED
  BY <1>2, <1>3, <1>6, <1>7

LEMMA LoadStoreType ==
  ASSUME TypeOK, Load \/ LoadOutside \/ Store \/ StoreOutside
  PROVE  TypeOK'
<1> USE DEF Fetch
<1>1. CASE Load
  <2>1. Fetched /\ insn.b \in Addresses(program)
    BY <1>1, InsnType, ValidMem DEF Load, TypeOK, Int64
  <2>2. memory[insn.b] \in Int64 /\ memory[insn.b] \in Int
    BY <2>1 DEF TypeOK, MemoryOK, Int64
  <2>3. UNCHANGED store
    BY <1>1 DEF Load, store
  <2> QED
    BY <1>1, <2>1, <2>2, <2>3, ResultType DEF Load, ValueTag
<1>2. CASE LoadOutside
  BY <1>2, BoundsFaultType DEF LoadOutside, TrapCode, SegmentKind, Opcode
<1>3. CASE Store
  <2>1. Fetched /\ insn.a \in Addresses(program) /\ insn.opcode \in Opcode
    BY <1>3, InsnType, ValidMem DEF Store, TypeOK, Int64, Opcode
  <2>2. insn.b \in Regs
    BY <1>3 DEF Store, OperandsInRange, IndexesB, UsesB
  <2>3. ControlOK' /\ TraceOK' /\ program' = program
    BY <1>3, AdvanceType DEF Store, TypeOK, ControlOK
  <2>4. MemoryOK'
    BY <1>3, <2>1, <2>2, <2>3, OperandType DEF Store, TypeOK, MemoryOK
  <2>5. LogOK'
    BY <1>3, <2>1, ValidMem, LogType, InsnType DEF Store, Event, TypeOK, Int64
  <2> QED
    BY <1>3, <2>3, <2>4, <2>5, SameRegs, SameFrames, SamePools DEF Store, TypeOK
<1>4. CASE StoreOutside
  BY <1>4, BoundsFaultType DEF StoreOutside, TrapCode, SegmentKind, Opcode
<1> QED
  BY <1>1, <1>2, <1>3, <1>4

LEMMA PushPopType ==
  ASSUME TypeOK, Push \/ PushBeyondMemory \/ PushFull \/ Pop \/ PopEmpty
  PROVE  TypeOK'
<1> USE DEF Fetch
<1>1. CASE Push
  <2>1. Fetched /\ insn.a \in Regs
    BY <1>1 DEF Push, OperandsInRange, IndexesA
  <2>2. ControlOK' /\ TraceOK' /\ program' = program
    BY <1>1, AdvanceType DEF Push, TypeOK, ControlOK
  <2>3. MemoryOK'
    BY <1>1, <2>1, <2>2, OperandType DEF Push, TypeOK, MemoryOK
  <2>4. FramesOK'
    BY <1>1, <2>2, LayoutType DEF Push, TypeOK, FramesOK, StackHasRoom, StackStart
  <2> QED
    BY <1>1, <2>2, <2>3, <2>4, SameRegs, SamePools, SameLog DEF Push, TypeOK
<1>2. CASE PushBeyondMemory
  BY <1>2, UndefinedType DEF PushBeyondMemory
<1>3. CASE PushFull
  BY <1>3, BoundsFaultType DEF PushFull, TrapCode, SegmentKind, Opcode
<1>4. CASE Pop
  <2>1. Fetched /\ insn.a \in Regs
    BY <1>4 DEF Pop, OperandsInRange, IndexesA
  <2>2. sp \in Addresses(program)
    BY <1>4, LayoutType DEF Pop, StackHasWord, TypeOK, FramesOK
  <2>3. memory[sp] \in Int64 /\ memory[sp] \in Int
    BY <2>2 DEF TypeOK, MemoryOK, Int64
  <2>4. ControlOK' /\ TraceOK' /\ program' = program
    BY <1>4, <2>3, AdvanceType, SignType DEF Pop
  <2>5. RegsOK'
    BY <1>4, <2>3 DEF Pop, TypeOK, RegsOK, ValueTag
  <2>6. FramesOK'
    BY <1>4, <2>4, LayoutType DEF Pop, TypeOK, FramesOK, StackStart
  <2> QED
    BY <1>4, <2>4, <2>5, <2>6, SameMemory, SamePools, SameLog DEF Pop, TypeOK
<1>5. CASE PopEmpty
  BY <1>5, BoundsFaultType DEF PopEmpty, TrapCode, SegmentKind, Opcode
<1> QED
  BY <1>1, <1>2, <1>3, <1>4, <1>5

LEMMA StackFrameType ==
  ASSUME TypeOK, StackAlloc \/ StackAllocFault \/ StackFree \/ StackFreeFault
  PROVE  TypeOK'
<1> USE DEF Fetch
<1>1. CASE StackAlloc
  <2>1. Fetched /\ insn.b \in Nat \ {0} /\ sp - insn.b \in Nat /\ sp - insn.b >= StackStart
    <3>1. Fetched /\ insn.b > 0 /\ insn.b <= sp /\ sp - insn.b >= StackStart
      BY <1>1 DEF StackAlloc
    <3>2. insn.b \in Int /\ sp \in Nat /\ StackStart \in Nat
      BY <3>1, InsnType, LayoutType DEF TypeOK, FramesOK, Int64
    <3> QED
      BY <3>1, <3>2
  <2>2. ControlOK' /\ RegsOK' /\ MemoryOK' /\ TraceOK' /\ program' = program
    <3>1. Wrap(sp - insn.b) \in Int64
      BY <2>1, WrapIsWord
    <3>2. flags \in FlagState /\ "Int" \in ValueTag
      BY DEF TypeOK, ControlOK, ValueTag
    <3>3. ProduceWith(Wrap(sp - insn.b), "Int", flags)
      BY <1>1 DEF StackAlloc
    <3> QED
      BY <2>1, <3>1, <3>2, <3>3, ProduceType
  <2>3. FramesOK'
    BY <1>1, <2>1, <2>2, FrameTypes DEF StackAlloc, TypeOK, FramesOK, StackStart
  <2>4. LogOK'
    BY <1>1, LogType DEF StackAlloc, TypeOK, Event, SegmentKind, Opcode, FrameOps
  <2> QED
    BY <1>1, <2>2, <2>3, <2>4, SamePools DEF StackAlloc, TypeOK
<1>2. CASE StackAllocFault
  BY <1>2, BoundsFaultType, QuietFaultType
     DEF StackAllocFault, TrapCode, SegmentKind, Opcode, FrameOps
<1>3. CASE StackFree
  <2>1. stack_frames \in Seq(FrameRecord) /\ stack_frames # <<>>
    BY <1>3 DEF StackFree, FreesTop, TypeOK, FramesOK
  <2>2. ControlOK' /\ TraceOK' /\ program' = program
    BY <1>3, AdvanceType DEF StackFree, TypeOK, ControlOK
  <2>3. FramesOK'
    BY <1>3, <2>1, <2>2, FrameTypes, LayoutType DEF StackFree, AfterFree, TypeOK, FramesOK, StackStart
  <2>4. LogOK'
    BY <1>3, LogType DEF StackFree, TypeOK, Event, SegmentKind, Opcode, FrameOps
  <2> QED
    BY <1>3, <2>2, <2>3, <2>4, SameRegs, SameMemory, SamePools DEF StackFree, TypeOK
<1>4. CASE StackFreeFault
  BY <1>4, QuietFaultType DEF StackFreeFault, TrapCode, SegmentKind
<1> QED
  BY <1>1, <1>2, <1>3, <1>4

LEMMA HeapBlockType ==
  ASSUME TypeOK, HeapAlloc \/ HeapAllocFault \/ HeapFree \/ HeapFreeFault
  PROVE  TypeOK'
<1> USE DEF Fetch
<1>1. CASE HeapAlloc
  <2>1. Fetched /\ insn.b \in Nat \ {0} /\ heap_ptr \in Nat /\ heap_ptr \in Int
    BY <1>1, InsnType DEF HeapAlloc, TypeOK, FramesOK, Int64
  <2>2. ControlOK' /\ RegsOK' /\ MemoryOK' /\ TraceOK' /\ program' = program
    <3>1. Wrap(heap_ptr) \in Int64
      BY <2>1, WrapIsWord
    <3>2. flags \in FlagState /\ "Int" \in ValueTag
      BY DEF TypeOK, ControlOK, ValueTag
    <3>3. ProduceWith(Wrap(heap_ptr), "Int", flags)
      BY <1>1 DEF HeapAlloc
    <3> QED
      BY <2>1, <3>1, <3>2, <3>3, ProduceType
  <2>3. FramesOK'
    <3>1. heap_ptr' \in Nat /\ UNCHANGED <<sp, stack_frames>>
      BY <1>1, <2>1 DEF HeapAlloc
    <3>2. heap_frames' \in Seq(FrameRecord)
      BY <1>1, <2>1, FrameTypes DEF HeapAlloc, TypeOK, FramesOK
    <3> QED
      BY <2>2, <3>1, <3>2 DEF TypeOK, FramesOK, StackStart
  <2>4. LogOK'
    BY <1>1, LogType DEF HeapAlloc, TypeOK, Event, SegmentKind, Opcode, FrameOps
  <2> QED
    BY <1>1, <2>2, <2>3, <2>4, SamePools DEF HeapAlloc, TypeOK
<1>2. CASE HeapAllocFault
  BY <1>2, BoundsFaultType, QuietFaultType
     DEF HeapAllocFault, TrapCode, SegmentKind, Opcode, FrameOps
<1>3. CASE HeapFree
  <2>1. heap_frames \in Seq(FrameRecord) /\ heap_frames # <<>>
    BY <1>3 DEF HeapFree, FreesTop, TypeOK, FramesOK
  <2>2. ControlOK' /\ TraceOK' /\ program' = program
    BY <1>3, AdvanceType DEF HeapFree, TypeOK, ControlOK
  <2>3. FramesOK'
    BY <1>3, <2>1, <2>2, FrameTypes DEF HeapFree, AfterHeapFree, TypeOK, FramesOK, StackStart
  <2>4. LogOK'
    BY <1>3, LogType DEF HeapFree, TypeOK, Event, SegmentKind, Opcode, FrameOps
  <2> QED
    BY <1>3, <2>2, <2>3, <2>4, SameRegs, SameMemory, SamePools DEF HeapFree, TypeOK
<1>4. CASE HeapFreeFault
  BY <1>4, QuietFaultType DEF HeapFreeFault, TrapCode, SegmentKind
<1> QED
  BY <1>1, <1>2, <1>3, <1>4

\* Loads, stores, the stack and the allocators preserve the types.
LEMMA MemoryType ==
  ASSUME TypeOK, Memory
  PROVE  TypeOK'
  BY LoadStoreType, PushPopType, StackFrameType, HeapBlockType DEF Memory

-----------------------------------------------------------------------------
(* Options, results and enums.                                             *)

LEMMA NextHandleType == ASSUME NEW S, NEW pool \in Seq(S) PROVE NextHandle(pool) \in Int64
  BY WrapIsWord DEF NextHandle

LEMMA ValueType ==
  ASSUME NEW present \in BOOLEAN, NEW variant \in Int64, NEW tag \in ValueTag, NEW payload \in Int64
  PROVE  Value(present, variant, tag, payload) \in PoolValue
  BY DEF Value, PoolValue

\* What an instruction that produced a register leaves well typed, pools and
\* log aside.
LEMMA ProducedType ==
  ASSUME TypeOK, Fetched, NEW v \in Int64, NEW tag \in ValueTag, Produce(v, tag), UNCHANGED frames,
         PoolsOK', LogOK'
  PROVE  TypeOK'
<1>1. SignOf(v) \in FlagState
  BY SignType DEF Int64
<1>2. ControlOK' /\ RegsOK' /\ MemoryOK' /\ TraceOK' /\ program' = program
  BY <1>1, ProduceType DEF Produce
<1> QED
  BY <1>2, SameFrames DEF TypeOK

\* The tag and word of a source register.
LEMMA SourceType ==
  ASSUME TypeOK, insn.b \in Regs
  PROVE  Source \in Int64 /\ SourceTag \in ValueTag
  BY OperandType DEF Source, SourceTag

\* A value a reader may read is a value of the pool.
LEMMA ReadableType ==
  ASSUME TypeOK, NEW op, Readable(ReaderPool(op))
  PROVE  ReaderPool(op)[Source] \in PoolValue
<1>1. ReaderPool(op) \in Seq(PoolValue)
  BY DEF ReaderPool, TypeOK, PoolsOK
<1> QED
  BY <1>1 DEF Readable, Resolves

\* Constructors and readers of options, results and enums preserve the types.
LEMMA ValuesType ==
  ASSUME TypeOK, Values
  PROVE  TypeOK'
<1> USE DEF Fetch
<1>0. /\ 0 \in Int64 /\ 1 \in Int64 /\ TRUE \in BOOLEAN /\ FALSE \in BOOLEAN
      /\ {"Int", "OptionHandle", "ResultHandle", "EnumHandle"} \subseteq ValueTag
  BY IsaAssumption DEF Int64, ValueTag
<1>1. CASE MakeOption
  <2>1. insn.opcode = "MakeOptionSome" => Source \in Int64 /\ SourceTag \in ValueTag
    BY <1>1, SourceType DEF MakeOption, OperandsInRange, IndexesB, UsesB, MakeOps
  <2>2. (IF insn.opcode = "MakeOptionSome" THEN Value(TRUE, 0, SourceTag, Source)
                                           ELSE Value(FALSE, 0, "Int", 0)) \in PoolValue
    BY <1>0, <2>1, ValueType
  <2>3. PoolsOK' /\ LogOK'
    <3>1. option_pool' \in Seq(PoolValue)
      <4> DEFINE val == IF insn.opcode = "MakeOptionSome" THEN Value(TRUE, 0, SourceTag, Source)
                                                          ELSE Value(FALSE, 0, "Int", 0)
      <4>1. val \in PoolValue /\ option_pool' = Append(option_pool, val)
        BY <1>1, <2>2 DEF MakeOption
      <4> HIDE DEF val
      <4> QED
        BY <4>1 DEF TypeOK, PoolsOK
    <3>2. UNCHANGED <<result_pool, enum_pool, tensor_pool, shape_pool, axion_log>>
      BY <1>1 DEF MakeOption, otherPools
    <3> QED
      BY <3>1, <3>2 DEF TypeOK, PoolsOK, LogOK
  <2>4. NextHandle(option_pool) \in Int64
    BY NextHandleType DEF TypeOK, PoolsOK
  <2> QED
    BY <1>0, <1>1, <2>3, <2>4, ProducedType DEF MakeOption
<1>2. CASE MakeResult
  <2>1. Source \in Int64 /\ SourceTag \in ValueTag
    BY <1>2, SourceType DEF MakeResult, OperandsInRange, IndexesB, UsesB, MakeOps
  <2>2. Value(insn.opcode = "MakeResultOk", 0, SourceTag, Source) \in PoolValue
    <3>1. (insn.opcode = "MakeResultOk") \in BOOLEAN
      OBVIOUS
    <3> QED
      BY <1>0, <2>1, <3>1, ValueType
  <2>3. PoolsOK' /\ LogOK'
    BY <1>2, <2>2 DEF MakeResult, TypeOK, PoolsOK, LogOK, otherPools
  <2>4. NextHandle(result_pool) \in Int64
    BY NextHandleType DEF TypeOK, PoolsOK
  <2> QED
    BY <1>0, <1>2, <2>3, <2>4, ProducedType DEF MakeResult
<1>3. CASE MakeEnum
  <2>1. insn.opcode = "MakeEnumVariantPayload" => Source \in Int64 /\ SourceTag \in ValueTag
    BY <1>3, SourceType DEF MakeEnum, OperandsInRange, IndexesB, UsesB, MakeOps
  <2>2. insn.b \in Int64 /\ insn.c \in Int64
    BY <1>3, InsnType DEF MakeEnum, TypeOK
  <2>3. (IF insn.opcode = "MakeEnumVariant" THEN Value(FALSE, insn.b, "Int", 0)
                                            ELSE Value(TRUE, insn.c, SourceTag, Source)) \in PoolValue
    BY <1>0, <1>3, <2>1, <2>2, ValueType DEF MakeEnum
  <2>4. PoolsOK' /\ LogOK'
    <3>1. enum_pool' \in Seq(PoolValue)
      <4> DEFINE val == IF insn.opcode = "MakeEnumVariant" THEN Value(FALSE, insn.b, "Int", 0)
                                                           ELSE Value(TRUE, insn.c, SourceTag, Source)
      <4>1. val \in PoolValue /\ enum_pool' = Append(enum_pool, val)
        BY <1>3, <2>3 DEF MakeEnum
      <4> HIDE DEF val
      <4> QED
        BY <4>1 DEF TypeOK, PoolsOK
    <3>2. UNCHANGED <<option_pool, result_pool, tensor_pool, shape_pool, axion_log>>
      BY <1>3 DEF MakeEnum, otherPools
    <3> QED
      BY <3>1, <3>2 DEF TypeOK, PoolsOK, LogOK
  <2>5. NextHandle(enum_pool) \in Int64
    BY NextHandleType DEF TypeOK, PoolsOK
  <2> QED
    BY <1>0, <1>3, <2>4, <2>5, ProducedType DEF MakeEnum
<1>4. CASE MakeEnumFault
  BY <1>4, QuietFaultType DEF MakeEnumFault, TrapCode, SegmentKind
<1>5. CASE ReaderTypeFault
  BY <1>5, QuietFaultType DEF ReaderTypeFault, TrapCode, SegmentKind
<1>6. CASE ReaderDecodeFault
  BY <1>6, QuietFaultType DEF ReaderDecodeFault, TrapCode, SegmentKind
<1>7. CASE Test
  <2>1. PoolsOK' /\ LogOK'
    BY <1>7, SamePools, SameLog DEF Test, TypeOK
  <2> QED
    BY <1>0, <1>7, <2>1, ProducedType DEF Test
<1>8. CASE Unwrap
  <2>1. PoolsOK' /\ LogOK'
    BY <1>8, SamePools, SameLog DEF Unwrap, TypeOK
  <2>2. ReaderPool(insn.opcode)[Source] \in PoolValue
    BY <1>8, ReadableType DEF Unwrap
  <2>3. /\ ReaderPool(insn.opcode)[Source].payload \in Int64
        /\ ReaderPool(insn.opcode)[Source].payload_tag \in ValueTag
    BY <2>2 DEF PoolValue
  <2> QED
    BY <1>8, <2>1, <2>3, ProducedType DEF Unwrap
<1> QED
  BY <1>1, <1>2, <1>3, <1>4, <1>5, <1>6, <1>7, <1>8 DEF Values

-----------------------------------------------------------------------------
(* Tensors.                                                                *)

\* The operands of a tensor instruction that has found them.
LEMMA TensorOperands ==
  ASSUME TypeOK, Fetch(TensorOps), Tagged, Resolved
  PROVE  /\ Left \in TensorValue
         /\ insn.opcode \in TensorPairOps \ {"ChkShape"} => Right \in TensorValue
<1>1. tensor_pool \in Seq(TensorValue)
  BY DEF TypeOK, PoolsOK
<1>2. Left \in TensorValue
  BY <1>1 DEF Resolved, Resolves, Left
<1>3. ASSUME insn.opcode \in TensorPairOps \ {"ChkShape"}
      PROVE  Right \in TensorValue
  <2>1. RightPool = tensor_pool
    BY <1>3 DEF RightPool
  <2> QED
    BY <1>1, <1>3, <2>1 DEF Resolved, Resolves, Right
<1> QED
  BY <1>2, <1>3

\* The tensor a tensor instruction makes is a shape and a size.
LEMMA MadeType ==
  ASSUME TypeOK, Fetch(TensorOps \ {"ChkShape"}), Tagged, Resolved, Fits
  PROVE  Made \in TensorValue
<1>1. Fetch(TensorOps)
  BY DEF Fetch
<1>2. Left \in TensorValue /\ (insn.opcode \in TensorPairOps \ {"ChkShape"} => Right \in TensorValue)
  BY <1>1, TensorOperands
<1>3. CASE insn.opcode = "TMatMul"
  <2>1. Right \in TensorValue
    BY <1>2, <1>3 DEF TensorPairOps
  <2>2. /\ Left.shape \in Seq(Int64) /\ Len(Left.shape) = 2
        /\ Right.shape \in Seq(Int64) /\ Len(Right.shape) = 2
    BY <1>2, <1>3, <2>1 DEF Fits, IsMatrix, TensorValue
  <2>3. Left.shape[1] \in Int64 /\ Right.shape[2] \in Int64
    BY <2>2
  <2>4. Left.shape[1] \in Int /\ Right.shape[2] \in Int
    BY <2>3 DEF Int64
  <2>5. Left.shape[1] * Right.shape[2] \in Int
    BY <2>4
  <2>6. Elements(Left.shape[1], Right.shape[2]) \in Nat
    <3>1. 2 * Half \in Nat \ {0}
      BY IsaAssumption
    <3> QED
      BY <2>5, <3>1 DEF Elements
  <2> QED
    BY <1>3, <2>3, <2>6 DEF Made, Tensor, TensorValue
<1>4. CASE insn.opcode = "TTenDot"
  <2>1. 1 \in Int64
    BY IsaAssumption DEF Int64
  <2> QED
    BY <1>4, <2>1 DEF Made, Tensor, TensorValue
<1>5. CASE insn.opcode = "TTranspose"
  <2>1. Left.shape \in Seq(Int64) /\ Len(Left.shape) = 2
    BY <1>2, <1>5 DEF Fits, IsMatrix, TensorValue
  <2>2. Left.shape[1] \in Int64 /\ Left.shape[2] \in Int64
    BY <2>1
  <2> QED
    BY <1>2, <1>5, <2>2 DEF Made, Tensor, TensorValue
<1>6. CASE insn.opcode \notin {"TMatMul", "TTenDot", "TTranspose"}
  BY <1>2, <1>6 DEF Made
<1> QED
  BY <1>3, <1>4, <1>5, <1>6

\* Tensor instructions preserve the types: what they intern is a tensor.
LEMMA TensorType ==
  ASSUME TypeOK, TensorStep
  PROVE  TypeOK'
<1>0. 0 \in Int64 /\ 1 \in Int64 /\ {"Int", "TensorHandle"} \subseteq ValueTag
  BY IsaAssumption DEF Int64, ValueTag
<1>1. CASE TensorTypeFault \/ TensorDecodeFault \/ TensorShapeFault
  BY <1>1, QuietFaultType
     DEF TensorTypeFault, TensorDecodeFault, TensorShapeFault, Fetch, TrapCode, SegmentKind
<1>2. CASE MakeTensor
  <2>1. Fetched /\ Made \in TensorValue
    BY <1>2, MadeType DEF MakeTensor, Fetch
  <2>2. tensor_pool' \in Seq(TensorValue)
    BY <1>2, <2>1 DEF MakeTensor, TypeOK, PoolsOK
  <2>3. PoolsOK' /\ LogOK'
    BY <1>2, <2>2 DEF MakeTensor, TypeOK, PoolsOK, LogOK
  <2>4. NextHandle(tensor_pool) \in Int64
    BY NextHandleType DEF TypeOK, PoolsOK
  <2> QED
    BY <1>0, <1>2, <2>1, <2>3, <2>4, ProducedType DEF MakeTensor
<1>3. CASE ChkShape
  <2>1. PoolsOK' /\ LogOK'
    BY <1>3, SamePools, SameLog DEF ChkShape, TypeOK
  <2> QED
    BY <1>0, <1>3, <2>1, ProducedType DEF ChkShape, Fetch
<1>4. CASE TensorOverrun
  BY <1>4, UndefinedType DEF TensorOverrun
<1> QED
  BY <1>1, <1>2, <1>3, <1>4 DEF TensorStep

-----------------------------------------------------------------------------
(* The policy instructions.                                                *)

\* The segment a guarded instruction presents is a segment.
LEMMA GuardSegmentType ==
  ASSUME TypeOK, Fetch(AxionOps)
  PROVE  GuardSegment \in SegmentKind
<1>1. insn.b \in Int
  BY InsnType DEF Fetch, TypeOK, Int64
<1>2. insn.opcode = "AxSet" => registers[insn.a] \in Int
  BY OperandType DEF Fetch, OperandsInRange, IndexesA
<1> QED
  BY <1>1, <1>2, ValidMem DEF GuardSegment, Fetch, AxionOps, TypeOK, SegmentKind

\* Guards, whether they allow or deny, and WeightsLoad preserve the types.
LEMMA AxionType ==
  ASSUME TypeOK, Axion
  PROVE  TypeOK'
<1>0. 0 \in Int64 /\ "Int" \in ValueTag /\ "WeightsTensorHandle" \in ValueTag
      /\ AxionOps \subseteq Opcode /\ "WeightsLoad" \in Opcode
  BY IsaAssumption DEF Int64, ValueTag, Opcode
<1>1. CASE AxionDeny
  BY <1>0, <1>1, GuardSegmentType, LoggedFaultType DEF AxionDeny, Fetch, Event, TrapCode
<1>2. CASE AxRead
  <2>1. Fetch(AxionOps) /\ Fetched
    BY <1>2 DEF AxRead, Fetch, AxionOps
  <2>2. PoolsOK' /\ LogOK'
    BY <1>0, <1>2, <2>1, GuardSegmentType, LogType, SamePools DEF AxRead, TypeOK, Event, Fetch
  <2> QED
    BY <1>0, <1>2, <2>1, <2>2, InsnType, ProducedType DEF AxRead, TypeOK
<1>3. CASE AxSet
  <2>1. Fetch(AxionOps) /\ Fetched
    BY <1>3 DEF AxSet, Fetch, AxionOps
  <2>2. LogOK'
    BY <1>0, <1>3, <2>1, GuardSegmentType, LogType DEF AxSet, TypeOK, Event, Fetch
  <2>3. ControlOK' /\ TraceOK' /\ program' = program
    BY <1>3, <2>1, AdvanceType DEF AxSet, TypeOK, ControlOK
  <2>4. memory' = memory /\ UNCHANGED frames
    BY <1>3 DEF AxSet, mem
  <2> QED
    BY <1>3, <2>2, <2>3, <2>4, SameRegs, SameMemory, SameFrames, SamePools DEF AxSet, TypeOK
<1>4. CASE AxVerify
  <2>1. Fetch(AxionOps) /\ Fetched
    BY <1>4 DEF AxVerify, Fetch, AxionOps
  <2>2. PoolsOK' /\ LogOK'
    BY <1>0, <1>4, <2>1, GuardSegmentType, LogType, SamePools DEF AxVerify, TypeOK, Event, Fetch
  <2> QED
    BY <1>0, <1>4, <2>1, <2>2, ProducedType DEF AxVerify
<1>5. CASE WeightsLoad
  <2>1. Fetched /\ insn.opcode \in Opcode
    BY <1>0, <1>5 DEF WeightsLoad, Fetch
  <2>2. (IF insn.b > 0 THEN insn.b ELSE Wrap(WeightsBase + pc)) \in Int64
    BY <2>1, InsnType, WrapIsWord, IsaAssumption DEF TypeOK
  <2>3. PoolsOK' /\ LogOK'
    BY <1>5, <2>1, LogType, SamePools DEF WeightsLoad, TypeOK, Event, SegmentKind
  <2> QED
    BY <1>0, <1>5, <2>1, <2>2, <2>3, ProducedType DEF WeightsLoad
<1> QED
  BY <1>1, <1>2, <1>3, <1>4, <1>5 DEF Axion

-----------------------------------------------------------------------------
(* The prologue, the host, and the theorem.                                *)

\* A trap raised before the switch preserves the types, stale latch included.
LEMMA PrologueType ==
  ASSUME TypeOK, Prologue
  PROVE  TypeOK'
<1>0. "unknown" \in SegmentKind /\ "DecodeFault" \in TrapCode /\ {"Nop", IllegalOpcode} \subseteq OpcodeByte
  BY DEF SegmentKind, TrapCode, OpcodeByte, Opcode
<1>1. ASSUME NEW code \in TrapCode, NEW op \in OpcodeByte, PrologueTrap(code, op)
      PROVE  TypeOK'
  <2>1. steps' \in Nat /\ gc_cycles' \in Nat /\ current_write \in WriteRecord
    BY <1>1 DEF PrologueTrap, TypeOK, TraceOK
  <2>2. LogOK'
    BY <1>1, SameLog DEF PrologueTrap, TypeOK
  <2> QED
    BY <1>0, <1>1, <2>1, <2>2, TrapType DEF PrologueTrap, TypeOK
<1>2. CASE PreloadTrap
  <2>1. preload_trap \in TrapCode
    BY <1>2 DEF PreloadTrap, TypeOK, TraceOK
  <2>2. (IF pc < Len(program.insns) THEN insn.opcode ELSE "Nop") \in OpcodeByte
    <3>1. program.insns \in Seq(Insn) /\ pc \in Nat
      BY DEF TypeOK, ControlOK, Program
    <3>2. pc < Len(program.insns) => insn \in Insn
      BY <3>1 DEF insn
    <3> QED
      BY <1>0, <3>2 DEF Insn, OpcodeByte
  <2> QED
    BY <1>1, <1>2, <2>1, <2>2 DEF PreloadTrap
<1>3. CASE FallOff
  BY <1>0, <1>1, <1>3 DEF FallOff
<1>4. CASE UnknownOpcode
  BY <1>0, <1>4, QuietFaultType DEF UnknownOpcode
<1>5. CASE UndefinedRead
  BY <1>5, UndefinedType DEF UndefinedRead
<1> QED
  BY <1>2, <1>3, <1>4, <1>5 DEF Prologue

\* A loaded program starts from a well-typed state.
LEMMA InitType ==
  ASSUME Init
  PROVE  TypeOK
<1>1. program \in Program /\ program.insns \in Seq(Insn)
  BY ProgramsAssumption DEF Init, Loaded, Program
<1>2. 0 \in Int64 /\ "Int" \in ValueTag
  BY IsaAssumption DEF Int64, ValueTag
<1>3. ControlOK
  <2>1. Len(program.insns) \in Nat /\ <<>> \in Seq(1 .. Len(program.insns))
    BY <1>1
  <2>2. pc = 0 /\ halted = FALSE /\ flags = "none" /\ call_stack = <<>>
    BY DEF Init, Loaded
  <2>3. pc \in 0 .. Len(program.insns) /\ call_stack \in Seq(1 .. Len(program.insns))
    BY <2>1, <2>2
  <2>4. halted \in BOOLEAN /\ flags \in FlagState
    BY <2>2 DEF FlagState
  <2> QED
    BY <1>1, <2>3, <2>4 DEF ControlOK
<1>4. RegsOK /\ MemoryOK
  BY <1>2 DEF Init, Loaded, RegsOK, MemoryOK, Zeroed
<1>5. FramesOK
  BY <1>3, LayoutType DEF Init, Loaded, FramesOK, StackStart
<1>6. NoPayload \in TrapPayload
  BY <1>2 DEF NoPayload, Payload, TrapPayload, OpcodeByte, Opcode, SegmentKind
<1>7. TraceOK
  BY <1>1, <1>6, NoWriteType DEF Init, Loaded, TraceOK, validate_program, TrapCode, Program
<1> QED
  BY <1>3, <1>4, <1>5, <1>7 DEF Init, Loaded, TypeOK, PoolsOK, LogOK

\* Loading a program over another leaves a well-typed state.
LEMMA LoadType ==
  ASSUME TypeOK, load_program
  PROVE  TypeOK'
<1>1. program' \in Program /\ program'.insns \in Seq(Insn)
  BY ProgramsAssumption DEF load_program, Program
<1>2. 0 \in Int64 /\ "Int" \in ValueTag
  BY IsaAssumption DEF Int64, ValueTag
<1>3. ControlOK'
  <2>1. Len(program'.insns) \in Nat /\ <<>> \in Seq(1 .. Len(program'.insns))
    BY <1>1
  <2>2. pc' = 0 /\ halted' = FALSE /\ flags' = "none" /\ call_stack' = <<>>
    BY DEF load_program
  <2>3. pc' \in 0 .. Len(program'.insns) /\ call_stack' \in Seq(1 .. Len(program'.insns))
    BY <2>1, <2>2
  <2>4. halted' \in BOOLEAN /\ flags' \in FlagState
    BY <2>2 DEF FlagState
  <2> QED
    BY <1>1, <2>3, <2>4 DEF ControlOK
<1>4. RegsOK' /\ MemoryOK'
  BY <1>2 DEF load_program, RegsOK, MemoryOK, Zeroed
<1>5. FramesOK'
  <2>1. Len(program'.insns) \in Nat
    BY <1>1
  <2>2. StackStart' \in Nat /\ StackLimit' \in Nat /\ HeapStart' \in Nat /\ StackLimit' >= StackStart'
    BY <2>1, IsaAssumption DEF StackStart, StackLimit, HeapStart
  <2> QED
    BY <2>2 DEF load_program, FramesOK
<1>6. NoPayload \in TrapPayload
  BY <1>2 DEF NoPayload, Payload, TrapPayload, OpcodeByte, Opcode, SegmentKind
<1>7. TraceOK'
  BY <1>1, <1>6 DEF load_program, TypeOK, TraceOK, validate_program, TrapCode, parse_policy,
                    ClearedSteps, Program
<1> QED
  BY <1>3, <1>4, <1>5, <1>7 DEF load_program, TypeOK, PoolsOK, LogOK

\* A register write of the host leaves a well-typed state.
LEMMA SetRegisterType ==
  ASSUME TypeOK, set_register
  PROVE  TypeOK'
<1>1. PICK w \in HostWrites : set_register_to(w)
  BY DEF set_register
<1>2. w.value \in Int64 /\ w.tag \in ValueTag
  BY HostWritesAssumption
<1>3. RegsOK'
  BY <1>1, <1>2 DEF set_register_to, TypeOK, RegsOK
<1>4. TraceOK'
  BY <1>1, <1>2 DEF set_register_to, TypeOK, TraceOK, Write, WriteRecord
<1>5. ControlOK' /\ program' = program /\ memory' = memory /\ UNCHANGED frames
  BY <1>1 DEF set_register_to, TypeOK, ControlOK, mem
<1> QED
  BY <1>1, <1>3, <1>4, <1>5, SameMemory, SameFrames, SamePools, SameLog
     DEF set_register_to, TypeOK

\* A tensor or a shape the host provides leaves a well-typed state.
LEMMA SeedType ==
  ASSUME TypeOK, seed_tensor
  PROVE  TypeOK'
<1> DEFINE Handle(s) == NextHandle(IF s.tag = "TensorHandle" THEN tensor_pool ELSE shape_pool)
<1>1. PICK s \in HostSeeds :
        /\ tensor_pool' = IF s.tag = "TensorHandle" THEN Append(tensor_pool, s.tensor) ELSE tensor_pool
        /\ shape_pool' = IF s.tag = "ShapeHandle" THEN Append(shape_pool, s.tensor.shape) ELSE shape_pool
        /\ registers' = [registers EXCEPT ![s.idx] = Handle(s)]
        /\ register_tags' = [register_tags EXCEPT ![s.idx] = s.tag]
        /\ current_write' = Write(s.idx, Handle(s), s.tag)
  BY DEF seed_tensor
<1>2. s.idx \in Regs /\ s.tag \in ValueTag /\ s.tensor \in TensorValue /\ s.tensor.shape \in Seq(Int64)
  BY HostSeedsAssumption DEF ValueTag, TensorValue
<1>3. tensor_pool \in Seq(TensorValue) /\ shape_pool \in Seq(Seq(Int64))
  BY DEF TypeOK, PoolsOK
<1>4. Handle(s) \in Int64
  BY <1>3, NextHandleType
<1> HIDE DEF Handle
<1>5. RegsOK'
  BY <1>1, <1>2, <1>4 DEF TypeOK, RegsOK
<1>6. TraceOK'
  BY <1>1, <1>2, <1>4 DEF seed_tensor, TypeOK, TraceOK, Write, WriteRecord
<1>7. PoolsOK'
  <2>1. tensor_pool' \in Seq(TensorValue) /\ shape_pool' \in Seq(Seq(Int64))
    BY <1>1, <1>2, <1>3
  <2> QED
    BY <2>1 DEF seed_tensor, TypeOK, PoolsOK
<1>8. ControlOK' /\ program' = program /\ memory' = memory /\ UNCHANGED frames
  BY DEF seed_tensor, TypeOK, ControlOK, mem
<1> QED
  BY <1>5, <1>6, <1>7, <1>8, SameMemory, SameFrames, SameLog DEF seed_tensor, TypeOK

\* Every step of the machine and of its host preserves the types.
LEMMA NextType ==
  ASSUME TypeOK, [Next]_vars
  PROVE  TypeOK'
<1>1. CASE step
  BY <1>1, PrologueType, FlowType, ScalarType, MemoryType, ValuesType, TensorType, AxionType DEF step
<1>2. CASE load_program
  BY <1>2, LoadType
<1>3. CASE set_register
  BY <1>3, SetRegisterType
<1>4. CASE seed_tensor
  BY <1>4, SeedType
<1>5. CASE UNCHANGED vars
  <2>1. UNCHANGED frames /\ memory' = memory /\ program' = program
    BY <1>5 DEF vars, mem
  <2>2. ControlOK' /\ TraceOK'
    BY <1>5 DEF vars, TypeOK, ControlOK, TraceOK
  <2> QED
    BY <1>5, <2>1, <2>2, SameFrames, SameMemory, SamePools, SameLog, SameRegs DEF vars, TypeOK
<1> QED
  BY <1>1, <1>2, <1>3, <1>4, <1>5 DEF Next

\* Every reachable state of the VM is well typed: whatever the program, the
\* validator's verdict, the host's calls and the outcome of an overflow, pc and
\* the return addresses stay within one past the program, sp does not fall
\* below the stack, and registers and memory hold machine words.
THEOREM TypeCorrect == Spec => []TypeOK
<1>1. Init => TypeOK
  BY InitType
<1>2. TypeOK /\ [Next]_vars => TypeOK'
  BY NextType
<1> QED
  BY <1>1, <1>2, PTL DEF Spec

=============================================================================
