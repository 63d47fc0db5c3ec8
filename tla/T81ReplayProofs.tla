--------------------------- MODULE T81ReplayProofs ---------------------------
(***************************************************************************)
(* Replays: a VM with a history and a fresh one, given one program and the  *)
(* same calls, never part.  Both VMs are the same module twice; what one    *)
(* handler does on either is compared handler by handler.                   *)
(***************************************************************************)
EXTENDS T81Replay, T81TraceProofs

-----------------------------------------------------------------------------
(* Two VMs in the same state.                                              *)

\* They agree on all but the trace and the write latch.
SameRun ==
  /\ fresh_program = program /\ fresh_policy = policy /\ fresh_pc = pc /\ fresh_halted = halted
  /\ fresh_flags = flags /\ fresh_call_stack = call_stack
  /\ fresh_registers = registers /\ fresh_register_tags = register_tags
  /\ fresh_memory = memory /\ fresh_sp = sp /\ fresh_heap_ptr = heap_ptr
  /\ fresh_stack_frames = stack_frames /\ fresh_heap_frames = heap_frames
  /\ fresh_option_pool = option_pool /\ fresh_result_pool = result_pool
  /\ fresh_enum_pool = enum_pool /\ fresh_tensor_pool = tensor_pool
  /\ fresh_shape_pool = shape_pool /\ fresh_axion_log = axion_log
  /\ fresh_last_trap_payload = last_trap_payload /\ fresh_steps = steps
  /\ fresh_gc_cycles = gc_cycles /\ fresh_preload_trap = preload_trap
  /\ fresh_undefined = undefined

\* The traces agree up to the latched writes of what the prologue trapped.
SameTrace ==
  /\ fresh_trace \in Seq(TraceEntry) /\ fresh_current_write \in WriteRecord
  /\ Len(fresh_trace) = Len(trace)
  /\ \A k \in 1 .. Len(trace) :
       /\ [fresh_trace[k] EXCEPT !.write = NoWrite] = [trace[k] EXCEPT !.write = NoWrite]
       /\ k \in Executed => fresh_trace[k] = trace[k]

Same == SameRun /\ Len(fresh_trace) = Len(trace)

\* Words, opcodes and records are the same for both.
LEMMA SameConstants ==
  /\ Fresh!ArithOps = ArithOps /\ Fresh!CompareOps = CompareOps /\ Fresh!TritOps = TritOps
  /\ Fresh!ConvertOps = ConvertOps /\ Fresh!BranchOps = BranchOps /\ Fresh!AxionOps = AxionOps
  /\ Fresh!UnwrapOps = UnwrapOps /\ Fresh!TensorPairOps = TensorPairOps
  /\ Fresh!TensorUnaryOps = TensorUnaryOps /\ Fresh!TensorOps = TensorOps /\ Fresh!Tests = Tests
  /\ Fresh!UsesB = UsesB /\ Fresh!UsesC = UsesC /\ Fresh!Regs = Regs
  /\ Fresh!NoTrap = NoTrap /\ Fresh!NoWrite = NoWrite /\ Fresh!NoPayload = NoPayload
  /\ Fresh!IllegalOpcode = IllegalOpcode
BY DEF Fresh!ArithOps, Fresh!AddOps, Fresh!SubOps, Fresh!MulOps, Fresh!DivOps, ArithOps, AddOps,
       SubOps, MulOps, DivOps, Fresh!CompareOps, CompareOps, Fresh!TritOps, TritOps,
       Fresh!ConvertOps, ConvertOps, Fresh!BranchOps, BranchOps, Fresh!AxionOps, AxionOps,
       Fresh!UnwrapOps, UnwrapOps, Fresh!TensorPairOps, TensorPairOps, Fresh!TensorUnaryOps,
       TensorUnaryOps, Fresh!TensorOps, TensorOps, Fresh!Tests, Tests, Fresh!UsesB, UsesB,
       Fresh!UsesC, UsesC, Fresh!MakeOps, MakeOps, Fresh!Regs, Regs, Fresh!NoTrap, NoTrap,
       Fresh!NoWrite, NoWrite, Fresh!Write, Write, Fresh!NoPayload, NoPayload, Fresh!Payload,
       Payload, Fresh!IllegalOpcode, IllegalOpcode

LEMMA SameWords ==
  /\ \A v : Fresh!Wrap(v) = Wrap(v) /\ Fresh!SignOf(v) = SignOf(v)
            /\ Fresh!clamp_trit(v) = clamp_trit(v) /\ Fresh!Divides(v) = Divides(v)
            /\ Fresh!Words(v) = Words(v)
  /\ \A op, x, y : /\ Fresh!Arith(op, x, y) = Arith(op, x, y)
                   /\ Fresh!Holds(op, x, y) = Holds(op, x, y)
                   /\ Fresh!TritOp(op, x, y) = TritOp(op, x, y)
                   /\ Fresh!Write(op, x, y) = Write(op, x, y)
  /\ \A a, b, c, d : Fresh!Entry(a, b, c, d) = Entry(a, b, c, d)
  /\ \A a, b, c, d, e : Fresh!Payload(a, b, c, d, e) = Payload(a, b, c, d, e)
  /\ \A x, y : Fresh!Frame(x, y) = Frame(x, y) /\ Fresh!Difference(x, y) = Difference(x, y)
<1>1. \A v : Fresh!Wrap(v) = Wrap(v) /\ Fresh!SignOf(v) = SignOf(v)
             /\ Fresh!clamp_trit(v) = clamp_trit(v) /\ Fresh!Divides(v) = Divides(v)
             /\ Fresh!Words(v) = Words(v)
  BY DEF Fresh!Words, Words, Fresh!Int64, Int64, Fresh!Wrap, Wrap, Fresh!SignOf, SignOf, Fresh!clamp_trit, clamp_trit, Fresh!Divides,
         Divides, Fresh!DivOps, DivOps
<1>2. ASSUME NEW op, NEW x, NEW y
      PROVE  /\ Fresh!Arith(op, x, y) = Arith(op, x, y)
             /\ Fresh!Holds(op, x, y) = Holds(op, x, y)
             /\ Fresh!TritOp(op, x, y) = TritOp(op, x, y)
             /\ Fresh!Write(op, x, y) = Write(op, x, y)
  <2>1. Fresh!Arith(op, x, y) = Arith(op, x, y)
    BY Zenon DEF Fresh!Arith, Arith, Fresh!AddOps, AddOps, Fresh!SubOps, SubOps, Fresh!MulOps, MulOps,
           Fresh!DivOps, DivOps, Fresh!TruncDiv, TruncDiv, Fresh!TruncMod, TruncMod,
           Fresh!Magnitude, Magnitude
  <2>2. Fresh!Holds(op, x, y) = Holds(op, x, y) /\ Fresh!TritOp(op, x, y) = TritOp(op, x, y)
    BY DEF Fresh!Holds, Holds, Fresh!TritOp, TritOp, Fresh!TritXor, TritXor
  <2> QED
    BY <2>1, <2>2 DEF Fresh!Write, Write
<1> QED
  BY <1>1, <1>2 DEF Fresh!Entry, Entry, Fresh!Payload, Payload, Fresh!Frame, Frame,
                    Fresh!Difference, Difference

\* The layout is the program's.
LEMMA SameLayout ==
  ASSUME Same
  PROVE  /\ Fresh!StackStart = StackStart /\ Fresh!StackLimit = StackLimit
         /\ Fresh!HeapStart = HeapStart /\ Fresh!HeapLimit = HeapLimit
         /\ \A addr : /\ Fresh!segment_of(addr) = segment_of(addr)
                      /\ Fresh!valid_mem(addr) = valid_mem(addr)
BY DEF Same, SameRun, Fresh!StackStart, StackStart, Fresh!StackLimit, StackLimit, Fresh!HeapStart,
       HeapStart, Fresh!HeapLimit, HeapLimit, Fresh!TensorLimit, TensorLimit, Fresh!MetaLimit,
       MetaLimit, Fresh!segment_of, segment_of, Fresh!valid_mem, valid_mem

\* The prologue lets the same instruction through.
LEMMA SameFetch ==
  ASSUME Same
  PROVE  /\ Fresh!insn = insn
         /\ Fresh!Stepping = Stepping /\ Fresh!Fetched = Fetched
         /\ Fresh!StackHasRoom = StackHasRoom /\ Fresh!StackHasWord = StackHasWord
         /\ Fresh!OperandsInRange(insn) = OperandsInRange(insn)
         /\ \A S : Fresh!Fetch(S) = Fetch(S)
<1>1. Fresh!insn = insn /\ Fresh!Stepping = Stepping /\ Fresh!Fetched = Fetched
  BY SameConstants DEF Same, SameRun, Fresh!insn, insn, Fresh!Stepping, Stepping, Fresh!Fetched, Fetched
<1>2. Fresh!StackHasRoom = StackHasRoom /\ Fresh!StackHasWord = StackHasWord
  BY SameLayout DEF Same, SameRun, Fresh!StackHasRoom, StackHasRoom, Fresh!StackHasWord, StackHasWord
<1>3. Fresh!OperandsInRange(insn) = OperandsInRange(insn)
  BY <1>2, SameConstants, SameLayout
     DEF Same, SameRun, Fresh!OperandsInRange, OperandsInRange, Fresh!IndexesA, IndexesA,
         Fresh!IndexesB, IndexesB, Fresh!IndexesC, IndexesC
<1> QED
  BY <1>1, <1>2, <1>3 DEF Fresh!Fetch, Fetch

-----------------------------------------------------------------------------
(* The same step on both.                                                  *)

\* Both record one more entry, the same, or both run into the undefined.
Recorded ==
  /\ fresh_program' = program' /\ fresh_policy' = policy' /\ fresh_halted' = halted' /\ fresh_preload_trap' = preload_trap'
  /\ fresh_last_trap_payload' = last_trap_payload' /\ fresh_undefined' = undefined'
  /\ fresh_steps' = steps' /\ fresh_gc_cycles' = gc_cycles'
  /\ program' = program
  /\ \/ /\ fresh_current_write' = current_write'
        /\ \E e : trace' = Append(trace, e) /\ fresh_trace' = Append(fresh_trace, e)
     \/ UNCHANGED <<trace, current_write, fresh_trace, fresh_current_write>>

RegistersTogether == fresh_registers' = registers' /\ fresh_register_tags' = register_tags'
FramesTogether ==
  /\ fresh_sp' = sp' /\ fresh_heap_ptr' = heap_ptr'
  /\ fresh_stack_frames' = stack_frames' /\ fresh_heap_frames' = heap_frames'
PoolsTogether ==
  /\ fresh_option_pool' = option_pool' /\ fresh_result_pool' = result_pool'
  /\ fresh_enum_pool' = enum_pool' /\ fresh_tensor_pool' = tensor_pool'
  /\ fresh_shape_pool' = shape_pool'
FlowTogether == fresh_pc' = pc' /\ fresh_flags' = flags' /\ fresh_call_stack' = call_stack'
LogTogether == fresh_axion_log' = axion_log'

Together ==
  /\ Recorded /\ RegistersTogether /\ FramesTogether /\ PoolsTogether /\ FlowTogether
  /\ LogTogether /\ fresh_memory' = memory'

LEMMA RetireTogether ==
  ASSUME Same, NEW w, Retire(w), Fresh!Retire(w), fresh_halted' = halted',
         fresh_last_trap_payload' = last_trap_payload'
  PROVE  Recorded
BY SameFetch, SameWords, SameConstants
   DEF Same, SameRun, Recorded, Retire, Fresh!Retire, CountStep, Fresh!CountStep

LEMMA CompleteTogether ==
  ASSUME Same, NEW w, Complete(w), Fresh!Complete(w)
  PROVE  Recorded
BY RetireTogether DEF Same, SameRun, Complete, Fresh!Complete

LEMMA FaultTogether ==
  ASSUME Same, NEW code, NEW segment, Fault(code, segment), Fresh!Fault(code, segment), LogTogether
  PROVE  Together
<1>1. Recorded
  BY SameFetch, SameWords, SameConstants
     DEF Same, SameRun, Recorded, Fault, Fresh!Fault, trap, Fresh!trap, CountStep, Fresh!CountStep
<1>2. /\ UNCHANGED <<pc, flags, call_stack, registers, register_tags, memory, sp, heap_ptr,
                     stack_frames, heap_frames>>
      /\ UNCHANGED <<option_pool, result_pool, enum_pool, tensor_pool, shape_pool>>
  BY DEF Fault, trap, regs, mem, frames, pools
<1>3. /\ UNCHANGED <<fresh_pc, fresh_flags, fresh_call_stack, fresh_registers, fresh_register_tags,
                     fresh_memory, fresh_sp, fresh_heap_ptr, fresh_stack_frames, fresh_heap_frames>>
      /\ UNCHANGED <<fresh_option_pool, fresh_result_pool, fresh_enum_pool, fresh_tensor_pool,
                     fresh_shape_pool>>
  BY DEF Fresh!Fault, Fresh!trap, Fresh!regs, Fresh!mem, Fresh!frames, Fresh!pools
<1> QED
  BY <1>1, <1>2, <1>3 DEF Same, SameRun, Together, RegistersTogether, FramesTogether, PoolsTogether,
                          FlowTogether

LEMMA QuietTogether ==
  ASSUME Same, NEW code, NEW segment, QuietFault(code, segment), Fresh!QuietFault(code, segment)
  PROVE  Together
BY FaultTogether DEF Same, SameRun, QuietFault, Fresh!QuietFault, LogTogether

LEMMA LogsTogether ==
  ASSUME Same, NEW event, NEW segment, Log(event, segment), Fresh!Log(event, segment)
  PROVE  LogTogether
BY SameFetch DEF Same, SameRun, Log, Fresh!Log, LogTogether

LEMMA BoundsTogether ==
  ASSUME Same, NEW code, NEW segment, BoundsFault(code, segment), Fresh!BoundsFault(code, segment)
  PROVE  Together
BY FaultTogether, LogsTogether DEF BoundsFault, Fresh!BoundsFault

LEMMA ProduceTogether ==
  ASSUME Same, NEW v, NEW tag, NEW f, ProduceWith(v, tag, f), Fresh!ProduceWith(v, tag, f)
  PROVE  Recorded /\ RegistersTogether /\ FlowTogether /\ fresh_memory' = memory'
<1>1. CASE insn.a \in Regs
  BY <1>1, SameFetch, SameWords, SameConstants, CompleteTogether
     DEF Same, SameRun, ProduceWith, Fresh!ProduceWith, RegistersTogether, FlowTogether
<1>2. CASE insn.a \notin Regs
  BY <1>2, SameFetch, SameConstants
     DEF Same, SameRun, ProduceWith, Fresh!ProduceWith, RegistersTogether, FlowTogether, Recorded,
         regs, Fresh!regs
<1> QED
  BY <1>1, <1>2

LEMMA ProduceSigned ==
  ASSUME Same, NEW v, NEW tag, Produce(v, tag), Fresh!Produce(v, tag)
  PROVE  Recorded /\ RegistersTogether /\ FlowTogether /\ fresh_memory' = memory'
BY ProduceTogether, SameWords DEF Produce, Fresh!Produce

\* What both leave alone stays the same.
LEMMA StillTogether ==
  ASSUME Same
  PROVE  /\ UNCHANGED regs /\ UNCHANGED Fresh!regs => RegistersTogether
         /\ UNCHANGED frames /\ UNCHANGED Fresh!frames => FramesTogether
         /\ UNCHANGED pools /\ UNCHANGED Fresh!pools => PoolsTogether
         /\ UNCHANGED axion_log /\ UNCHANGED fresh_axion_log => LogTogether
BY DEF Same, SameRun, regs, Fresh!regs, frames, Fresh!frames, pools, Fresh!pools, RegistersTogether,
       FramesTogether, PoolsTogether, LogTogether

-----------------------------------------------------------------------------
(* One lemma per family.                                                   *)

LEMMA FlowSame ==
  ASSUME Same, Flow, Fresh!Flow
  PROVE  Together
<1>1. ASSUME FallThrough, Fresh!FallThrough
      PROVE  Together
  <2>1. Recorded
    BY <1>1, SameConstants, CompleteTogether DEF FallThrough, Fresh!FallThrough
  <2> QED
    BY <1>1, <2>1, StillTogether DEF Same, SameRun, FallThrough, Fresh!FallThrough, data, Fresh!data,
       mem, Fresh!mem, Together, FlowTogether
<1>2. ASSUME NEW target, JumpTo(target), Fresh!JumpTo(target)
      PROVE  Together
  <2>1. CASE InProgram(target)
    <3>1. Fresh!InProgram(target)
      BY <2>1 DEF Same, SameRun, InProgram, Fresh!InProgram
    <3>2. Recorded
      BY <1>2, <2>1, <3>1, SameConstants, CompleteTogether DEF JumpTo, Fresh!JumpTo
    <3> QED
      BY <1>2, <2>1, <3>1, <3>2, StillTogether DEF Same, SameRun, JumpTo, Fresh!JumpTo, data,
         Fresh!data, mem, Fresh!mem, Together, FlowTogether
  <2>2. CASE ~InProgram(target)
    <3>1. ~Fresh!InProgram(target)
      BY <2>2 DEF Same, SameRun, InProgram, Fresh!InProgram
    <3> QED
      BY <1>2, <2>2, <3>1, QuietTogether DEF JumpTo, Fresh!JumpTo
  <2> QED
    BY <2>1, <2>2
<1>3. \A op : Fresh!Taken(op) = Taken(op)
  BY DEF Same, SameRun, Taken, Fresh!Taken
<1>4. /\ Nop => Fresh!Nop
      /\ Halt => Fresh!Halt
      /\ Jump => Fresh!Jump
      /\ BranchTaken \/ BranchNotTaken => Fresh!BranchTaken \/ Fresh!BranchNotTaken
      /\ Call \/ CallOutside => Fresh!Call \/ Fresh!CallOutside
      /\ Ret \/ RetEmpty => Fresh!Ret \/ Fresh!RetEmpty
      /\ TrapInsn => Fresh!TrapInsn
  BY SameFetch, SameConstants
     DEF Fresh!Flow, Fetch, BranchOps, Nop, Halt, Jump, BranchTaken, BranchNotTaken, Call,
         CallOutside, Ret, RetEmpty, TrapInsn, Fresh!Nop, Fresh!Halt, Fresh!Jump,
         Fresh!BranchTaken, Fresh!BranchNotTaken, Fresh!Call, Fresh!CallOutside, Fresh!Ret,
         Fresh!RetEmpty, Fresh!TrapInsn
<1>5. CASE Nop
  BY <1>1, <1>4, <1>5 DEF Nop, Fresh!Nop
<1>6. CASE Halt
  <2>1. Fresh!Halt
    BY <1>4, <1>6
  <2>2. Recorded
    BY <1>6, <2>1, SameConstants, RetireTogether DEF Halt, Fresh!Halt
  <2> QED
    BY <1>6, <2>1, <2>2, StillTogether DEF Same, SameRun, Halt, Fresh!Halt, data, Fresh!data, mem,
       Fresh!mem, Together, FlowTogether
<1>7. CASE Jump
  BY <1>2, <1>4, <1>7, SameFetch DEF Jump, Fresh!Jump
<1>8. CASE BranchTaken \/ BranchNotTaken
  BY <1>1, <1>2, <1>3, <1>4, <1>8, SameFetch
     DEF BranchTaken, BranchNotTaken, Fresh!BranchTaken, Fresh!BranchNotTaken
<1>9. CASE Call \/ CallOutside
  <2>1. Fresh!InProgram(registers[insn.a]) = InProgram(registers[insn.a])
    BY DEF Same, SameRun, InProgram, Fresh!InProgram
  <2>2. CASE Call
    <3>1. Fresh!Call
      BY <1>4, <2>1, <2>2, SameFetch DEF Same, SameRun, Call, Fresh!CallOutside
    <3>2. Recorded
      BY <2>2, <3>1, SameConstants, CompleteTogether DEF Call, Fresh!Call
    <3> QED
      BY <2>2, <3>1, <3>2, SameFetch, StillTogether DEF Same, SameRun, Call, Fresh!Call, data,
         Fresh!data, mem, Fresh!mem, Together, FlowTogether, ReturnAddress, Fresh!ReturnAddress
  <2>3. CASE CallOutside
    BY <1>4, <2>1, <2>3, SameFetch, QuietTogether
       DEF Same, SameRun, CallOutside, Fresh!Call, Fresh!CallOutside
  <2> QED
    BY <1>9, <2>2, <2>3
<1>10. CASE Ret
  <2>1. Fresh!Ret
    BY <1>4, <1>10 DEF Same, SameRun, Ret, Fresh!RetEmpty
  <2>2. Recorded
    BY <1>10, <2>1, SameConstants, CompleteTogether DEF Ret, Fresh!Ret
  <2> QED
    BY <1>10, <2>1, <2>2, StillTogether DEF Same, SameRun, Ret, Fresh!Ret, data, Fresh!data, mem,
       Fresh!mem, Together, FlowTogether, Fresh!Last, Last, Fresh!Front, Front
<1>11. CASE RetEmpty \/ TrapInsn
  BY <1>4, <1>11, QuietTogether
     DEF Same, SameRun, RetEmpty, TrapInsn, Fresh!Ret, Fresh!RetEmpty, Fresh!TrapInsn
<1> QED
  BY <1>5, <1>6, <1>7, <1>8, <1>9, <1>10, <1>11 DEF Flow

\* Results that fit are what they are; of an overflow the build makes one thing.
LEMMA ScalarSame ==
  ASSUME TypeOK, Same, replaying, SameBuild, Scalar, Fresh!Scalar
  PROVE  Together
<1>1. /\ LoadImm => Fresh!LoadImm
      /\ Mov => Fresh!Mov
      /\ SetF => Fresh!SetF
      /\ Neg => Fresh!Neg
      /\ Inc => Fresh!Inc
      /\ Dec => Fresh!Dec
      /\ Cmp => Fresh!Cmp
      /\ Compare => Fresh!Compare
      /\ TNot => Fresh!TNot
      /\ TritLogic => Fresh!TritLogic
      /\ DivideByZero \/ Arithmetic \/ DivisionCrash
           => Fresh!DivideByZero \/ Fresh!Arithmetic \/ Fresh!DivisionCrash
  BY SameFetch, SameConstants
     DEF Fresh!Scalar, Fetch, LoadImm, Mov, SetF, Neg, Inc, Dec, Cmp, Compare, TNot, TritLogic,
         DivideByZero, Arithmetic, DivisionCrash, Fresh!LoadImm, Fresh!Mov, Fresh!SetF, Fresh!Neg,
         Fresh!Inc, Fresh!Dec, Fresh!Cmp, Fresh!Compare, Fresh!TNot, Fresh!TritLogic,
         Fresh!DivideByZero, Fresh!Arithmetic, Fresh!DivisionCrash, ArithOps, AddOps, SubOps,
         MulOps, DivOps, CompareOps, TritOps, ConvertOps
<1>2. ASSUME NEW v, NEW tag, Produce(v, tag), Fresh!Produce(v, tag), UNCHANGED store,
             UNCHANGED Fresh!store
      PROVE  Together
  BY <1>2, ProduceSigned, StillTogether DEF store, Fresh!store, Together
<1>3. \A v : v \in Int64 => Words(v) = {v}
  BY DEF Words
<1> DEFINE Agree == registers' = fresh_registers' /\ flags' = fresh_flags'
<1>4. ASSUME NEW words, NEW v, ProduceOneOf(words, v), Fresh!ProduceOneOf(words, v),
             UNCHANGED store, UNCHANGED Fresh!store, words = {v} \/ Agree
      PROVE  Together
  <2>1. PICK w, f : w \in words /\ f \in {SignOf(v), SignOf(w)} /\ ProduceWith(w, "Int", f)
    BY <1>4 DEF ProduceOneOf
  <2>2. PICK x, g : /\ x \in words /\ g \in {SignOf(v), SignOf(x)}
                   /\ Fresh!ProduceWith(x, "Int", g)
    BY <1>4, SameWords DEF Fresh!ProduceOneOf
  <2>3. Fresh!ProduceWith(w, "Int", f)
    <3>1. CASE words = {v}
      BY <2>1, <2>2, <3>1
    <3>2. CASE Agree /\ insn.a \in Regs
      <4>1. f = flags' /\ g = fresh_flags'
        BY <2>1, <2>2, <3>2, SameFetch, SameConstants DEF ProduceWith, Fresh!ProduceWith
      <4>2. /\ registers' = [registers EXCEPT ![insn.a] = w]
            /\ fresh_registers' = [registers EXCEPT ![insn.a] = x]
        BY <2>1, <2>2, <3>2, SameFetch, SameConstants
           DEF Same, SameRun, ProduceWith, Fresh!ProduceWith
      <4>3. w = x
        BY <3>2, <4>2 DEF TypeOK, RegsOK
      <4> QED
        BY <2>2, <3>2, <4>1, <4>3
    <3>3. CASE insn.a \notin Regs
      BY <2>2, <3>3, SameFetch, SameConstants DEF Fresh!ProduceWith
    <3> QED
      BY <1>4, <3>1, <3>2, <3>3
  <2> QED
    BY <1>4, <2>1, <2>3, ProduceTogether, StillTogether DEF store, Fresh!store, Together
<1>5. CASE LoadImm
  BY <1>1, <1>2, <1>5, SameFetch DEF LoadImm, Fresh!LoadImm
<1>6. CASE Mov
  BY <1>1, <1>2, <1>6, SameFetch DEF Same, SameRun, Mov, Fresh!Mov
<1>7. CASE SetF
  BY <1>1, <1>2, <1>7, SameFetch DEF Same, SameRun, SetF, Fresh!SetF
<1>8. CASE Compare
  BY <1>1, <1>2, <1>8, SameFetch, SameWords DEF Same, SameRun, Compare, Fresh!Compare
<1>9. CASE TNot
  BY <1>1, <1>2, <1>9, SameFetch, SameWords DEF Same, SameRun, TNot, Fresh!TNot
<1>10. CASE TritLogic
  BY <1>1, <1>2, <1>10, SameFetch, SameWords DEF Same, SameRun, TritLogic, Fresh!TritLogic
<1>11. CASE Neg
  <2>1. Exact = -registers[insn.b] /\ ~Divides(insn.opcode)
    BY <1>11 DEF Neg, Fetch, Exact, ArithOps, AddOps, SubOps, MulOps, DivOps, Divides
  <2>2. -registers[insn.b] \notin Int64 => Agree
    BY <1>11, <2>1 DEF Neg, Fetch, SameBuild, Overflows
  <2>3. ProduceOneOf(Words(-registers[insn.b]), -registers[insn.b]) /\ UNCHANGED store
    BY <1>11 DEF Neg
  <2>4. Fresh!ProduceOneOf(Words(-registers[insn.b]), -registers[insn.b]) /\ UNCHANGED Fresh!store
    BY <1>1, <1>11, SameFetch, SameWords DEF Same, SameRun, Fresh!Neg
  <2> HIDE DEF Agree
  <2> QED
    BY <1>3, <1>4, <2>2, <2>3, <2>4
<1>12. ASSUME NEW v, Bump(v), Fresh!Bump(v), v \notin Int64 => Agree
       PROVE  Together
  <2>1. Recorded
    BY <1>12, SameConstants, CompleteTogether DEF Bump, Fresh!Bump
  <2>2. fresh_flags' = flags' /\ fresh_registers' = registers'
    <3>1. CASE Words(v) = {v}
      BY <1>12, <3>1, SameFetch, SameWords DEF Same, SameRun, Bump, Fresh!Bump
    <3> QED
      BY <1>3, <1>12, <3>1
  <2> QED
    BY <1>12, <2>1, <2>2, SameFetch, SameWords, StillTogether
       DEF Same, SameRun, Bump, Fresh!Bump, store, Fresh!store, Together, FlowTogether,
           RegistersTogether
<1>13. CASE Inc
  <2>1. Exact = registers[insn.a] + 1 /\ ~Divides(insn.opcode)
    BY <1>13 DEF Inc, Fetch, Exact, ArithOps, AddOps, SubOps, MulOps, DivOps, Divides
  <2>2. registers[insn.a] + 1 \notin Int64 => Agree
    BY <1>13, <2>1 DEF Inc, Fetch, SameBuild, Overflows
  <2> QED
    BY <1>1, <1>12, <1>13, <2>2, SameFetch DEF Same, SameRun, Inc, Fresh!Inc
<1>14. CASE Dec
  <2>1. Exact = registers[insn.a] - 1 /\ ~Divides(insn.opcode)
    BY <1>14 DEF Dec, Fetch, Exact, ArithOps, AddOps, SubOps, MulOps, DivOps, Divides
  <2>2. registers[insn.a] - 1 \notin Int64 => Agree
    BY <1>14, <2>1 DEF Dec, Fetch, SameBuild, Overflows
  <2> QED
    BY <1>1, <1>12, <1>14, <2>2, SameFetch DEF Same, SameRun, Dec, Fresh!Dec
<1>15. CASE Cmp
  <2> DEFINE v == Difference(registers[insn.a], registers[insn.b])
  <2>1. Exact = v /\ ~Divides(insn.opcode)
    BY <1>15 DEF Cmp, Fetch, Exact, ArithOps, AddOps, SubOps, MulOps, DivOps, Divides
  <2>2. v \notin Int64 => flags' = fresh_flags'
    BY <1>15, <2>1 DEF Cmp, Fetch, SameBuild, Overflows
  <2>3. Fresh!Cmp /\ Fresh!Difference(fresh_registers[Fresh!insn.a], fresh_registers[Fresh!insn.b]) = v
    BY <1>1, <1>15, SameFetch, SameWords DEF Same, SameRun
  <2>4. v \in Int64 => flags' = SignOf(v) /\ fresh_flags' = SignOf(v)
    BY <1>3, <1>15, <2>3, SameWords DEF Cmp, Fresh!Cmp
  <2>5. fresh_flags' = flags'
    BY <2>2, <2>4
  <2>6. Recorded
    BY <1>15, <2>3, SameConstants, CompleteTogether DEF Cmp, Fresh!Cmp
  <2> QED
    BY <1>15, <2>3, <2>5, <2>6, StillTogether
       DEF Same, SameRun, Cmp, Fresh!Cmp, mem, Fresh!mem, Together, FlowTogether
<1>16. CASE DivideByZero
  <2>1. Fresh!DivideByZero
    <3>1. /\ Fresh!Divides(Fresh!insn.opcode) /\ fresh_registers[Fresh!insn.c] = 0
          /\ 0 # -1
      BY <1>16, SameFetch, SameWords DEF Same, SameRun, DivideByZero
    <3>2. ~Fresh!Arithmetic /\ ~Fresh!DivisionCrash
      BY <3>1 DEF Fresh!Arithmetic, Fresh!DivisionCrash, Fresh!QuotientOverflows
    <3> QED
      BY <1>1, <1>16, <3>1, <3>2
  <2> QED
    BY <1>16, <2>1, QuietTogether DEF DivideByZero, Fresh!DivideByZero
<1>17. ASSUME Arithmetic \/ DivisionCrash
       PROVE  Fresh!Arithmetic \/ Fresh!DivisionCrash
  <2>1. ~Fresh!DivideByZero
    <3>1. 0 # -1
      OBVIOUS
    <3> QED
      BY <1>17, <3>1, SameFetch, SameWords
         DEF Same, SameRun, Arithmetic, DivisionCrash, QuotientOverflows, Fresh!DivideByZero
  <2> QED
    BY <1>1, <1>17, <2>1
<1>18. ASSUME Arithmetic \/ DivisionCrash, Exact \notin Int64 \/ QuotientOverflows
       PROVE  Agree /\ undefined' = fresh_undefined'
  <2>1. Fetch(ArithOps \cup {"Neg", "Inc", "Dec", "Cmp"})
    BY <1>18 DEF Arithmetic, DivisionCrash, Fetch
  <2>2. Divides(insn.opcode) => registers[insn.c] # 0
    <3>1. 0 # -1
      OBVIOUS
    <3> QED
      BY <1>18, <3>1 DEF Arithmetic, DivisionCrash, QuotientOverflows
  <2> QED
    BY <1>18, <2>1, <2>2 DEF SameBuild, Overflows
<1>19. Fresh!QuotientOverflows = QuotientOverflows
  BY SameFetch, SameWords DEF Same, SameRun, QuotientOverflows, Fresh!QuotientOverflows
<1>20. CASE Arithmetic /\ Fresh!Arithmetic
  <2> DEFINE v == Arith(insn.opcode, registers[insn.b], registers[insn.c])
             words == IF QuotientOverflows THEN Int64 ELSE Words(v)
  <2>1. Fetch(ArithOps) /\ insn.opcode \in ArithOps
    BY <1>20 DEF Arithmetic, Fetch
  <2>2. Exact = v
    BY <2>1 DEF Exact, ArithOps, AddOps, SubOps, MulOps, DivOps
  <2>3. words = {v} \/ Agree
    BY <1>3, <1>18, <1>20, <2>2
  <2>4. ProduceOneOf(words, v) /\ UNCHANGED store
    BY <1>20 DEF Arithmetic
  <2>5. Fresh!ProduceOneOf(words, v) /\ UNCHANGED Fresh!store
    <3>1. /\ Fresh!ProduceOneOf(IF Fresh!QuotientOverflows THEN Fresh!Int64 ELSE Fresh!Words(v), v)
          /\ UNCHANGED Fresh!store
      BY <1>20, SameFetch, SameWords DEF Same, SameRun, Fresh!Arithmetic
    <3>2. Fresh!Int64 = Int64
      BY DEF Fresh!Int64, Int64
    <3> QED
      BY <1>19, <3>1, <3>2, SameWords
  <2> HIDE DEF v, words, Agree
  <2> QED
    BY <1>4, <2>3, <2>4, <2>5
<1>21. CASE DivisionCrash /\ Fresh!DivisionCrash
  BY <1>21, StillTogether
     DEF Same, SameRun, DivisionCrash, Fresh!DivisionCrash, mem, Fresh!mem, Together, Recorded,
         FlowTogether
<1>22. ASSUME DivisionCrash, Fresh!Arithmetic
       PROVE  FALSE
  <2>1. undefined' = "division" /\ fresh_undefined' = "division"
    BY <1>18, <1>22 DEF DivisionCrash, QuotientOverflows
  <2>2. fresh_undefined' = "register" \/ fresh_undefined' = fresh_undefined
    BY <1>22 DEF Fresh!Arithmetic, Fresh!ProduceOneOf, Fresh!ProduceWith, Fresh!Complete,
                 Fresh!Retire
  <2>3. undefined = "none" /\ fresh_undefined = "none"
    BY <1>22 DEF Same, SameRun, DivisionCrash, Fetch, Fetched, Stepping
  <2> QED
    BY <2>1, <2>2, <2>3
<1>23. ASSUME Arithmetic, Fresh!DivisionCrash
       PROVE  FALSE
  <2>1. fresh_undefined' = "division" /\ QuotientOverflows
    BY <1>23, <1>19 DEF Fresh!DivisionCrash
  <2>2. undefined' = "division"
    BY <1>18, <1>23, <2>1 DEF Arithmetic
  <2>3. undefined' = "register" \/ undefined' = undefined
    BY <1>23 DEF Arithmetic, ProduceOneOf, ProduceWith, Complete, Retire
  <2>4. undefined = "none"
    BY <1>23 DEF Arithmetic, Fetch, Fetched, Stepping
  <2> QED
    BY <2>2, <2>3, <2>4
<1> QED
  BY <1>5, <1>6, <1>7, <1>8, <1>9, <1>10, <1>11, <1>13, <1>14, <1>15, <1>16, <1>17, <1>20, <1>21,
     <1>22, <1>23 DEF Scalar

LEMMA MemorySame ==
  ASSUME TypeOK, Same, Memory, Fresh!Memory
  PROVE  Together
<1>0. insn.b \in Int /\ sp \in Int /\ StackStart \in Int /\ heap_ptr \in Int /\ HeapLimit \in Int
  <2>1. Fetched
    BY DEF Memory, Fetch, Load, LoadOutside, Store, StoreOutside, Push, PushBeyondMemory, PushFull,
           Pop, PopEmpty, StackAlloc, StackAllocFault, StackFree, StackFreeFault, HeapAlloc,
           HeapAllocFault, HeapFree, HeapFreeFault
  <2> QED
    BY <2>1, InsnType, IsaAssumption DEF TypeOK, FramesOK, StackStart, HeapLimit, HeapStart,
       StackLimit, Int64
<1>1. /\ Load \/ LoadOutside => Fresh!Load \/ Fresh!LoadOutside
      /\ Store \/ StoreOutside => Fresh!Store \/ Fresh!StoreOutside
      /\ Push \/ PushBeyondMemory \/ PushFull
           => Fresh!Push \/ Fresh!PushBeyondMemory \/ Fresh!PushFull
      /\ Pop \/ PopEmpty => Fresh!Pop \/ Fresh!PopEmpty
      /\ StackAlloc \/ StackAllocFault => Fresh!StackAlloc \/ Fresh!StackAllocFault
      /\ StackFree \/ StackFreeFault => Fresh!StackFree \/ Fresh!StackFreeFault
      /\ HeapAlloc \/ HeapAllocFault => Fresh!HeapAlloc \/ Fresh!HeapAllocFault
      /\ HeapFree \/ HeapFreeFault => Fresh!HeapFree \/ Fresh!HeapFreeFault
  BY SameFetch
     DEF Fresh!Memory, Fetch, Load, LoadOutside, Store, StoreOutside, Push, PushBeyondMemory,
         PushFull, Pop, PopEmpty, StackAlloc, StackAllocFault, StackFree, StackFreeFault,
         HeapAlloc, HeapAllocFault, HeapFree, HeapFreeFault, Fresh!Load, Fresh!LoadOutside,
         Fresh!Store, Fresh!StoreOutside, Fresh!Push, Fresh!PushBeyondMemory, Fresh!PushFull,
         Fresh!Pop, Fresh!PopEmpty, Fresh!StackAlloc, Fresh!StackAllocFault, Fresh!StackFree,
         Fresh!StackFreeFault, Fresh!HeapAlloc, Fresh!HeapAllocFault, Fresh!HeapFree,
         Fresh!HeapFreeFault
<1>2. CASE Load \/ LoadOutside
  <2>1. CASE Load
    <3>1. Fresh!Load
      BY <1>1, <2>1, SameFetch, SameLayout DEF Load, Fresh!LoadOutside
    <3>2. Fresh!Produce(memory[insn.b], "Int")
      BY <3>1, SameFetch DEF Same, SameRun, Fresh!Load
    <3> QED
      BY <2>1, <3>1, <3>2, ProduceSigned, StillTogether DEF Load, Fresh!Load, Together
  <2>2. CASE LoadOutside
    BY <1>1, <2>2, SameFetch, SameLayout, BoundsTogether
       DEF LoadOutside, Fresh!Load, Fresh!LoadOutside
  <2> QED
    BY <1>2, <2>1, <2>2
<1>3. CASE Store \/ StoreOutside
  <2>1. CASE Store
    <3>1. Fresh!Store
      BY <1>1, <2>1, SameFetch, SameLayout DEF Store, Fresh!StoreOutside
    <3>2. Recorded
      BY <2>1, <3>1, SameConstants, CompleteTogether DEF Store, Fresh!Store
    <3>3. LogTogether
      BY <2>1, <3>1, SameFetch, SameLayout, LogsTogether DEF Store, Fresh!Store
    <3> QED
      BY <2>1, <3>1, <3>2, <3>3, SameFetch, StillTogether
         DEF Same, SameRun, Store, Fresh!Store, Together, FlowTogether
  <2>2. CASE StoreOutside
    BY <1>1, <2>2, SameFetch, SameLayout, BoundsTogether
       DEF StoreOutside, Fresh!Store, Fresh!StoreOutside
  <2> QED
    BY <1>3, <2>1, <2>2
<1>4. CASE Push \/ PushBeyondMemory \/ PushFull
  <2>1. CASE Push
    <3>1. Fresh!Push
      BY <1>1, <2>1, SameFetch DEF Same, SameRun, Push, Fresh!PushBeyondMemory, Fresh!PushFull
    <3>2. Recorded
      BY <2>1, <3>1, SameConstants, CompleteTogether DEF Push, Fresh!Push
    <3> QED
      BY <2>1, <3>1, <3>2, SameFetch, StillTogether
         DEF Same, SameRun, Push, Fresh!Push, Together, FlowTogether, FramesTogether
  <2>2. CASE PushBeyondMemory
    <3>1. Fresh!PushBeyondMemory
      BY <1>1, <2>2, SameFetch DEF Same, SameRun, PushBeyondMemory, Fresh!Push, Fresh!PushFull
    <3> QED
      BY <2>2, <3>1, StillTogether
         DEF Same, SameRun, PushBeyondMemory, Fresh!PushBeyondMemory, mem, Fresh!mem, Together,
             Recorded, FlowTogether
  <2>3. CASE PushFull
    BY <1>1, <2>3, SameFetch, BoundsTogether
       DEF PushFull, Fresh!Push, Fresh!PushBeyondMemory, Fresh!PushFull
  <2> QED
    BY <1>4, <2>1, <2>2, <2>3
<1>5. CASE Pop \/ PopEmpty
  <2>1. CASE Pop
    <3>1. Fresh!Pop
      BY <1>1, <2>1, SameFetch DEF Pop, Fresh!PopEmpty
    <3>2. Recorded
      BY <2>1, <3>1, SameConstants, CompleteTogether DEF Pop, Fresh!Pop
    <3> QED
      BY <2>1, <3>1, <3>2, SameFetch, SameWords, StillTogether
         DEF Same, SameRun, Pop, Fresh!Pop, Together, FlowTogether, FramesTogether,
             RegistersTogether
  <2>2. CASE PopEmpty
    BY <1>1, <2>2, SameFetch, BoundsTogether DEF PopEmpty, Fresh!Pop, Fresh!PopEmpty
  <2> QED
    BY <1>5, <2>1, <2>2
<1>6. CASE StackAlloc \/ StackAllocFault
  <2>1. CASE StackAlloc
    <3>1. Fresh!StackAlloc
      BY <1>1, <2>1, SameFetch, SameLayout, <1>0
         DEF Same, SameRun, StackAlloc, Fresh!StackAllocFault
    <3>2. Fresh!ProduceWith(Wrap(sp - insn.b), "Int", flags)
      BY <3>1, SameFetch, SameWords DEF Same, SameRun, Fresh!StackAlloc
    <3>3. LogTogether
      BY <2>1, <3>1, LogsTogether DEF StackAlloc, Fresh!StackAlloc
    <3>4. FramesTogether
      BY <2>1, <3>1, SameFetch, SameWords
         DEF Same, SameRun, StackAlloc, Fresh!StackAlloc, FramesTogether
    <3> QED
      BY <2>1, <3>1, <3>2, <3>3, <3>4, ProduceTogether, StillTogether
         DEF StackAlloc, Fresh!StackAlloc, Together
  <2>2. CASE StackAllocFault
    <3>1. Fresh!StackAllocFault
      BY <1>1, <2>2, SameFetch, SameLayout, <1>0
         DEF Same, SameRun, StackAllocFault, Fresh!StackAlloc
    <3>2. CASE insn.b <= 0
      BY <2>2, <3>1, <3>2, SameFetch, <1>0, QuietTogether
         DEF StackAllocFault, Fresh!StackAllocFault
    <3>3. CASE ~(insn.b <= 0)
      BY <2>2, <3>1, <3>3, SameFetch, BoundsTogether DEF StackAllocFault, Fresh!StackAllocFault
    <3> QED
      BY <3>2, <3>3
  <2> QED
    BY <1>6, <2>1, <2>2
<1>7. \A top : /\ Fresh!Matches(top) = Matches(top)
               /\ Fresh!AfterFree(top) = AfterFree(top)
               /\ Fresh!AfterHeapFree(top) = AfterHeapFree(top)
  BY SameFetch, SameWords DEF Same, SameRun, Matches, Fresh!Matches, AfterFree, Fresh!AfterFree,
     AfterHeapFree, Fresh!AfterHeapFree
<1>8. \A live : /\ Fresh!Last(live) = Last(live) /\ Fresh!Front(live) = Front(live)
                /\ Fresh!FreesTop(live) = FreesTop(live)
  BY <1>7 DEF FreesTop, Fresh!FreesTop, Last, Fresh!Last, Front, Fresh!Front
<1>9. CASE StackFree \/ StackFreeFault
  <2>1. CASE StackFree
    <3>1. Fresh!StackFree
      BY <1>1, <1>8, <2>1 DEF Same, SameRun, StackFree, Fresh!StackFreeFault
    <3>2. Recorded
      BY <2>1, <3>1, SameConstants, CompleteTogether DEF StackFree, Fresh!StackFree
    <3>3. LogTogether
      BY <2>1, <3>1, LogsTogether DEF StackFree, Fresh!StackFree
    <3> QED
      BY <1>7, <1>8, <2>1, <3>1, <3>2, <3>3, StillTogether
         DEF Same, SameRun, StackFree, Fresh!StackFree, Together, FlowTogether, FramesTogether
  <2>2. CASE StackFreeFault
    BY <1>1, <1>8, <2>2, QuietTogether
       DEF Same, SameRun, StackFreeFault, Fresh!StackFree, Fresh!StackFreeFault
  <2> QED
    BY <1>9, <2>1, <2>2
<1>10. CASE HeapAlloc \/ HeapAllocFault
  <2>1. CASE HeapAlloc
    <3>1. Fresh!HeapAlloc
      BY <1>0, <1>1, <2>1, SameFetch, SameLayout DEF Same, SameRun, HeapAlloc, Fresh!HeapAllocFault
    <3>2. Fresh!ProduceWith(Wrap(heap_ptr), "Int", flags)
      BY <3>1, SameFetch, SameWords DEF Same, SameRun, Fresh!HeapAlloc
    <3>3. LogTogether
      BY <2>1, <3>1, LogsTogether DEF HeapAlloc, Fresh!HeapAlloc
    <3>4. FramesTogether
      BY <2>1, <3>1, SameFetch, SameWords
         DEF Same, SameRun, HeapAlloc, Fresh!HeapAlloc, FramesTogether
    <3> QED
      BY <2>1, <3>1, <3>2, <3>3, <3>4, ProduceTogether, StillTogether
         DEF HeapAlloc, Fresh!HeapAlloc, Together
  <2>2. CASE HeapAllocFault
    <3>1. Fresh!HeapAllocFault
      BY <1>0, <1>1, <2>2, SameFetch, SameLayout
         DEF Same, SameRun, HeapAllocFault, Fresh!HeapAlloc
    <3>2. CASE insn.b <= 0
      BY <1>0, <2>2, <3>1, <3>2, SameFetch, QuietTogether DEF HeapAllocFault, Fresh!HeapAllocFault
    <3>3. CASE ~(insn.b <= 0)
      BY <2>2, <3>1, <3>3, SameFetch, BoundsTogether DEF HeapAllocFault, Fresh!HeapAllocFault
    <3> QED
      BY <3>2, <3>3
  <2> QED
    BY <1>10, <2>1, <2>2
<1>11. CASE HeapFree \/ HeapFreeFault
  <2>1. CASE HeapFree
    <3>1. Fresh!HeapFree
      BY <1>1, <1>8, <2>1 DEF Same, SameRun, HeapFree, Fresh!HeapFreeFault
    <3>2. Recorded
      BY <2>1, <3>1, SameConstants, CompleteTogether DEF HeapFree, Fresh!HeapFree
    <3>3. LogTogether
      BY <2>1, <3>1, LogsTogether DEF HeapFree, Fresh!HeapFree
    <3> QED
      BY <1>7, <1>8, <2>1, <3>1, <3>2, <3>3, StillTogether
         DEF Same, SameRun, HeapFree, Fresh!HeapFree, Together, FlowTogether, FramesTogether
  <2>2. CASE HeapFreeFault
    BY <1>1, <1>8, <2>2, QuietTogether
       DEF Same, SameRun, HeapFreeFault, Fresh!HeapFree, Fresh!HeapFreeFault
  <2> QED
    BY <1>11, <2>1, <2>2
<1> QED
  BY <1>2, <1>3, <1>4, <1>5, <1>6, <1>9, <1>10, <1>11 DEF Memory

LEMMA ValuesSame ==
  ASSUME TypeOK, Same, Values, Fresh!Values
  PROVE  Together
<1>1. /\ MakeOption => Fresh!MakeOption
      /\ MakeResult => Fresh!MakeResult
      /\ MakeEnum \/ MakeEnumFault => Fresh!MakeEnum \/ Fresh!MakeEnumFault
      /\ ReaderTypeFault \/ ReaderDecodeFault \/ Test \/ Unwrap
           => \/ Fresh!ReaderTypeFault \/ Fresh!ReaderDecodeFault
              \/ Fresh!Test \/ Fresh!Unwrap
  BY SameFetch, SameConstants
     DEF Fresh!Values, Fetch, MakeOption, MakeResult, MakeEnum, MakeEnumFault, ReaderTypeFault,
         ReaderDecodeFault, Test, Unwrap, Fresh!MakeOption, Fresh!MakeResult, Fresh!MakeEnum,
         Fresh!MakeEnumFault, Fresh!ReaderTypeFault, Fresh!ReaderDecodeFault, Fresh!Test,
         Fresh!Unwrap, UnwrapOps, Tests
<1>2. /\ Fresh!Source = Source /\ Fresh!SourceTag = SourceTag
      /\ \A pool : Fresh!NextHandle(pool) = NextHandle(pool)
      /\ \A a, b, c, d : Fresh!Value(a, b, c, d) = Value(a, b, c, d)
  BY SameFetch, SameWords DEF Same, SameRun, Source, Fresh!Source, SourceTag, Fresh!SourceTag,
     NextHandle, Fresh!NextHandle, Value, Fresh!Value
<1>3. /\ \A op : Fresh!ReaderTag(op) = ReaderTag(op) /\ Fresh!ReaderPool(op) = ReaderPool(op)
      /\ \A pool : Fresh!Readable(pool) = Readable(pool)
      /\ \A value : Fresh!TestHolds(value) = TestHolds(value)
  <2>1. \A op : Fresh!ReaderTag(op) = ReaderTag(op) /\ Fresh!ReaderPool(op) = ReaderPool(op)
    BY DEF Same, SameRun, ReaderTag, Fresh!ReaderTag, ReaderPool, Fresh!ReaderPool, OptionReaders,
       Fresh!OptionReaders, ResultReaders, Fresh!ResultReaders
  <2>2. \A pool : Fresh!Readable(pool) = Readable(pool)
    BY <1>2, SameFetch, SameConstants DEF Readable, Fresh!Readable, Wanted, Fresh!Wanted, Resolves,
       Fresh!Resolves
  <2>3. \A value : Fresh!TestHolds(value) = TestHolds(value)
    BY SameFetch DEF TestHolds, Fresh!TestHolds
  <2> QED
    BY <2>1, <2>2, <2>3
<1>4. CASE MakeOption
  <2>1. Fresh!MakeOption
    BY <1>1, <1>4
  <2>2. Fresh!Produce(NextHandle(option_pool), "OptionHandle")
    BY <1>2, <2>1 DEF Same, SameRun, Fresh!MakeOption
  <2>3. PoolsTogether
    BY <1>2, <1>4, <2>1, SameFetch
       DEF Same, SameRun, MakeOption, Fresh!MakeOption, PoolsTogether, otherPools, Fresh!otherPools
  <2> QED
    BY <1>4, <2>1, <2>2, <2>3, ProduceSigned, StillTogether DEF MakeOption, Fresh!MakeOption, Together
<1>5. CASE MakeResult
  <2>1. Fresh!MakeResult
    BY <1>1, <1>5
  <2>2. Fresh!Produce(NextHandle(result_pool), "ResultHandle")
    BY <1>2, <2>1 DEF Same, SameRun, Fresh!MakeResult
  <2>3. PoolsTogether
    BY <1>2, <1>5, <2>1, SameFetch
       DEF Same, SameRun, MakeResult, Fresh!MakeResult, PoolsTogether, otherPools, Fresh!otherPools
  <2> QED
    BY <1>5, <2>1, <2>2, <2>3, ProduceSigned, StillTogether DEF MakeResult, Fresh!MakeResult, Together
<1>6. CASE MakeEnum \/ MakeEnumFault
  <2>1. ~(MakeEnum /\ Fresh!MakeEnumFault) /\ ~(MakeEnumFault /\ Fresh!MakeEnum)
    <3>1. ASSUME Fetched, insn.opcode = "MakeEnumVariantPayload"
          PROVE  insn.c \in Int
      BY <3>1, InsnType DEF TypeOK, Int64
    <3>2. MakeEnum \/ Fresh!MakeEnum
            => (insn.opcode = "MakeEnumVariantPayload" => insn.c >= 0)
      BY SameFetch DEF MakeEnum, Fresh!MakeEnum
    <3>3. MakeEnumFault \/ Fresh!MakeEnumFault
            => Fetched /\ insn.opcode = "MakeEnumVariantPayload" /\ insn.c < 0
      BY SameFetch DEF MakeEnumFault, Fresh!MakeEnumFault, Fetch
    <3> QED
      BY <3>1, <3>2, <3>3
  <2>2. CASE MakeEnum
    <3>1. Fresh!MakeEnum
      BY <1>1, <2>1, <2>2
    <3>2. Fresh!Produce(NextHandle(enum_pool), "EnumHandle")
      BY <1>2, <3>1 DEF Same, SameRun, Fresh!MakeEnum
    <3>3. PoolsTogether
      BY <1>2, <2>2, <3>1, SameFetch
         DEF Same, SameRun, MakeEnum, Fresh!MakeEnum, PoolsTogether, otherPools, Fresh!otherPools
    <3> QED
      BY <2>2, <3>1, <3>2, <3>3, ProduceSigned, StillTogether DEF MakeEnum, Fresh!MakeEnum, Together
  <2>3. CASE MakeEnumFault
    BY <1>1, <2>1, <2>3, QuietTogether DEF MakeEnumFault, Fresh!MakeEnumFault
  <2> QED
    BY <1>6, <2>2, <2>3
<1>7. CASE ReaderTypeFault
  <2>1. Fresh!ReaderTypeFault
    BY <1>1, <1>2, <1>3, <1>7, SameFetch
       DEF ReaderTypeFault, Fresh!ReaderDecodeFault, Fresh!Test, Fresh!Unwrap
  <2> QED
    BY <1>7, <2>1, QuietTogether DEF ReaderTypeFault, Fresh!ReaderTypeFault
<1>8. CASE ReaderDecodeFault
  <2>1. Fresh!ReaderDecodeFault
    BY <1>1, <1>2, <1>3, <1>8, SameFetch
       DEF ReaderDecodeFault, Fresh!ReaderTypeFault, Fresh!Test, Fresh!Unwrap
  <2> QED
    BY <1>8, <2>1, QuietTogether DEF ReaderDecodeFault, Fresh!ReaderDecodeFault
<1>9. ASSUME Test \/ Unwrap
      PROVE  /\ Test => Fresh!Test
             /\ Unwrap => Fresh!Unwrap
  <2>1. ~Fresh!ReaderTypeFault /\ ~Fresh!ReaderDecodeFault
    BY <1>2, <1>3, <1>9, SameFetch
       DEF Test, Unwrap, Fresh!ReaderTypeFault, Fresh!ReaderDecodeFault
  <2>2. ~(Test /\ Fresh!Unwrap) /\ ~(Unwrap /\ Fresh!Test)
    BY SameFetch, SameConstants DEF Test, Unwrap, Fresh!Test, Fresh!Unwrap, Fetch
  <2> QED
    BY <1>1, <1>9, <2>1, <2>2
<1>10. CASE Test
  <2>1. Fresh!Test
    BY <1>9, <1>10
  <2>2. Fresh!Produce(IF TestHolds(ReaderPool(insn.opcode)[Source]) THEN 1 ELSE 0, "Int")
    BY <1>2, <1>3, <2>1, SameFetch DEF Fresh!Test
  <2> QED
    BY <1>10, <2>1, <2>2, ProduceSigned, StillTogether DEF Test, Fresh!Test, Together
<1>11. CASE Unwrap
  <2>1. Fresh!Unwrap
    BY <1>9, <1>11
  <2> DEFINE value == ReaderPool(insn.opcode)[Source]
  <2>2. Fresh!Produce(value.payload, value.payload_tag)
    BY <1>2, <1>3, <2>1, SameFetch DEF Fresh!Unwrap
  <2> QED
    BY <1>11, <2>1, <2>2, ProduceSigned, StillTogether DEF Unwrap, Fresh!Unwrap, Together
<1> QED
  BY <1>4, <1>5, <1>6, <1>7, <1>8, <1>10, <1>11 DEF Values

LEMMA TensorSame ==
  ASSUME Same, TensorStep, Fresh!TensorStep
  PROVE  Together
<1>1. /\ Fresh!Source = Source /\ Fresh!SourceTag = SourceTag
      /\ \A pool : Fresh!NextHandle(pool) = NextHandle(pool)
  BY SameFetch, SameWords DEF Same, SameRun, Source, Fresh!Source, SourceTag, Fresh!SourceTag,
     NextHandle, Fresh!NextHandle
<1>2. Fresh!Tagged = Tagged /\ Fresh!RightPool = RightPool /\ Fresh!Resolved = Resolved
  BY <1>1, SameFetch, SameConstants
     DEF Same, SameRun, Tagged, Fresh!Tagged, RightTag, Fresh!RightTag, RightPool, Fresh!RightPool,
         Resolved, Fresh!Resolved, Resolves, Fresh!Resolves
<1>3. /\ Fresh!Left = Left /\ Fresh!Right = Right
      /\ \A t : Fresh!IsMatrix(t) = IsMatrix(t)
      /\ \A x, y : Fresh!Tensor(x, y) = Tensor(x, y) /\ Fresh!Elements(x, y) = Elements(x, y)
                   /\ Fresh!WrapsAround(x, y) = WrapsAround(x, y)
  BY <1>1, <1>2, SameFetch
     DEF Same, SameRun, Left, Fresh!Left, Right, Fresh!Right, IsMatrix, Fresh!IsMatrix, Tensor,
         Fresh!Tensor, Elements, Fresh!Elements, WrapsAround, Fresh!WrapsAround, Dim, Fresh!Dim
<1>4. Fresh!Fits = Fits /\ Fresh!Made = Made /\ Fresh!Overruns = Overruns
  <2>1. Fresh!Fits = Fits
    BY <1>3, SameFetch, Zenon DEF Fits, Fresh!Fits
  <2>2. Fresh!Made = Made
    BY <1>3, SameFetch, Zenon DEF Made, Fresh!Made
  <2>3. Fresh!Overruns = Overruns
    BY <1>3, SameFetch, Zenon DEF Overruns, Fresh!Overruns
  <2> QED
    BY <2>1, <2>2, <2>3
<1>5. CASE TensorTypeFault
  <2>1. Fresh!TensorTypeFault
    BY <1>2, <1>5 DEF TensorTypeFault, Fresh!TensorStep, Fresh!TensorDecodeFault,
       Fresh!TensorShapeFault, Fresh!TensorOverrun, Fresh!MakeTensor, Fresh!ChkShape
  <2> QED
    BY <1>5, <2>1, QuietTogether DEF TensorTypeFault, Fresh!TensorTypeFault
<1>6. CASE TensorDecodeFault
  <2>1. Fresh!TensorDecodeFault
    BY <1>2, <1>6 DEF TensorDecodeFault, Fresh!TensorStep, Fresh!TensorTypeFault,
       Fresh!TensorShapeFault, Fresh!TensorOverrun, Fresh!MakeTensor, Fresh!ChkShape
  <2> QED
    BY <1>6, <2>1, QuietTogether DEF TensorDecodeFault, Fresh!TensorDecodeFault
<1>7. insn.opcode = "ChkShape" => Fits
  BY DEF Fits
<1>8. CASE TensorShapeFault
  <2>1. insn.opcode # "ChkShape"
    BY <1>7, <1>8 DEF TensorShapeFault
  <2>2. Fresh!TensorShapeFault
    BY <1>2, <1>4, <1>8, <2>1, SameFetch
       DEF TensorShapeFault, Fetch, Fresh!TensorStep, Fresh!TensorTypeFault,
           Fresh!TensorDecodeFault, Fresh!TensorOverrun, Fresh!MakeTensor, Fresh!ChkShape
  <2> QED
    BY <1>8, <2>2, QuietTogether DEF TensorShapeFault, Fresh!TensorShapeFault
<1>9. insn.opcode = "ChkShape" => ~Overruns
  BY DEF Overruns
<1>10. ASSUME MakeTensor \/ ChkShape \/ TensorOverrun
      PROVE  /\ MakeTensor => Fresh!MakeTensor
             /\ ChkShape => Fresh!ChkShape
             /\ TensorOverrun => Fresh!TensorOverrun
  <2>1. Fetched /\ Tagged /\ Resolved /\ Fits
    BY <1>7, <1>10 DEF MakeTensor, ChkShape, TensorOverrun, Fetch
  <2>2. Fresh!MakeTensor \/ Fresh!ChkShape \/ Fresh!TensorOverrun
    BY <1>2, <1>4, <2>1 DEF Fresh!TensorStep, Fresh!TensorTypeFault, Fresh!TensorDecodeFault,
       Fresh!TensorShapeFault
  <2>3. MakeTensor \/ Fresh!MakeTensor => insn.opcode # "ChkShape" /\ ~Overruns
    BY <1>4, SameFetch DEF MakeTensor, Fresh!MakeTensor, Fetch
  <2>4. ChkShape \/ Fresh!ChkShape => insn.opcode = "ChkShape"
    BY SameFetch DEF ChkShape, Fresh!ChkShape, Fetch
  <2>5. TensorOverrun \/ Fresh!TensorOverrun => Overruns
    BY <1>4 DEF TensorOverrun, Fresh!TensorOverrun
  <2> QED
    BY <1>9, <2>2, <2>3, <2>4, <2>5
<1>11. CASE MakeTensor
  <2>1. Fresh!MakeTensor
    BY <1>10, <1>11
  <2>2. Fresh!Produce(NextHandle(tensor_pool), "TensorHandle")
    BY <1>1, <2>1 DEF Same, SameRun, Fresh!MakeTensor
  <2>3. PoolsTogether
    BY <1>4, <1>11, <2>1 DEF Same, SameRun, MakeTensor, Fresh!MakeTensor, PoolsTogether
  <2> QED
    BY <1>11, <2>1, <2>2, <2>3, ProduceSigned, StillTogether DEF MakeTensor, Fresh!MakeTensor, Together
<1>12. CASE ChkShape
  <2>1. Fresh!ChkShape
    BY <1>10, <1>12
  <2>2. Fresh!Produce(IF Left.shape = Right THEN 1 ELSE 0, "Int")
    BY <1>3, <2>1 DEF Fresh!ChkShape
  <2> QED
    BY <1>12, <2>1, <2>2, ProduceSigned, StillTogether DEF ChkShape, Fresh!ChkShape, Together
<1>13. CASE TensorOverrun
  BY <1>10, <1>13, StillTogether
     DEF Same, SameRun, TensorOverrun, Fresh!TensorOverrun, mem, Fresh!mem, Together, Recorded,
         FlowTogether
<1> QED
  BY <1>5, <1>6, <1>8, <1>11, <1>12, <1>13 DEF TensorStep

LEMMA AxionSame ==
  ASSUME Same, Axion, Fresh!Axion
  PROVE  Together
<1>1. Fresh!axion_denied = axion_denied /\ Fresh!GuardSegment = GuardSegment
  BY SameFetch, SameLayout
     DEF Same, SameRun, axion_denied, Fresh!axion_denied, GuardSegment, Fresh!GuardSegment
<1>2. /\ AxionDeny => Fresh!AxionDeny
      /\ AxRead => Fresh!AxRead
      /\ AxSet => Fresh!AxSet
      /\ AxVerify => Fresh!AxVerify
      /\ WeightsLoad => Fresh!WeightsLoad
  BY <1>1, SameFetch, SameConstants
     DEF Fresh!Axion, Fetch, AxionOps, AxionDeny, AxRead, AxSet, AxVerify, WeightsLoad,
         Fresh!AxionDeny, Fresh!AxRead, Fresh!AxSet, Fresh!AxVerify, Fresh!WeightsLoad
<1>3. CASE AxionDeny
  BY <1>1, <1>2, <1>3, LogsTogether, FaultTogether DEF AxionDeny, Fresh!AxionDeny
<1>4. CASE AxRead
  <2>1. Fresh!AxRead
    BY <1>2, <1>4
  <2>2. Fresh!Produce(insn.b, "Int")
    BY <2>1, SameFetch DEF Fresh!AxRead
  <2>3. LogTogether
    BY <1>1, <1>4, <2>1, LogsTogether DEF AxRead, Fresh!AxRead
  <2> QED
    BY <1>4, <2>1, <2>2, <2>3, ProduceSigned, StillTogether DEF AxRead, Fresh!AxRead, Together
<1>5. CASE AxSet
  <2>1. Fresh!AxSet
    BY <1>2, <1>5
  <2>2. Recorded
    BY <1>5, <2>1, SameConstants, CompleteTogether DEF AxSet, Fresh!AxSet
  <2>3. LogTogether
    BY <1>1, <1>5, <2>1, LogsTogether DEF AxSet, Fresh!AxSet
  <2> QED
    BY <1>5, <2>1, <2>2, <2>3, StillTogether
       DEF Same, SameRun, AxSet, Fresh!AxSet, mem, Fresh!mem, Together, FlowTogether
<1>6. CASE AxVerify
  <2>1. Fresh!AxVerify
    BY <1>2, <1>6
  <2>2. LogTogether
    BY <1>1, <1>6, <2>1, LogsTogether DEF AxVerify, Fresh!AxVerify
  <2> QED
    BY <1>6, <2>1, <2>2, ProduceSigned, StillTogether DEF AxVerify, Fresh!AxVerify, Together
<1>7. CASE WeightsLoad
  <2>1. Fresh!WeightsLoad
    BY <1>2, <1>7
  <2>2. Fresh!Produce(IF insn.b > 0 THEN insn.b ELSE Wrap(WeightsBase + pc), "WeightsTensorHandle")
    BY <2>1, SameFetch, SameWords DEF Same, SameRun, Fresh!WeightsLoad
  <2>3. LogTogether
    BY <1>7, <2>1, LogsTogether DEF WeightsLoad, Fresh!WeightsLoad
  <2> QED
    BY <1>7, <2>1, <2>2, <2>3, ProduceSigned, StillTogether
       DEF WeightsLoad, Fresh!WeightsLoad, Together
<1> QED
  BY <1>3, <1>4, <1>5, <1>6, <1>7 DEF Axion

-----------------------------------------------------------------------------
(* A whole step.                                                           *)

FlowOps   == {"Nop", "Halt", "Call", "Ret", "Trap"} \cup JumpOps
ScalarOps == {"LoadImm", "Mov", "SetF", "Neg", "Inc", "Dec", "Cmp", "TNot"}
             \cup ArithOps \cup ConvertOps \cup CompareOps \cup TritOps
MemoryOps == {"Load", "Store", "Push", "Pop", "StackAlloc", "StackFree", "HeapAlloc", "HeapFree"}
ValueOps  == {"MakeOptionNone", "MakeEnumVariant"} \cup MakeOps \cup UnwrapOps
GuardOps  == {"WeightsLoad"} \cup AxionOps

\* An opcode is of one family.
LEMMA FamiliesDisjoint ==
  /\ FlowOps \cap (ScalarOps \cup MemoryOps \cup ValueOps \cup TensorOps \cup GuardOps) = {}
  /\ ScalarOps \cap (MemoryOps \cup ValueOps \cup TensorOps \cup GuardOps) = {}
  /\ MemoryOps \cap (ValueOps \cup TensorOps \cup GuardOps) = {}
  /\ ValueOps \cap (TensorOps \cup GuardOps) = {}
  /\ TensorOps \cap GuardOps = {}
  /\ IllegalOpcode \notin FlowOps \cup ScalarOps \cup MemoryOps \cup ValueOps \cup TensorOps
                          \cup GuardOps
<1> USE DEF FlowOps, ScalarOps, MemoryOps, ValueOps, GuardOps, TensorOps, TensorPairOps,
            TensorUnaryOps, AxionOps, UnwrapOps, MakeOps, JumpOps, BranchOps, ArithOps, AddOps,
            SubOps, MulOps, DivOps, ConvertOps, CompareOps, TritOps, IllegalOpcode
<1>1. FlowOps \cap (ScalarOps \cup MemoryOps \cup ValueOps \cup TensorOps \cup GuardOps) = {}
  OBVIOUS
<1>2. ScalarOps \cap (MemoryOps \cup ValueOps \cup TensorOps \cup GuardOps) = {}
  OBVIOUS
<1>3. MemoryOps \cap (ValueOps \cup TensorOps \cup GuardOps) = {}
  OBVIOUS
<1>4. ValueOps \cap (TensorOps \cup GuardOps) = {} /\ TensorOps \cap GuardOps = {}
  OBVIOUS
<1>5. IllegalOpcode \notin FlowOps \cup ScalarOps \cup MemoryOps \cup ValueOps \cup TensorOps
                           \cup GuardOps
  OBVIOUS
<1> QED
  BY <1>1, <1>2, <1>3, <1>4, <1>5

\* A handler of each family runs on an opcode of it.
LEMMA FamilyRuns ==
  /\ Flow => Fetch(FlowOps)
  /\ Scalar => Fetch(ScalarOps)
  /\ Memory => Fetch(MemoryOps)
  /\ Values => Fetch(ValueOps)
  /\ TensorStep => Fetch(TensorOps)
  /\ Axion => Fetch(GuardOps)
<1> USE DEF Fetch
<1>1. Flow => Fetch(FlowOps)
  BY DEF Flow, Nop, Halt, Jump, BranchTaken, BranchNotTaken, Call, CallOutside, Ret, RetEmpty,
         TrapInsn, FlowOps, JumpOps
<1>2. Scalar => Fetch(ScalarOps)
  BY DEF Scalar, LoadImm, DivideByZero, Arithmetic, DivisionCrash, Mov, SetF, Neg, Inc, Dec, Cmp,
         Compare, TNot, TritLogic, ScalarOps
<1>3. Memory => Fetch(MemoryOps)
  BY DEF Memory, Load, LoadOutside, Store, StoreOutside, Push, PushBeyondMemory, PushFull, Pop,
         PopEmpty, StackAlloc, StackAllocFault, StackFree, StackFreeFault, HeapAlloc,
         HeapAllocFault, HeapFree, HeapFreeFault, MemoryOps
<1>4. Values => Fetch(ValueOps)
  BY DEF Values, MakeOption, MakeResult, MakeEnum, MakeEnumFault, ReaderTypeFault,
         ReaderDecodeFault, Test, Unwrap, ValueOps, MakeOps, UnwrapOps, Tests
<1>5. TensorStep => Fetch(TensorOps)
  BY DEF TensorStep, TensorTypeFault, TensorDecodeFault, TensorShapeFault, TensorOverrun,
         MakeTensor, ChkShape, TensorOps, TensorPairOps
<1>6. Axion => Fetch(GuardOps)
  BY DEF Axion, AxionDeny, AxRead, AxSet, AxVerify, WeightsLoad, GuardOps, AxionOps
<1> QED
  BY <1>1, <1>2, <1>3, <1>4, <1>5, <1>6

LEMMA FreshFamilyRuns ==
  ASSUME Same
  PROVE  /\ Fresh!Flow => Fetch(FlowOps)
         /\ Fresh!Scalar => Fetch(ScalarOps)
         /\ Fresh!Memory => Fetch(MemoryOps)
         /\ Fresh!Values => Fetch(ValueOps)
         /\ Fresh!TensorStep => Fetch(TensorOps)
         /\ Fresh!Axion => Fetch(GuardOps)
<1> USE SameFetch, SameConstants DEF Fetch
<1>1. Fresh!Flow => Fetch(FlowOps)
  BY DEF Fresh!Flow, Fresh!Nop, Fresh!Halt, Fresh!Jump, Fresh!BranchTaken, Fresh!BranchNotTaken,
         Fresh!Call, Fresh!CallOutside, Fresh!Ret, Fresh!RetEmpty, Fresh!TrapInsn, FlowOps, JumpOps
<1>2. Fresh!Scalar => Fetch(ScalarOps)
  BY DEF Fresh!Scalar, Fresh!LoadImm, Fresh!DivideByZero, Fresh!Arithmetic, Fresh!DivisionCrash,
         Fresh!Mov, Fresh!SetF, Fresh!Neg, Fresh!Inc, Fresh!Dec, Fresh!Cmp, Fresh!Compare,
         Fresh!TNot, Fresh!TritLogic, ScalarOps
<1>3. Fresh!Memory => Fetch(MemoryOps)
  BY DEF Fresh!Memory, Fresh!Load, Fresh!LoadOutside, Fresh!Store, Fresh!StoreOutside, Fresh!Push,
         Fresh!PushBeyondMemory, Fresh!PushFull, Fresh!Pop, Fresh!PopEmpty, Fresh!StackAlloc,
         Fresh!StackAllocFault, Fresh!StackFree, Fresh!StackFreeFault, Fresh!HeapAlloc,
         Fresh!HeapAllocFault, Fresh!HeapFree, Fresh!HeapFreeFault, MemoryOps
<1>4. Fresh!Values => Fetch(ValueOps)
  BY DEF Fresh!Values, Fresh!MakeOption, Fresh!MakeResult, Fresh!MakeEnum, Fresh!MakeEnumFault,
         Fresh!ReaderTypeFault, Fresh!ReaderDecodeFault, Fresh!Test, Fresh!Unwrap, ValueOps,
         MakeOps, UnwrapOps, Tests
<1>5. Fresh!TensorStep => Fetch(TensorOps)
  BY DEF Fresh!TensorStep, Fresh!TensorTypeFault, Fresh!TensorDecodeFault, Fresh!TensorShapeFault,
         Fresh!TensorOverrun, Fresh!MakeTensor, Fresh!ChkShape, TensorOps, TensorPairOps
<1>6. Fresh!Axion => Fetch(GuardOps)
  BY DEF Fresh!Axion, Fresh!AxionDeny, Fresh!AxRead, Fresh!AxSet, Fresh!AxVerify,
         Fresh!WeightsLoad, GuardOps, AxionOps
<1> QED
  BY <1>1, <1>2, <1>3, <1>4, <1>5, <1>6

\* Both prologues trap; each entry shows the write its VM's latch holds.
RejectedTogether ==
  /\ RegistersTogether /\ FramesTogether /\ PoolsTogether /\ FlowTogether /\ LogTogether
  /\ fresh_memory' = memory' /\ fresh_program' = program' /\ fresh_policy' = policy'
  /\ fresh_halted' = halted'
  /\ fresh_last_trap_payload' = last_trap_payload' /\ fresh_undefined' = undefined'
  /\ fresh_steps' = steps' /\ fresh_gc_cycles' = gc_cycles' /\ fresh_preload_trap' = preload_trap'
  /\ UNCHANGED <<current_write, fresh_current_write>>
  /\ \E code \in TrapCode : Rejects(code)
  /\ \E op, code :
       /\ trace' = Append(trace, Entry(pc, op, current_write, code))
       /\ fresh_trace' = Append(fresh_trace, Entry(pc, op, fresh_current_write, code))

LEMMA PrologueTogether ==
  ASSUME Same, NEW code, NEW op, PrologueTrap(code, op), Fresh!PrologueTrap(code, op),
         \E c \in TrapCode : Rejects(c)
  PROVE  RejectedTogether
<1>1. RegistersTogether /\ FramesTogether /\ PoolsTogether /\ LogTogether
  BY StillTogether DEF PrologueTrap, Fresh!PrologueTrap, trap, Fresh!trap, mem, Fresh!mem
<1>2. FlowTogether /\ fresh_memory' = memory'
  BY DEF Same, SameRun, PrologueTrap, Fresh!PrologueTrap, trap, Fresh!trap, mem, Fresh!mem,
         FlowTogether
<1>3. fresh_last_trap_payload' = last_trap_payload'
  BY SameFetch, SameWords DEF Same, SameRun, PrologueTrap, Fresh!PrologueTrap, trap, Fresh!trap
<1>4. /\ trace' = Append(trace, Entry(pc, op, current_write, code))
      /\ fresh_trace' = Append(fresh_trace, Entry(pc, op, fresh_current_write, code))
  BY SameWords DEF Same, SameRun, PrologueTrap, Fresh!PrologueTrap, trap, Fresh!trap
<1>5. /\ fresh_program' = program' /\ fresh_policy' = policy' /\ fresh_halted' = halted'
      /\ fresh_undefined' = undefined' /\ fresh_steps' = steps' /\ fresh_gc_cycles' = gc_cycles'
      /\ fresh_preload_trap' = preload_trap'
      /\ UNCHANGED <<current_write, fresh_current_write>>
  BY SameConstants DEF Same, SameRun, PrologueTrap, Fresh!PrologueTrap, trap, Fresh!trap
<1> QED
  BY <1>1, <1>2, <1>3, <1>4, <1>5 DEF RejectedTogether

LEMMA PrologueSame ==
  ASSUME TypeOK, TypeOK', Same, Prologue, Fresh!step
  PROVE  Together \/ RejectedTogether
<1>1. pc \in Int /\ Len(program.insns) \in Int
  BY DEF TypeOK, ControlOK, Program
<1>2. Fresh!step => Fresh!Prologue \/ Fetch(FlowOps) \/ Fetch(ScalarOps) \/ Fetch(MemoryOps)
                    \/ Fetch(ValueOps) \/ Fetch(TensorOps) \/ Fetch(GuardOps)
  BY FreshFamilyRuns DEF Fresh!step
<1>3. CASE PreloadTrap
  <2>1. preload_trap # NoTrap /\ ~Fetched
    BY <1>3 DEF PreloadTrap, Fetched
  <2>2. Fresh!Prologue
    BY <1>2, <2>1 DEF Fetch
  <2>3. Fresh!PreloadTrap
    BY <2>1, <2>2, SameFetch, SameConstants
       DEF Same, SameRun, Fresh!Prologue, Fresh!FallOff, Fresh!UnknownOpcode, Fresh!UndefinedRead
  <2>4. \E c \in TrapCode : Rejects(c)
    <3>1. preload_trap \in TrapCode
      BY <2>1 DEF TypeOK, TraceOK
    <3>2. Rejects(preload_trap)
      BY <1>3 DEF PreloadTrap, PrologueTrap, trap, Rejects, Payload, Names
    <3> QED
      BY <3>1, <3>2
  <2> DEFINE op == IF pc < Len(program.insns) THEN insn.opcode ELSE "Nop"
  <2>5. PrologueTrap(preload_trap, op)
    BY <1>3 DEF PreloadTrap
  <2>6. Fresh!PrologueTrap(preload_trap, op)
    BY <2>3, SameFetch DEF Same, SameRun, Fresh!PreloadTrap
  <2> HIDE DEF op
  <2> QED
    BY <2>4, <2>5, <2>6, PrologueTogether
<1>4. CASE FallOff
  <2>1. preload_trap = NoTrap /\ pc >= Len(program.insns) /\ ~Fetched
    BY <1>1, <1>4 DEF FallOff, Fetched
  <2>2. Fresh!Prologue
    BY <1>2, <2>1 DEF Fetch
  <2>3. Fresh!FallOff
    BY <2>1, <2>2, SameFetch, SameConstants
       DEF Same, SameRun, Fresh!Prologue, Fresh!PreloadTrap, Fresh!UnknownOpcode,
           Fresh!UndefinedRead
  <2>4. "DecodeFault" \in TrapCode /\ Rejects("DecodeFault")
    BY <1>1, <1>4, <2>1 DEF FallOff, PrologueTrap, trap, Rejects, Payload, Names, TrapCode
  <2> QED
    BY <1>4, <2>3, <2>4, PrologueTogether DEF FallOff, Fresh!FallOff
<1>5. ASSUME Fetched
      PROVE  ~Fresh!PreloadTrap /\ ~Fresh!FallOff
  BY <1>1, <1>5, SameConstants DEF Same, SameRun, Fetched, Fresh!PreloadTrap, Fresh!FallOff
<1>6. insn.opcode = IllegalOpcode => OperandsInRange(insn)
  BY DEF OperandsInRange, IndexesA, IndexesB, IndexesC, UsesB, UsesC, IllegalOpcode, TensorPairOps,
         TensorUnaryOps, UnwrapOps, MakeOps, ArithOps, AddOps, SubOps, MulOps, DivOps, ConvertOps,
         CompareOps, TritOps
<1>7. CASE UnknownOpcode
  <2>1. Fetched /\ insn.opcode = IllegalOpcode /\ QuietFault("DecodeFault", "unknown")
    BY <1>7 DEF UnknownOpcode
  <2>2. Fresh!Prologue
    BY <1>2, <2>1, FamiliesDisjoint DEF Fetch
  <2>3. Fresh!UnknownOpcode
    BY <1>5, <1>6, <2>1, <2>2, SameFetch DEF Fresh!Prologue, Fresh!UndefinedRead
  <2> QED
    BY <2>1, <2>3, QuietTogether DEF Fresh!UnknownOpcode
<1>8. CASE UndefinedRead
  <2>1. Fetched /\ ~OperandsInRange(insn)
    BY <1>8 DEF UndefinedRead
  <2>2. Fresh!Prologue
    BY <1>2, <2>1 DEF Fetch
  <2>3. Fresh!UndefinedRead
    BY <1>5, <1>6, <2>1, <2>2, SameFetch, SameConstants DEF Fresh!Prologue, Fresh!UnknownOpcode
  <2> QED
    BY <1>8, <2>3, StillTogether
       DEF Same, SameRun, UndefinedRead, Fresh!UndefinedRead, mem, Fresh!mem, Together, Recorded,
           FlowTogether
<1> QED
  BY <1>3, <1>4, <1>7, <1>8 DEF Prologue

\* Both take the same step.
LEMMA StepSame ==
  ASSUME TypeOK, TypeOK', Same, replaying, SameBuild, step, Fresh!step
  PROVE  Together \/ RejectedTogether
<1>1. CASE Prologue
  BY <1>1, PrologueSame
<1>2. ASSUME NEW ops, Fetch(ops), ops \cap {IllegalOpcode} = {}
      PROVE  ~Fresh!Prologue
  <2>1. Fetched /\ OperandsInRange(insn) /\ insn.opcode # IllegalOpcode
    BY <1>2 DEF Fetch
  <2>2. pc \in Int /\ Len(program.insns) \in Int
    BY DEF TypeOK, ControlOK, Program
  <2> QED
    BY <2>1, <2>2, SameFetch, SameConstants
       DEF Same, SameRun, Fetched, Fresh!Prologue, Fresh!PreloadTrap, Fresh!FallOff,
           Fresh!UnknownOpcode, Fresh!UndefinedRead
<1>3. CASE Flow
  <2>1. Fetch(FlowOps) /\ ~Fresh!Prologue
    BY <1>2, <1>3, FamilyRuns, FamiliesDisjoint
  <2>2. Fresh!Flow
    BY <2>1, FreshFamilyRuns, FamiliesDisjoint DEF Fresh!step, Fetch
  <2> QED
    BY <1>3, <2>2, FlowSame
<1>4. CASE Scalar
  <2>1. Fetch(ScalarOps) /\ ~Fresh!Prologue
    BY <1>2, <1>4, FamilyRuns, FamiliesDisjoint
  <2>2. Fresh!Scalar
    BY <2>1, FreshFamilyRuns, FamiliesDisjoint DEF Fresh!step, Fetch
  <2> QED
    BY <1>4, <2>2, ScalarSame
<1>5. CASE Memory
  <2>1. Fetch(MemoryOps) /\ ~Fresh!Prologue
    BY <1>2, <1>5, FamilyRuns, FamiliesDisjoint
  <2>2. Fresh!Memory
    BY <2>1, FreshFamilyRuns, FamiliesDisjoint DEF Fresh!step, Fetch
  <2> QED
    BY <1>5, <2>2, MemorySame
<1>6. CASE Values
  <2>1. Fetch(ValueOps) /\ ~Fresh!Prologue
    BY <1>2, <1>6, FamilyRuns, FamiliesDisjoint
  <2>2. Fresh!Values
    BY <2>1, FreshFamilyRuns, FamiliesDisjoint DEF Fresh!step, Fetch
  <2> QED
    BY <1>6, <2>2, ValuesSame
<1>7. CASE TensorStep
  <2>1. Fetch(TensorOps) /\ ~Fresh!Prologue
    BY <1>2, <1>7, FamilyRuns, FamiliesDisjoint
  <2>2. Fresh!TensorStep
    BY <2>1, FreshFamilyRuns, FamiliesDisjoint DEF Fresh!step, Fetch
  <2> QED
    BY <1>7, <2>2, TensorSame
<1>8. CASE Axion
  <2>1. Fetch(GuardOps) /\ ~Fresh!Prologue
    BY <1>2, <1>8, FamilyRuns, FamiliesDisjoint
  <2>2. Fresh!Axion
    BY <2>1, FreshFamilyRuns, FamiliesDisjoint DEF Fresh!step, Fetch
  <2> QED
    BY <1>8, <2>2, AxionSame
<1> QED
  BY <1>1, <1>3, <1>4, <1>5, <1>6, <1>7, <1>8 DEF step

-----------------------------------------------------------------------------
(* The replay.                                                             *)

\* The fresh VM's trace grows at its end.
LEMMA FreshGrows ==
  ASSUME SameTrace, Len(trace) \in Nat, NEW g \in TraceEntry, fresh_trace' = Append(fresh_trace, g)
  PROVE  /\ fresh_trace' \in Seq(TraceEntry) /\ Len(fresh_trace') = Len(trace) + 1
         /\ fresh_trace'[Len(trace) + 1] = g
         /\ \A k \in 1 .. Len(trace) : fresh_trace'[k] = fresh_trace[k]
<1>1. fresh_trace \in Seq(TraceEntry) /\ Len(fresh_trace) = Len(trace)
  BY DEF SameTrace
<1> QED
  BY <1>1, AppendProperties

\* What a step does to both keeps them the same.
LEMMA StepKeepsSame ==
  ASSUME TypeOK, TypeOK', PreloadArmed, SameRun, SameTrace, Together \/ RejectedTogether
  PROVE  SameRun' /\ SameTrace'
<1>1. SameRun'
  BY DEF SameRun, Together, Recorded, RejectedTogether, RegistersTogether, FramesTogether,
         PoolsTogether, FlowTogether, LogTogether
<1>2. /\ trace \in Seq(TraceEntry) /\ trace' \in Seq(TraceEntry) /\ current_write' \in WriteRecord
      /\ fresh_trace \in Seq(TraceEntry) /\ fresh_current_write \in WriteRecord
      /\ Len(fresh_trace) = Len(trace) /\ Len(trace) \in Nat
  BY DEF TypeOK, TraceOK, SameTrace
<1> DEFINE Grow == /\ fresh_current_write' = current_write'
                   /\ \E e : trace' = Append(trace, e) /\ fresh_trace' = Append(fresh_trace, e)
           Stay == UNCHANGED <<trace, current_write, fresh_trace, fresh_current_write>>
<1>3. Together => program' = program /\ (Grow \/ Stay)
  BY DEF Together, Recorded
<1>4. CASE Together /\ Stay
  <2>1. Executed' = Executed
    BY <1>3, <1>4 DEF Executed, Accepted
  <2> QED
    BY <1>1, <1>4, <2>1 DEF SameTrace
<1>5. CASE Together /\ Grow
  <2>1. PICK e : trace' = Append(trace, e) /\ fresh_trace' = Append(fresh_trace, e)
    BY <1>5
  <2>2. fresh_current_write' \in WriteRecord /\ program' = program
    BY <1>2, <1>3, <1>5
  <2>3. /\ Len(trace') = Len(trace) + 1 /\ trace'[Len(trace) + 1] = e /\ e \in TraceEntry
        /\ \A k \in 1 .. Len(trace) : trace'[k] = trace[k]
    BY <2>1, TraceGrows
  <2>4. /\ fresh_trace' \in Seq(TraceEntry) /\ Len(fresh_trace') = Len(trace) + 1
        /\ fresh_trace'[Len(trace) + 1] = e
        /\ \A k \in 1 .. Len(trace) : fresh_trace'[k] = fresh_trace[k]
    BY <1>2, <2>1, <2>3, FreshGrows
  <2>5. ASSUME NEW k \in 1 .. Len(trace)
        PROVE  k \in Executed' => k \in Executed
    BY <1>2, <2>2, <2>3, <2>5 DEF Executed, Accepted
  <2>6. \A k \in 1 .. (Len(trace) + 1) :
          /\ [fresh_trace'[k] EXCEPT !.write = NoWrite] = [trace'[k] EXCEPT !.write = NoWrite]
          /\ k \in Executed' => fresh_trace'[k] = trace'[k]
    <3> SUFFICES ASSUME NEW k \in 1 .. (Len(trace) + 1)
                 PROVE  /\ [fresh_trace'[k] EXCEPT !.write = NoWrite]
                             = [trace'[k] EXCEPT !.write = NoWrite]
                        /\ k \in Executed' => fresh_trace'[k] = trace'[k]
      OBVIOUS
    <3>1. CASE k = Len(trace) + 1
      BY <2>3, <2>4, <3>1
    <3>2. CASE k \in 1 .. Len(trace)
      BY <2>3, <2>4, <2>5, <3>2 DEF SameTrace
    <3> QED
      BY <1>2, <3>1, <3>2
  <2> QED
    BY <1>1, <2>2, <2>3, <2>4, <2>6 DEF SameTrace
<1>6. CASE RejectedTogether
  <2>1. PICK op, code :
           /\ trace' = Append(trace, Entry(pc, op, current_write, code))
           /\ fresh_trace' = Append(fresh_trace, Entry(pc, op, fresh_current_write, code))
    BY <1>6 DEF RejectedTogether
  <2> DEFINE e == Entry(pc, op, current_write, code)
             g == Entry(pc, op, fresh_current_write, code)
  <2>2. Executed' = Executed
    BY <1>6, ExecutedGrows DEF RejectedTogether
  <2>3. /\ Len(trace') = Len(trace) + 1 /\ trace'[Len(trace) + 1] = e /\ e \in TraceEntry
        /\ \A k \in 1 .. Len(trace) : trace'[k] = trace[k]
    BY <2>1, TraceGrows
  <2>4. [g EXCEPT !.write = NoWrite] = [e EXCEPT !.write = NoWrite] /\ g \in TraceEntry
    <3>1. /\ pc \in Nat /\ op \in OpcodeByte /\ code \in TrapCode \cup {NoTrap}
      BY <2>3 DEF Entry, TraceEntry
    <3>2. g \in TraceEntry
      BY <1>2, <3>1 DEF Entry, TraceEntry
    <3> QED
      BY <3>2 DEF Entry
  <2> HIDE DEF e, g
  <2>5. /\ fresh_trace' \in Seq(TraceEntry) /\ Len(fresh_trace') = Len(trace) + 1
        /\ fresh_trace'[Len(trace) + 1] = g
        /\ \A k \in 1 .. Len(trace) : fresh_trace'[k] = fresh_trace[k]
    BY <1>2, <2>1, <2>4, FreshGrows DEF g
  <2>6. Len(trace) + 1 \notin Executed'
    BY <1>2, <2>2 DEF Executed
  <2>7. fresh_current_write' \in WriteRecord
    BY <1>2, <1>6 DEF RejectedTogether
  <2>8. \A k \in 1 .. (Len(trace) + 1) :
          /\ [fresh_trace'[k] EXCEPT !.write = NoWrite] = [trace'[k] EXCEPT !.write = NoWrite]
          /\ k \in Executed' => fresh_trace'[k] = trace'[k]
    <3> SUFFICES ASSUME NEW k \in 1 .. (Len(trace) + 1)
                 PROVE  /\ [fresh_trace'[k] EXCEPT !.write = NoWrite]
                             = [trace'[k] EXCEPT !.write = NoWrite]
                        /\ k \in Executed' => fresh_trace'[k] = trace'[k]
      OBVIOUS
    <3>1. CASE k = Len(trace) + 1
      BY <2>3, <2>4, <2>5, <2>6, <3>1
    <3>2. CASE k \in 1 .. Len(trace)
      BY <2>2, <2>3, <2>5, <3>2 DEF SameTrace
    <3> QED
      BY <1>2, <3>1, <3>2
  <2> QED
    BY <1>1, <2>3, <2>5, <2>7, <2>8 DEF SameTrace
<1> HIDE DEF Grow, Stay
<1> QED
  BY <1>3, <1>4, <1>5, <1>6

ReplayInv ==
  /\ fresh_current_write \in WriteRecord
  /\ replaying => SameRun /\ SameTrace

\* The validator gives both the same verdict.
LEMMA SameVerdict == \A insns : Fresh!validate_program(insns) = validate_program(insns)
<1>1. /\ Fresh!ChecksA = ChecksA /\ Fresh!ChecksB = ChecksB /\ Fresh!ChecksC = ChecksC
      /\ Fresh!Opcode = Opcode /\ Fresh!JumpOps = JumpOps
  BY SameConstants
     DEF Fresh!ChecksA, ChecksA, Fresh!ChecksB, ChecksB, Fresh!ChecksC, ChecksC, Fresh!FrameOps,
         FrameOps, Fresh!Opcode, Opcode, Fresh!JumpOps, JumpOps, Fresh!MakeOps, MakeOps
<1>2. \A i, size : Fresh!ValidInsn(i, size) = ValidInsn(i, size)
  BY <1>1, SameConstants DEF Fresh!ValidInsn, ValidInsn
<1> QED
  BY <1>2, SameConstants DEF Fresh!validate_program, validate_program

\* A load makes the fresh VM's state of both, but for the write latch.
LEMMA LoadsTogether ==
  ASSUME TypeOK', fresh_current_write \in WriteRecord, StartReplay
  PROVE  ReplayInv'
<1>1. /\ load_program /\ Fresh!load_program /\ fresh_program' = program'
  BY DEF StartReplay
<1>2. SameRun'
  <2>1. /\ Fresh!StackLimit' = StackLimit' /\ Fresh!HeapStart' = HeapStart'
        /\ Fresh!Zeroed(program') = Zeroed(program')
    BY <1>1 DEF Fresh!StackLimit, StackLimit, Fresh!StackStart, StackStart, Fresh!HeapStart,
       HeapStart, Fresh!Zeroed, Zeroed, Fresh!Addresses, Addresses
  <2> QED
    BY <1>1, <2>1, SameVerdict, SameConstants
       DEF load_program, Fresh!load_program, SameRun, ClearedSteps, Fresh!ClearedSteps,
           parse_policy, Fresh!parse_policy
<1>3. trace' = <<>> /\ fresh_trace' = <<>> /\ fresh_current_write' = fresh_current_write
  BY <1>1 DEF load_program, Fresh!load_program
<1> QED
  BY <1>2, <1>3 DEF ReplayInv, SameTrace

\* So does a register write.
LEMMA WritesTogether ==
  ASSUME TypeOK, TypeOK', SameRun, SameTrace, ReplayWrite
  PROVE  SameRun' /\ SameTrace'
<1>1. PICK w \in HostWrites : set_register_to(w) /\ Fresh!set_register_to(w)
  BY DEF ReplayWrite
<1>2. SameRun'
  BY <1>1 DEF SameRun, set_register_to, Fresh!set_register_to, mem, Fresh!mem, frames,
     Fresh!frames, pools, Fresh!pools
<1>3. UNCHANGED <<trace, program>> /\ fresh_trace' = fresh_trace
  BY <1>1 DEF set_register_to, Fresh!set_register_to
<1>4. fresh_current_write' \in WriteRecord
  BY <1>1, SameWords DEF set_register_to, Fresh!set_register_to, TypeOK, TraceOK
<1>5. Executed' = Executed
  BY <1>3 DEF Executed, Accepted
<1> QED
  BY <1>2, <1>3, <1>4, <1>5 DEF SameTrace

LEMMA ReplayKeeps ==
  ASSUME TypeOK, TypeOK', PreloadArmed, ReplayInv, [ReplayNext]_both, [SameBuild]_both
  PROVE  ReplayInv'
<1>1. CASE History
  BY <1>1 DEF History, fresh, ReplayInv
<1>2. CASE StartReplay
  BY <1>2, LoadsTogether DEF ReplayInv
<1>3. CASE ReplayStep /\ SameBuild
  <2>1. SameRun /\ SameTrace /\ Same
    BY <1>3 DEF ReplayStep, ReplayInv, Same, SameTrace
  <2>2. Together \/ RejectedTogether
    BY <1>3, <2>1, StepSame DEF ReplayStep
  <2>3. SameRun' /\ SameTrace'
    BY <2>1, <2>2, StepKeepsSame
  <2>4. fresh_current_write' \in WriteRecord
    BY <2>3 DEF SameTrace
  <2> QED
    BY <2>3, <2>4 DEF ReplayInv
<1>4. CASE ReplayWrite
  BY <1>4, WritesTogether DEF ReplayWrite, ReplayInv, SameTrace
<1>5. CASE UNCHANGED both
  <2>1. UNCHANGED <<vars, fresh, replaying>>
    BY <1>5 DEF both
  <2> QED
    BY <2>1 DEF vars, regs, mem, frames, pools, fresh, ReplayInv, SameRun, SameTrace, Executed,
       Accepted
<1> QED
  BY <1>1, <1>2, <1>3, <1>4, <1>5 DEF ReplayNext

\* Two VMs in the same state show the same.
LEMMA SameAgrees == TypeOK /\ ReplayInv => ReplaysAgree
<1> SUFFICES ASSUME TypeOK, SameRun, SameTrace
             PROVE  /\ Unlatched(trace) = Unlatched(fresh_trace)
                    /\ \A k \in Executed : trace[k] = fresh_trace[k]
                    /\ (DOMAIN trace = Executed) => state_hash = Fresh!state_hash
                    /\ <<flags, call_stack, regs, mem, pools, axion_log, last_trap_payload,
                         undefined>>
                         = <<fresh_flags, fresh_call_stack, Fresh!regs, Fresh!mem, Fresh!pools,
                             fresh_axion_log, fresh_last_trap_payload, fresh_undefined>>
  BY DEF ReplayInv, ReplaysAgree
<1>1. /\ trace \in Seq(TraceEntry) /\ fresh_trace \in Seq(TraceEntry)
      /\ Len(fresh_trace) = Len(trace)
      /\ DOMAIN trace = 1 .. Len(trace) /\ DOMAIN fresh_trace = 1 .. Len(trace)
  BY DEF TypeOK, TraceOK, SameTrace
<1>2. Unlatched(trace) = Unlatched(fresh_trace)
  BY <1>1 DEF Unlatched, SameTrace
<1>3. \A k \in Executed : trace[k] = fresh_trace[k]
  BY <1>1 DEF Executed, SameTrace
<1>4. ASSUME DOMAIN trace = Executed
      PROVE  state_hash = Fresh!state_hash
  <2>1. trace = fresh_trace
    BY <1>1, <1>3, <1>4, SeqEqual
  <2> QED
    BY <2>1 DEF SameRun, state_hash, Fresh!state_hash
<1>5. /\ Fresh!regs = regs /\ Fresh!mem = mem /\ Fresh!pools = pools
  BY DEF SameRun, regs, Fresh!regs, mem, Fresh!mem, frames, Fresh!frames, pools, Fresh!pools
<1> QED
  BY <1>2, <1>3, <1>4, <1>5 DEF SameRun

\* The first VM of a replay is a VM.
LEMMA ReplayIsRun ==
  /\ ReplayInit => Init
  /\ [ReplayNext]_both => [Next]_vars
BY DEF ReplayInit, ReplayNext, History, StartReplay, ReplayStep, ReplayWrite, Next, set_register, both

\* A VM given a program after whatever it ran before goes the way a fresh VM
\* goes, as far as the host makes the same calls and the build makes the same
\* of an overflow: load_program leaves nothing behind but the write latch.
THEOREM ReplayAlwaysAgrees == ReplaySpec /\ [][SameBuild]_both => []ReplaysAgree
<1>1. ReplaySpec => Spec
  BY ReplayIsRun, PTL DEF ReplaySpec, Spec
<1>2. ReplayInit => ReplayInv
  BY IsaAssumption, SameConstants, NoWriteType DEF ReplayInit, Fresh!Loaded, ReplayInv
<1>3. TypeOK /\ TypeOK' /\ PreloadArmed /\ ReplayInv /\ [ReplayNext]_both /\ [SameBuild]_both
        => ReplayInv'
  BY ReplayKeeps
<1> QED
  BY <1>1, <1>2, <1>3, SameAgrees, TypeCorrect, PreloadAlwaysArmed, PTL DEF ReplaySpec

=============================================================================
