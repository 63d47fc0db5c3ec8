------------------------------- MODULE T81Vm -------------------------------
(***************************************************************************)
(* The virtual machine as its host sees it: load_program, step,            *)
(* set_register, and tensors put straight into the pools.  step() is       *)
(* deterministic but for undefined behaviour; the host chooses which call   *)
(* comes next.                                                             *)
(***************************************************************************)
EXTENDS T81Flow, T81Scalar, T81Memory, T81Tensor, T81Axion

CONSTANTS
  Programs,     \* programs a fresh VM may be given
  Reloadable,   \* programs the host may load into the same VM later
  HostWrites,   \* register writes the host may make: [idx, value, tag]
  HostSeeds     \* tensors and shapes the host may provide: [idx, tag, tensor]

ASSUME ProgramsAssumption ==
  /\ Reloadable \subseteq Programs
  /\ \A p \in Programs :
       /\ p \in Program
       /\ Len(p.insns) + StackSize + HeapSize + TensorSize + MetaSize < Half

ASSUME HostWritesAssumption ==
  HostWrites \subseteq [idx : Int, value : Int64, tag : ValueTag]

TensorValue == [shape : Seq(Int64), size : Nat]

ASSUME HostSeedsAssumption ==
  HostSeeds \subseteq [idx : Regs, tag : {"TensorHandle", "ShapeHandle"}, tensor : TensorValue]

-----------------------------------------------------------------------------
(* load_program_image lays memory out and zeroes it; load_program replaces  *)
(* the whole state by it.  The write latch is not part of that state.      *)

\* What a VM that was given no program runs.  (Its memory is still empty; no
\* instruction can tell.)
NoProgram == [insns |-> <<>>, tier |-> NoPolicy]

Zeroed(p) == [addr \in Addresses(p) |-> 0]

\* What a VM holds right after a load, and before any.
Loaded ==
  /\ policy = program.tier
  /\ pc = 0 /\ halted = FALSE /\ flags = "none" /\ call_stack = <<>>
  /\ registers = [r \in Regs |-> 0]
  /\ register_tags = [r \in Regs |-> "Int"]
  /\ memory = Zeroed(program)
  /\ sp = StackLimit /\ heap_ptr = HeapStart
  /\ stack_frames = <<>> /\ heap_frames = <<>>
  /\ option_pool = <<>> /\ result_pool = <<>> /\ enum_pool = <<>>
  /\ tensor_pool = <<>> /\ shape_pool = <<>>
  /\ trace = <<>> /\ axion_log = <<>>
  /\ last_trap_payload = NoPayload
  /\ steps = 0 /\ gc_cycles = 0
  /\ preload_trap = validate_program(program.insns)
  /\ current_write = NoWrite
  /\ undefined = "none"

Init == program \in Programs /\ Loaded

\* Mutant of parse_policy: a text that names no tier leaves the policy alone.
parse_policy_kept(p) == IF p.tier = NoPolicy THEN policy ELSE p.tier

\* The policy of an image, which starts without one, is the tier its text names.
parse_policy(p) == p.tier

\* Mutant of ClearedSteps: the count goes on.
ClearedSteps_kept == steps

\* steps_ = 0
ClearedSteps == 0

load_program ==
  /\ undefined = "none"
  /\ program' \in Reloadable
  /\ policy' = parse_policy(program')
  /\ pc' = 0 /\ halted' = FALSE /\ flags' = "none" /\ call_stack' = <<>>
  /\ registers' = [r \in Regs |-> 0]
  /\ register_tags' = [r \in Regs |-> "Int"]
  /\ memory' = Zeroed(program')
  /\ sp' = StackLimit' /\ heap_ptr' = HeapStart'
  /\ stack_frames' = <<>> /\ heap_frames' = <<>>
  /\ option_pool' = <<>> /\ result_pool' = <<>> /\ enum_pool' = <<>>
  /\ tensor_pool' = <<>> /\ shape_pool' = <<>>
  /\ trace' = <<>> /\ axion_log' = <<>>
  /\ last_trap_payload' = NoPayload
  /\ steps' = ClearedSteps /\ gc_cycles' = 0
  /\ preload_trap' = validate_program(program'.insns)
  /\ UNCHANGED <<current_write, undefined>>

\* The host writes a register; an index out of range is ignored.
set_register_to(w) ==
  /\ undefined = "none"
  /\ w.idx \in Regs
  /\ registers' = [registers EXCEPT ![w.idx] = w.value]
  /\ register_tags' = [register_tags EXCEPT ![w.idx] = w.tag]
  /\ current_write' = Write(w.idx, w.value, w.tag)
  /\ UNCHANGED <<program, policy, pc, halted, flags, call_stack, mem, pools, trace, axion_log,
                 last_trap_payload, steps, gc_cycles, preload_trap, undefined>>

set_register == \E w \in HostWrites : set_register_to(w)

\* No instruction makes a first tensor or any shape: the host appends them to
\* the pools and hands out their handles with set_register.  (Bounds: before
\* the first step, to a program with a tensor opcode, once a register, and no
\* more of them than there are registers.)
seed_tensor ==
  /\ undefined = "none" /\ trace = <<>>
  /\ Len(tensor_pool) + Len(shape_pool) < RegCount
  /\ \E k \in DOMAIN program.insns : program.insns[k].opcode \in TensorOps
  /\ \E s \in HostSeeds :
       LET handle == NextHandle(IF s.tag = "TensorHandle" THEN tensor_pool ELSE shape_pool)
       IN  /\ register_tags[s.idx] = "Int"
           /\ tensor_pool' = IF s.tag = "TensorHandle" THEN Append(tensor_pool, s.tensor)
                                                       ELSE tensor_pool
           /\ shape_pool' = IF s.tag = "ShapeHandle" THEN Append(shape_pool, s.tensor.shape)
                                                     ELSE shape_pool
           /\ registers' = [registers EXCEPT ![s.idx] = handle]
           /\ register_tags' = [register_tags EXCEPT ![s.idx] = s.tag]
           /\ current_write' = Write(s.idx, handle, s.tag)
  /\ UNCHANGED <<program, policy, pc, halted, flags, call_stack, mem, option_pool, result_pool,
                 enum_pool, trace, axion_log, last_trap_payload, steps, gc_cycles,
                 preload_trap, undefined>>

\* step() of a VM that is not halted; a halted VM's step() changes nothing.
step == Prologue \/ Flow \/ Scalar \/ Memory \/ Values \/ TensorStep \/ Axion

Next == step \/ load_program \/ set_register \/ seed_tensor

Spec == Init /\ [][Next]_vars

-----------------------------------------------------------------------------
(* Type invariant.                                                         *)

FlagState   == {"none", "zero", "negative", "positive"}
WriteRecord == [reg : Regs \cup {-1}, value : Int64, tag : ValueTag]
OpcodeByte  == Opcode \cup {IllegalOpcode}
TraceEntry  == [pc : Nat, opcode : OpcodeByte, write : WriteRecord, trap : TrapCode \cup {NoTrap}]
AxionEvent  == [opcode : Opcode, event : Event, segment : SegmentKind]
TrapPayload == [trap : TrapCode \cup {NoTrap}, pc : Nat, opcode : OpcodeByte,
                operands : Int64 \X Int64 \X Int64, segment : SegmentKind]
PoolValue   == [present : BOOLEAN, variant : Int64, payload_tag : ValueTag, payload : Int64]
FrameRecord == [addr : Nat, size : Nat \ {0}]

ControlOK ==
  /\ program \in Program
  /\ pc \in 0 .. Len(program.insns)
  /\ halted \in BOOLEAN
  /\ flags \in FlagState
  /\ call_stack \in Seq(1 .. Len(program.insns))

RegsOK == registers \in [Regs -> Int64] /\ register_tags \in [Regs -> ValueTag]

MemoryOK == memory \in [Addresses(program) -> Int64]

FramesOK ==
  /\ sp \in Nat /\ sp >= StackStart
  /\ heap_ptr \in Nat
  /\ stack_frames \in Seq(FrameRecord)
  /\ heap_frames \in Seq(FrameRecord)

PoolsOK ==
  /\ option_pool \in Seq(PoolValue)
  /\ result_pool \in Seq(PoolValue)
  /\ enum_pool \in Seq(PoolValue)
  /\ tensor_pool \in Seq(TensorValue)
  /\ shape_pool \in Seq(Seq(Int64))

TraceOK ==
  /\ trace \in Seq(TraceEntry)
  /\ last_trap_payload \in TrapPayload
  /\ steps \in Nat /\ gc_cycles \in Nat
  /\ preload_trap \in TrapCode \cup {NoTrap}
  /\ current_write \in WriteRecord
  /\ undefined \in {"none", "register", "memory", "division", "tensor"}
  /\ policy \in Nat \cup {NoPolicy}

LogOK == axion_log \in Seq(AxionEvent)

\* Types of the variables, with the ranges the code relies on without
\* checking them: pc never passes the end of the program, every return
\* address is one a call can have pushed, the stack pointer never falls below
\* the stack, registers and memory hold machine words.
TypeOK == ControlOK /\ RegsOK /\ MemoryOK /\ FramesOK /\ PoolsOK /\ TraceOK /\ LogOK

=============================================================================
