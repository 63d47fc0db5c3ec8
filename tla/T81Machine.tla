----------------------------- MODULE T81Machine -----------------------------
(***************************************************************************)
(* The interpreter object: its state, the prologue of step(), and the      *)
(* helpers every instruction handler ends in (trace_ok, trap, set_flags,   *)
(* set_register_value, the axion log).  The instruction families EXTEND    *)
(* this module.                                                            *)
(***************************************************************************)
EXTENDS T81Validator

CONSTANT MaxTrace   \* bound of the model: no step starts once the trace is this long

\* The handles a bounded run gives out, one a step and one a register at most,
\* are machine words.
ASSUME MaxTraceAssumption == MaxTrace \in Nat /\ MaxTrace + RegCount < Half

VARIABLES
  program,            \* the loaded program
  policy,             \* state_.policy: its tier, or NoPolicy
  pc, halted, flags, call_stack,
  registers, register_tags,
  memory, sp, heap_ptr, stack_frames, heap_frames,
  option_pool, result_pool, enum_pool, tensor_pool, shape_pool,
  trace,              \* one entry per completed or trapped instruction
  axion_log,          \* the audit log
  last_trap_payload,
  steps, gc_cycles,
  preload_trap,       \* the validator's verdict, armed by load_program
  current_write,      \* current_write_reg_, _value_ and _tag_
  undefined           \* what C++ behaviour the program ran into that has no meaning

regs  == <<registers, register_tags>>
frames == <<sp, heap_ptr, stack_frames, heap_frames>>
mem   == <<memory, frames>>
pools == <<option_pool, result_pool, enum_pool, tensor_pool, shape_pool>>
vars  == <<program, policy, pc, halted, flags, call_stack, regs, mem, pools, trace, axion_log,
           last_trap_payload, steps, gc_cycles, preload_trap, current_write, undefined>>

-----------------------------------------------------------------------------
(* Memory layout: code, stack, heap, tensor and meta segments, in a row.   *)

StackStart  == Len(program.insns)
StackLimit  == StackStart + StackSize
HeapStart   == StackLimit
HeapLimit   == HeapStart + HeapSize
TensorLimit == HeapLimit + TensorSize
MetaLimit   == TensorLimit + MetaSize

Addresses(p) == 0 .. (Len(p.insns) + StackSize + HeapSize + TensorSize + MetaSize - 1)

segment_of(addr) ==
  IF addr < 0 THEN "unknown"
  ELSE IF addr < StackStart THEN "code"
  ELSE IF addr < StackLimit THEN "stack"
  ELSE IF addr < HeapLimit THEN "heap"
  ELSE IF addr < TensorLimit THEN "tensor"
  ELSE IF addr < MetaLimit THEN "meta"
  ELSE "unknown"

valid_mem(addr) == segment_of(addr) # "unknown"

-----------------------------------------------------------------------------
(* What the observers record.                                              *)

Write(r, v, t) == [reg |-> r, value |-> v, tag |-> t]
NoWrite == Write(-1, 0, "Int")

Entry(at, opcode, write, code) ==
  [pc |-> at, opcode |-> opcode, write |-> write, trap |-> code]

Payload(code, at, opcode, operands, segment) ==
  [trap |-> code, pc |-> at, opcode |-> opcode, operands |-> operands, segment |-> segment]
NoPayload == Payload(NoTrap, 0, "Nop", <<0, 0, 0>>, "unknown")

Event == {"access", "bounds", "allow", "deny", "weights", "allocated", "freed"}

-----------------------------------------------------------------------------
(* The instruction at pc and the registers its handler indexes before it   *)
(* can trap; handlers that check something first index only after that.    *)

insn == program.insns[pc + 1]

StackHasRoom == sp # 0 /\ sp - 1 >= StackStart
StackHasWord == sp < StackLimit

IndexesA(i) ==
  \/ i.opcode \in {"Inc", "Dec", "Cmp", "Call", "AxSet"}
  \/ i.opcode = "Push" /\ StackHasRoom
  \/ i.opcode = "Pop" /\ StackHasWord
  \/ i.opcode = "StackFree" /\ stack_frames # <<>>
  \/ i.opcode = "HeapFree" /\ heap_frames # <<>>

IndexesB(i) ==
  /\ i.opcode \in UsesB
  /\ i.opcode = "Store" => valid_mem(i.a)
  /\ i.opcode = "MakeEnumVariantPayload" => i.c >= 0

\* A tensor opcode looks at its second operand once the first is a tensor.
IndexesC(i) ==
  /\ i.opcode \in UsesC
  /\ i.opcode \in TensorPairOps => i.b \in Regs /\ register_tags[i.b] = "TensorHandle"

OperandsInRange(i) ==
  /\ IndexesA(i) => i.a \in Regs
  /\ IndexesB(i) => i.b \in Regs
  /\ IndexesC(i) => i.c \in Regs

-----------------------------------------------------------------------------
(* step()                                                                  *)

\* step() does something: the VM is not halted (and the bounds allow a step).
Stepping == ~halted /\ undefined = "none" /\ Len(trace) < MaxTrace

\* The prologue lets the instruction at pc through to the switch.
Fetched == Stepping /\ preload_trap = NoTrap /\ pc < Len(program.insns)

\* A handler of one of these opcodes runs.
Fetch(opcodes) == Fetched /\ insn.opcode \in opcodes /\ OperandsInRange(insn)

\* ++steps_ and the deterministic GC tick.
CountStep ==
  /\ steps' = steps + 1
  /\ gc_cycles' = IF (steps + 1) % GcInterval = 0 THEN gc_cycles + 1 ELSE gc_cycles

\* set_flags
SignOf(v) == IF v = 0 THEN "zero" ELSE IF v < 0 THEN "negative" ELSE "positive"

\* Mutant of Log: events of no segment are dropped.
Log_known(event, segment) ==
  axion_log' = IF segment = "unknown" THEN axion_log
               ELSE Append(axion_log, [opcode |-> insn.opcode, event |-> event, segment |-> segment])

Log(event, segment) ==
  axion_log' = Append(axion_log, [opcode |-> insn.opcode, event |-> event, segment |-> segment])

\* Mutant of Retire: the entry carries the write of the instruction before.
Retire_stale(write) ==
  /\ current_write' = write
  /\ trace' = Append(trace, Entry(pc, insn.opcode, current_write, NoTrap))
  /\ CountStep
  /\ UNCHANGED <<program, policy, preload_trap, undefined>>

\* The instruction completes with the given register write (trace_ok).
Retire(write) ==
  /\ current_write' = write
  /\ trace' = Append(trace, Entry(pc, insn.opcode, write, NoTrap))
  /\ CountStep
  /\ UNCHANGED <<program, policy, preload_trap, undefined>>

\* Mutant of Complete: any completed instruction clears the last trap.
Complete_clears(write) ==
  Retire(write) /\ UNCHANGED halted /\ last_trap_payload' = NoPayload

Complete(write) == Retire(write) /\ UNCHANGED <<halted, last_trap_payload>>

\* set_register_value(insn.a, v, tag); set flags to f; ++pc; trace_ok.
\* Nothing checks insn.a here: out of range, the store is undefined.
ProduceWith(v, tag, f) ==
  /\ IF insn.a \in Regs
     THEN /\ registers' = [registers EXCEPT ![insn.a] = v]
          /\ register_tags' = [register_tags EXCEPT ![insn.a] = tag]
          /\ flags' = f
          /\ pc' = pc + 1
          /\ Complete(Write(insn.a, v, tag))
     ELSE /\ undefined' = "register"
          /\ UNCHANGED <<regs, flags, pc, program, policy, preload_trap, halted,
                         last_trap_payload, trace, current_write, steps, gc_cycles>>
  /\ UNCHANGED <<call_stack, memory>>

Produce(v, tag) == ProduceWith(v, tag, SignOf(v))

\* trap(): the entry carries whatever write the latch holds; the preload
\* trap is spent.
trap(code, opcode, segment, write) ==
  /\ last_trap_payload' =
       Payload(code, pc, opcode,
               IF pc < Len(program.insns) THEN <<insn.a, insn.b, insn.c>> ELSE <<0, 0, 0>>,
               segment)
  /\ trace' = Append(trace, Entry(pc, opcode, write, code))
  /\ current_write' = write
  /\ preload_trap' = NoTrap
  /\ UNCHANGED <<program, policy, pc, halted, flags, call_stack, regs, mem, pools, undefined>>

\* A handler traps: the prologue has cleared the latch and counted the step.
Fault(code, segment) == trap(code, insn.opcode, segment, NoWrite) /\ CountStep
QuietFault(code, segment) == Fault(code, segment) /\ UNCHANGED axion_log

\* Mutant of PrologueTrap: the step is counted.
PrologueTrap_counted(code, opcode) ==
  trap(code, opcode, "unknown", current_write) /\ CountStep /\ UNCHANGED axion_log

\* The prologue traps, before the latch is cleared and the step counted.
PrologueTrap(code, opcode) ==
  /\ trap(code, opcode, "unknown", current_write)
  /\ UNCHANGED <<axion_log, steps, gc_cycles>>

PreloadTrap ==
  /\ Stepping
  /\ preload_trap # NoTrap
  /\ PrologueTrap(preload_trap, IF pc < Len(program.insns) THEN insn.opcode ELSE "Nop")

\* Mutant of FallOff: running off the end of the program halts.
FallOff_halts ==
  /\ Stepping
  /\ preload_trap = NoTrap
  /\ pc >= Len(program.insns)
  /\ halted' = TRUE
  /\ UNCHANGED <<program, policy, pc, flags, call_stack, regs, mem, pools, trace, axion_log,
                 last_trap_payload, steps, gc_cycles, preload_trap, current_write, undefined>>

FallOff ==
  /\ Stepping
  /\ preload_trap = NoTrap
  /\ pc >= Len(program.insns)
  /\ PrologueTrap("DecodeFault", "Nop")

\* No case of the switch matches the opcode.
UnknownOpcode ==
  /\ Fetched
  /\ insn.opcode = IllegalOpcode
  /\ QuietFault("DecodeFault", "unknown")

\* The handler reads registers[] out of bounds.
UndefinedRead ==
  /\ Fetched
  /\ ~OperandsInRange(insn)
  /\ undefined' = "register"
  /\ UNCHANGED <<program, policy, pc, halted, flags, call_stack, regs, mem, pools, trace, axion_log,
                 last_trap_payload, steps, gc_cycles, preload_trap, current_write>>

Prologue == PreloadTrap \/ FallOff \/ UnknownOpcode \/ UndefinedRead

=============================================================================
