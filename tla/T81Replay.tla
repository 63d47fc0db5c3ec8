----------------------------- MODULE T81Replay -----------------------------
(***************************************************************************)
(* Replay: a VM that has run other programs is given a program again, and   *)
(* so is a VM fresh from make_interpreter_vm; from then on the host makes    *)
(* the same calls on both.  The documents promise that nothing tells the     *)
(* two apart.                                                              *)
(***************************************************************************)
EXTENDS T81Properties, T81Summary

VARIABLES
  replaying,    \* both VMs have been given the program
  fresh_program, fresh_policy, fresh_pc, fresh_halted, fresh_flags, fresh_call_stack,
  fresh_registers, fresh_register_tags, fresh_memory, fresh_sp, fresh_heap_ptr,
  fresh_stack_frames, fresh_heap_frames, fresh_option_pool, fresh_result_pool,
  fresh_enum_pool, fresh_tensor_pool, fresh_shape_pool, fresh_trace,
  fresh_axion_log, fresh_last_trap_payload, fresh_steps, fresh_gc_cycles,
  fresh_preload_trap, fresh_current_write, fresh_undefined

Fresh == INSTANCE T81Summary WITH
  program <- fresh_program, policy <- fresh_policy, pc <- fresh_pc, halted <- fresh_halted, flags <-
  fresh_flags, call_stack <- fresh_call_stack, registers <- fresh_registers,
  register_tags <- fresh_register_tags, memory <- fresh_memory, sp <- fresh_sp,
  heap_ptr <- fresh_heap_ptr, stack_frames <- fresh_stack_frames, heap_frames <-
  fresh_heap_frames, option_pool <- fresh_option_pool, result_pool <-
  fresh_result_pool, enum_pool <- fresh_enum_pool, tensor_pool <- fresh_tensor_pool,
  shape_pool <- fresh_shape_pool, trace <- fresh_trace, axion_log <-
  fresh_axion_log, last_trap_payload <- fresh_last_trap_payload, steps <-
  fresh_steps, gc_cycles <- fresh_gc_cycles, preload_trap <- fresh_preload_trap,
  current_write <- fresh_current_write, undefined <- fresh_undefined

fresh == <<fresh_program, fresh_policy, fresh_pc, fresh_halted, fresh_flags, fresh_call_stack,
           fresh_registers, fresh_register_tags, fresh_memory, fresh_sp,
           fresh_heap_ptr, fresh_stack_frames, fresh_heap_frames,
           fresh_option_pool, fresh_result_pool, fresh_enum_pool,
           fresh_tensor_pool, fresh_shape_pool, fresh_trace, fresh_axion_log,
           fresh_last_trap_payload, fresh_steps, fresh_gc_cycles,
           fresh_preload_trap, fresh_current_write, fresh_undefined>>
both == <<vars, fresh, replaying>>

ReplayInit == Init /\ fresh_program = NoProgram /\ Fresh!Loaded /\ replaying = FALSE

-----------------------------------------------------------------------------
\* What happened to the first VM before the replay.
History == ~replaying /\ Next /\ UNCHANGED <<fresh, replaying>>

StartReplay ==
  /\ ~replaying
  /\ load_program
  /\ fresh_program' = program'
  /\ Fresh!load_program
  /\ replaying' = TRUE

ReplayStep == replaying /\ step /\ Fresh!step /\ UNCHANGED replaying

ReplayWrite ==
  /\ replaying
  /\ \E w \in HostWrites : set_register_to(w) /\ Fresh!set_register_to(w)
  /\ UNCHANGED replaying

ReplayNext == History \/ StartReplay \/ ReplayStep \/ ReplayWrite

ReplaySpec == ReplayInit /\ [][ReplayNext]_both

-----------------------------------------------------------------------------
\* The two VMs never part: once an instruction has executed since the load and
\* none trapped before it, the state hashes agree, and so does everything the
\* hash leaves out and later instructions depend on.  Before that they may differ
\* in one place: the entry of a trap raised before any instruction shows the
\* write latch, which load_program does not clear.
Unlatched(log) == [k \in DOMAIN log |-> [log[k] EXCEPT !.write = NoWrite]]

ReplaysAgree ==
  replaying =>
    /\ Unlatched(trace) = Unlatched(fresh_trace)
    /\ \A k \in Executed : trace[k] = fresh_trace[k]
    /\ (DOMAIN trace = Executed) => state_hash = Fresh!state_hash
    /\ <<flags, call_stack, regs, mem, pools, axion_log, last_trap_payload, undefined>>
         = <<fresh_flags, fresh_call_stack, Fresh!regs, Fresh!mem, Fresh!pools,
             fresh_axion_log, fresh_last_trap_payload, fresh_undefined>>

\* The exact result of the next instruction, if its handler computes in int64.
Exact ==
  CASE insn.opcode \in ArithOps -> Arith(insn.opcode, registers[insn.b], registers[insn.c])
    [] insn.opcode = "Neg"       -> -registers[insn.b]
    [] insn.opcode = "Inc"       -> registers[insn.a] + 1
    [] insn.opcode = "Dec"       -> registers[insn.a] - 1
    [] insn.opcode = "Cmp"       -> Difference(registers[insn.a], registers[insn.b])

\* It overflows, or divides the smallest word by -1.
Overflows ==
  /\ Fetch(ArithOps \cup {"Neg", "Inc", "Dec", "Cmp"})
  /\ Divides(insn.opcode) => registers[insn.c] # 0
  /\ Exact \notin Int64 \/ QuotientOverflows

\* Both VMs are one build, which makes the same of an overflow each time.
SameBuild ==
  replaying /\ Overflows =>
    registers' = fresh_registers' /\ flags' = fresh_flags' /\ undefined' = fresh_undefined'

=============================================================================
