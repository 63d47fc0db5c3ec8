----------------------------- MODULE T81Summary -----------------------------
(***************************************************************************)
(* What the VM prints of its state: the state hash that replays and parity  *)
(* checks compare.                                                         *)
(***************************************************************************)
EXTENDS T81Vm

\* The state the hash mixes in, in its order; collisions are ignored.  It leaves
\* out flags, tags, sp, the frames, the pools, the call stack and the audit log.
state_hash ==
  <<pc, halted, gc_cycles, registers, memory, trace, last_trap_payload, policy>>

=============================================================================
