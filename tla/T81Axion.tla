------------------------------ MODULE T81Axion ------------------------------
(***************************************************************************)
(* The policy instructions and WeightsLoad: what the VM reports to Axion.   *)
(***************************************************************************)
EXTENDS T81Machine

\* axion_denied: a policy is bound and its tier is 0.
axion_denied == policy = 0

\* The address an instruction presents to the guard names a segment, or none.
\* AxVerify always presents the meta segment.
GuardSegment ==
  CASE insn.opcode = "AxRead"   -> segment_of(insn.b)
    [] insn.opcode = "AxSet"    -> segment_of(registers[insn.a])
    [] insn.opcode = "AxVerify" -> "meta"

\* log_axion_guard comes first, then the trap.
AxionDeny ==
  /\ Fetch(AxionOps)
  /\ axion_denied
  /\ Log("deny", GuardSegment)
  /\ Fault("SecurityFault", GuardSegment)

AxRead ==
  /\ Fetch({"AxRead"})
  /\ ~axion_denied
  /\ Log("allow", GuardSegment)
  /\ Produce(insn.b, "Int")
  /\ UNCHANGED <<frames, pools>>

\* An allowed AxSet stores nothing.
AxSet ==
  /\ Fetch({"AxSet"})
  /\ ~axion_denied
  /\ Log("allow", GuardSegment)
  /\ pc' = pc + 1
  /\ Complete(NoWrite)
  /\ UNCHANGED <<flags, call_stack, regs, mem, pools>>

AxVerify ==
  /\ Fetch({"AxVerify"})
  /\ ~axion_denied
  /\ Log("allow", GuardSegment)
  /\ Produce(0, "Int")
  /\ UNCHANGED <<frames, pools>>

\* The handle is operand b, or made up from the pc; no pool backs it.
WeightsLoad ==
  /\ Fetch({"WeightsLoad"})
  /\ Produce(IF insn.b > 0 THEN insn.b ELSE Wrap(WeightsBase + pc), "WeightsTensorHandle")
  /\ Log("weights", "unknown")
  /\ UNCHANGED <<frames, pools>>

Axion == AxionDeny \/ AxRead \/ AxSet \/ AxVerify \/ WeightsLoad

=============================================================================
