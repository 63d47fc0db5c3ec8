--------------------------- MODULE T81TraceProofs ---------------------------
(***************************************************************************)
(* What a reader of the trace may conclude about the machine.  StepEnds     *)
(* sorts the instructions of every family by how they end: rejected in the  *)
(* prologue, faulted, completed, or without a meaning in C++.  The          *)
(* invariants that relate the machine to its trace follow from that lemma   *)
(* alone.                                                                  *)
(***************************************************************************)
EXTENDS T81SafetyProofs, FiniteSetTheorems

-----------------------------------------------------------------------------
(* The ways a step may end.                                                *)

\* The entry the handler at pc leaves.
Ran(w, code) == Entry(pc, insn.opcode, w, code)

\* The audit log gains what entry e calls for.
Tells(e) ==
  IF Audit(e) = "silent" THEN UNCHANGED axion_log
  ELSE \E seg \in SegmentKind :
         axion_log' = Append(axion_log, [opcode |-> e.opcode, event |-> Audit(e), segment |-> seg])

\* A handler ran to its end and its entry is in the trace.
Handled(w, code) ==
  /\ Fetched
  /\ trace' = Append(trace, Ran(w, code))
  /\ current_write' = w
  /\ preload_trap' = NoTrap
  /\ CountStep
  /\ UNCHANGED <<program, policy, undefined>>
  /\ Tells(Ran(w, code))
  /\ insn.opcode \in AxionOps => (code = "SecurityFault") = axion_denied

Names(payload, code, at, opcode) ==
  payload.trap = code /\ payload.pc = at /\ payload.opcode = opcode

Faults(code) ==
  /\ Handled(NoWrite, code)
  /\ code \in TrapCode
  /\ Names(last_trap_payload', code, pc, insn.opcode)
  /\ UNCHANGED <<pc, halted, call_stack, regs>>

\* Where a completed instruction goes.
Moves ==
  /\ CASE insn.opcode = "Jump"      -> pc' = insn.a
       [] insn.opcode \in BranchOps -> pc' \in {insn.a, pc + 1}
       [] insn.opcode = "Call"      -> InProgram(pc')
       [] insn.opcode = "Ret"       -> call_stack # <<>> /\ pc' = Last(call_stack)
       [] OTHER                     -> pc' = pc + 1
  /\ call_stack' = IF insn.opcode = "Call" THEN Append(call_stack, pc + 1)
                   ELSE IF insn.opcode = "Ret" THEN Front(call_stack) ELSE call_stack

\* How a completed instruction annotates its register write.
Writes(w) ==
  \/ w = NoWrite /\ (UNCHANGED regs \/ insn.opcode \in UnannotatedOps)
  \/ \E v \in Int64, t \in ValueTag :
       /\ insn.a \in Regs /\ w = Write(insn.a, v, t)
       /\ registers' = [registers EXCEPT ![insn.a] = v]
       /\ register_tags' = [register_tags EXCEPT ![insn.a] = t]

Completes(w) ==
  /\ Handled(w, NoTrap)
  /\ Moves
  /\ Writes(w)
  /\ IF insn.opcode = "Halt" THEN halted' = TRUE /\ last_trap_payload' = NoPayload
                             ELSE UNCHANGED <<halted, last_trap_payload>>

\* The prologue traps: the entry carries whatever the latch holds.
Rejects(code) ==
  /\ Stepping
  /\ IF preload_trap # NoTrap THEN code = preload_trap
                              ELSE pc >= Len(program.insns) /\ code = "DecodeFault"
  /\ LET op == IF pc < Len(program.insns) THEN insn.opcode ELSE "Nop"
     IN  /\ trace' = Append(trace, Entry(pc, op, current_write, code))
         /\ Names(last_trap_payload', code, pc, op)
  /\ preload_trap' = NoTrap
  /\ UNCHANGED <<program, policy, pc, halted, call_stack, regs, axion_log, steps, gc_cycles,
                 current_write, undefined>>

\* The instruction runs into behaviour C++ gives no meaning to.
Lost ==
  /\ Stepping
  /\ undefined' # "none"
  /\ UNCHANGED <<program, policy, pc, halted, call_stack, regs, trace, steps, gc_cycles,
                 preload_trap, current_write, last_trap_payload>>

Ends == Lost \/ (\E code \in TrapCode : Faults(code)) \/ (\E w \in WriteRecord : Completes(w))

-----------------------------------------------------------------------------
(* Handlers that fault, advance, or produce a register value.              *)

\* A fault that logs nothing.
LEMMA QuietFaultEnds ==
  ASSUME TypeOK, Fetched, NEW code \in TrapCode, NEW seg, QuietFault(code, seg),
         insn.opcode \notin AxionOps, Audit(Ran(NoWrite, code)) = "silent"
  PROVE  Ends
<1>1. Handled(NoWrite, code)
  BY DEF Handled, QuietFault, Fault, trap, Ran, Tells
<1>2. Faults(code)
  BY <1>1 DEF Faults, QuietFault, Fault, trap, Payload, Names
<1> QED
  BY <1>2 DEF Ends

\* The handler logs what its entry calls for.
LEMMA LogTells ==
  ASSUME TypeOK, TypeOK', NEW w, NEW code, NEW event, NEW seg, Log(event, seg),
         event # "silent", Audit(Ran(w, code)) = event
  PROVE  Tells(Ran(w, code))
<1> DEFINE said == [opcode |-> insn.opcode, event |-> event, segment |-> seg]
<1>1. axion_log \in Seq(AxionEvent) /\ axion_log' \in Seq(AxionEvent)
      /\ axion_log' = Append(axion_log, said)
  BY DEF TypeOK, LogOK, Log
<1>2. Len(axion_log) + 1 \in DOMAIN axion_log' /\ axion_log'[Len(axion_log) + 1] = said
  BY <1>1
<1>3. said \in AxionEvent
  BY <1>1, <1>2
<1>4. seg \in SegmentKind
  BY <1>3 DEF AxionEvent
<1> QED
  BY <1>1, <1>4 DEF Tells, Ran, Entry

\* A fault that reports event first.
LEMMA LoggedFaultEnds ==
  ASSUME TypeOK, TypeOK', Fetched, NEW code \in TrapCode, NEW seg, NEW event,
         Log(event, seg), Fault(code, seg), event # "silent",
         Audit(Ran(NoWrite, code)) = event,
         insn.opcode \in AxionOps => (code = "SecurityFault") = axion_denied
  PROVE  Ends
<1>1. Tells(Ran(NoWrite, code))
  BY LogTells
<1>2. Handled(NoWrite, code)
  BY <1>1 DEF Handled, Fault, trap, Ran
<1>3. Faults(code)
  BY <1>2 DEF Faults, Fault, trap, Payload, Names
<1> QED
  BY <1>3 DEF Ends

\* Opcodes that go to the next instruction and leave the call stack alone.
Plain(opcode) == opcode \notin JumpOps \cup {"Call", "Ret", "Halt"}

LEMMA PlainMoves ==
  ASSUME Plain(insn.opcode), pc' = pc + 1, call_stack' = call_stack
  PROVE  Moves
BY DEF Plain, Moves, JumpOps, BranchOps

\* An instruction that completes without annotating a write.
LEMMA AdvanceEnds ==
  ASSUME TypeOK, Fetched, Complete(NoWrite), Plain(insn.opcode), pc' = pc + 1,
         call_stack' = call_stack, UNCHANGED regs \/ insn.opcode \in UnannotatedOps,
         Tells(Ran(NoWrite, NoTrap)), insn.opcode \in AxionOps => ~axion_denied
  PROVE  Ends
<1>1. Handled(NoWrite, NoTrap)
  BY DEF Handled, Complete, Retire, Ran, Fetched, NoTrap, axion_denied
<1>2. Moves
  BY PlainMoves
<1>3. Completes(NoWrite)
  BY <1>1, <1>2 DEF Completes, Writes, Complete, Plain
<1> QED
  BY <1>3, NoWriteType DEF Ends

\* An instruction that ends in a register write, if the register exists.
LEMMA ProduceEnds ==
  ASSUME TypeOK, TypeOK', Fetched, Plain(insn.opcode), NEW v, NEW tag, NEW f,
         ProduceWith(v, tag, f),
         \A w : Tells(Ran(w, NoTrap)),
         insn.opcode \in AxionOps => ~axion_denied
  PROVE  Ends
<1>1. CASE insn.a \notin Regs
  <2>1. Lost
    BY <1>1 DEF ProduceWith, Lost, Fetched
  <2> QED
    BY <2>1 DEF Ends
<1>2. CASE insn.a \in Regs
  <2> DEFINE w == Write(insn.a, v, tag)
  <2>1. Complete(w) /\ pc' = pc + 1 /\ call_stack' = call_stack
    BY <1>2 DEF ProduceWith
  <2>2. Handled(w, NoTrap)
    BY <2>1 DEF Handled, Complete, Retire, Ran, Fetched, NoTrap, axion_denied
  <2>3. Moves
    BY <2>1, PlainMoves
  <2>0. v \in Int64 /\ tag \in ValueTag
    <3>1. registers'[insn.a] = v /\ register_tags'[insn.a] = tag
      BY <1>2 DEF ProduceWith, TypeOK, RegsOK
    <3> QED
      BY <1>2, <3>1 DEF TypeOK, RegsOK
  <2>4. Writes(w)
    BY <1>2, <2>0 DEF ProduceWith, Writes
  <2>5. Completes(w)
    BY <2>1, <2>2, <2>3, <2>4 DEF Completes, Complete, Plain
  <2>6. w \in WriteRecord
    BY <1>2, <2>0 DEF Write, WriteRecord
  <2> QED
    BY <2>5, <2>6 DEF Ends
<1> QED
  BY <1>1, <1>2

-----------------------------------------------------------------------------
(* The instruction families.                                               *)

\* What an executed instruction says to the audit log, case by case.
LEMMA AuditCases ==
  ASSUME NEW w, NEW code
  PROVE  LET op == insn.opcode
             said == Audit(Ran(w, code))
         IN  /\ op \in AxionOps => said = IF code = NoTrap THEN "allow" ELSE "deny"
             /\ op = "WeightsLoad" => said = "weights"
             /\ op = "Store" /\ code = NoTrap => said = "access"
             /\ op \in {"StackAlloc", "HeapAlloc"} /\ code = NoTrap => said = "allocated"
             /\ op \in {"StackFree", "HeapFree"} => said = IF code = NoTrap THEN "freed" ELSE "silent"
             /\ op \in {"Load", "Push", "Pop"} /\ code = NoTrap => said = "silent"
             /\ op \in {"Load", "Store", "Push", "Pop"} /\ code # NoTrap => said = "bounds"
             /\ op \in {"StackAlloc", "HeapAlloc"} /\ code # NoTrap
                  => said = IF insn.b > 0 THEN "bounds" ELSE "silent"
             /\ op \notin AxionOps \cup FrameOps \cup {"WeightsLoad", "Load", "Store", "Push", "Pop"}
                  => said = "silent"
BY DEF Audit, Ran, Entry, insn, Completed, AxionOps, FrameOps

\* An opcode that is never reported.
Unreported(op) == op \notin AxionOps \cup FrameOps \cup {"WeightsLoad", "Load", "Store", "Push", "Pop"}

LEMMA UnreportedTells ==
  ASSUME Unreported(insn.opcode), axion_log' = axion_log
  PROVE  /\ insn.opcode \notin AxionOps
         /\ \A w, code : Tells(Ran(w, code)) /\ Audit(Ran(w, code)) = "silent"
BY AuditCases DEF Unreported, Tells

LEMMA FlowEnds ==
  ASSUME TypeOK, TypeOK', Flow
  PROVE  Ends
<1>1. Fetched /\ insn.opcode \in {"Nop", "Halt", "Call", "Ret", "Trap"} \cup JumpOps
      /\ axion_log' = axion_log
  BY DEF Flow, Nop, Halt, Jump, BranchTaken, BranchNotTaken, Call, CallOutside, Ret, RetEmpty,
         TrapInsn, Fetch, FallThrough, JumpTo, QuietFault, data, JumpOps
<1>2. Unreported(insn.opcode)
  BY <1>1 DEF Unreported, JumpOps, BranchOps, AxionOps, FrameOps
<1>3. /\ insn.opcode \notin AxionOps
      /\ \A w, code : Tells(Ran(w, code)) /\ Audit(Ran(w, code)) = "silent"
  BY <1>1, <1>2, UnreportedTells
<1>4. {"DecodeFault", "StackFault", "TrapInstruction"} \subseteq TrapCode
  BY DEF TrapCode
<1>5. ASSUME NEW code \in TrapCode, NEW seg, QuietFault(code, seg)
      PROVE  Ends
  BY <1>1, <1>3, <1>5, QuietFaultEnds
<1>6. ASSUME Complete(NoWrite), UNCHANGED regs, Moves, insn.opcode # "Halt"
      PROVE  Ends
  <2>1. Handled(NoWrite, NoTrap)
    BY <1>1, <1>3, <1>6 DEF Handled, Complete, Retire, Ran, Fetched
  <2>2. Completes(NoWrite)
    BY <1>6, <2>1 DEF Completes, Complete, Writes
  <2> QED
    BY <2>2, NoWriteType DEF Ends
<1>7. CASE Nop
  BY <1>6, <1>7 DEF Nop, Fetch, FallThrough, data, Moves, BranchOps
<1>8. CASE Halt
  <2>1. Moves
    BY <1>8 DEF Halt, Fetch, Moves, BranchOps
  <2>2. Handled(NoWrite, NoTrap)
    BY <1>1, <1>3, <1>8 DEF Halt, Handled, Retire, Ran, Fetched
  <2>3. Completes(NoWrite)
    BY <1>8, <2>1, <2>2 DEF Halt, Fetch, Completes, Writes, data
  <2> QED
    BY <2>3, NoWriteType DEF Ends
<1>9. ASSUME insn.opcode \in JumpOps, JumpTo(insn.a)
      PROVE  Ends
  <2>1. CASE InProgram(insn.a)
    <3>1. pc' = insn.a /\ Complete(NoWrite) /\ UNCHANGED <<call_stack, regs>>
      BY <1>9, <2>1 DEF JumpTo, data
    <3>2. Moves /\ insn.opcode # "Halt"
      BY <1>9, <3>1 DEF Moves, JumpOps, BranchOps
    <3> QED
      BY <1>6, <3>1, <3>2
  <2>2. CASE ~InProgram(insn.a)
    BY <1>4, <1>5, <1>9, <2>2 DEF JumpTo
  <2> QED
    BY <2>1, <2>2
<1>10. CASE Jump \/ BranchTaken
  BY <1>9, <1>10 DEF Jump, BranchTaken, Fetch, JumpOps
<1>11. CASE BranchNotTaken
  BY <1>6, <1>11 DEF BranchNotTaken, Fetch, FallThrough, data, Moves, BranchOps
<1>12. CASE Call
  BY <1>6, <1>12 DEF Call, Fetch, data, Moves, BranchOps, ReturnAddress
<1>13. CASE Ret
  BY <1>6, <1>13 DEF Ret, Fetch, data, Moves, BranchOps
<1>14. CASE CallOutside \/ RetEmpty \/ TrapInsn
  BY <1>4, <1>5, <1>14 DEF CallOutside, RetEmpty, TrapInsn
<1> QED
  BY <1>7, <1>8, <1>10, <1>11, <1>12, <1>13, <1>14 DEF Flow

\* An instruction of a family that is never reported produces, advances or faults.
LEMMA UnreportedEnds ==
  ASSUME TypeOK, TypeOK', Fetched, Unreported(insn.opcode), Plain(insn.opcode), axion_log' = axion_log,
         \/ \E v, tag, f : ProduceWith(v, tag, f)
         \/ \E code \in TrapCode, seg \in SegmentKind : QuietFault(code, seg)
         \/ /\ Complete(NoWrite) /\ pc' = pc + 1 /\ call_stack' = call_stack
            /\ UNCHANGED regs \/ insn.opcode \in UnannotatedOps
  PROVE  Ends
<1>1. /\ insn.opcode \notin AxionOps
      /\ \A w, code : Tells(Ran(w, code)) /\ Audit(Ran(w, code)) = "silent"
  BY UnreportedTells
<1>2. CASE \E v, tag, f : ProduceWith(v, tag, f)
  BY <1>1, <1>2, ProduceEnds
<1>3. CASE \E code \in TrapCode, seg \in SegmentKind : QuietFault(code, seg)
  BY <1>1, <1>3, QuietFaultEnds
<1>4. CASE /\ Complete(NoWrite) /\ pc' = pc + 1 /\ call_stack' = call_stack
           /\ UNCHANGED regs \/ insn.opcode \in UnannotatedOps
  BY <1>1, <1>4, AdvanceEnds
<1> QED
  BY <1>2, <1>3, <1>4

LEMMA ScalarEnds ==
  ASSUME TypeOK, TypeOK', Scalar
  PROVE  Ends
<1> DEFINE Ops == ConvertOps \cup ArithOps \cup CompareOps \cup TritOps
                  \cup {"LoadImm", "Mov", "SetF", "Neg", "Inc", "Dec", "Cmp", "TNot"}
<1>1. CASE DivisionCrash
  BY <1>1 DEF DivisionCrash, Lost, Ends, Fetch, Fetched
<1>2. CASE ~DivisionCrash
  <2>1. Fetched /\ insn.opcode \in Ops
    BY <1>2 DEF Scalar, LoadImm, DivideByZero, Arithmetic, Mov, SetF, Neg, Inc, Dec, Cmp, Compare,
                TNot, TritLogic, Fetch
  <2>2. Unreported(insn.opcode) /\ Plain(insn.opcode)
    BY <2>1 DEF Unreported, Plain, ConvertOps, ArithOps, AddOps, SubOps, MulOps, DivOps, CompareOps,
                TritOps, AxionOps, FrameOps, JumpOps, BranchOps
  <2>3. axion_log' = axion_log
    BY <1>2 DEF Scalar, LoadImm, DivideByZero, Arithmetic, Mov, SetF, Neg, Inc, Dec, Cmp, Compare,
                TNot, TritLogic, QuietFault, Bump, store
  <2>4. CASE LoadImm \/ Arithmetic \/ Mov \/ SetF \/ Neg \/ Compare \/ TNot \/ TritLogic
    <3>1. \E v, tag, f : ProduceWith(v, tag, f)
      BY <2>4 DEF LoadImm, Arithmetic, Mov, SetF, Neg, Compare, TNot, TritLogic, Produce, ProduceOneOf
    <3> QED
      BY <2>1, <2>2, <2>3, <3>1, UnreportedEnds
  <2>5. CASE DivideByZero
    <3>1. \E code \in TrapCode, seg \in SegmentKind : QuietFault(code, seg)
      BY <2>5 DEF DivideByZero, TrapCode, SegmentKind
    <3> QED
      BY <2>1, <2>2, <2>3, <3>1, UnreportedEnds
  <2>6. CASE Inc \/ Dec \/ Cmp
    <3>1. /\ Complete(NoWrite) /\ pc' = pc + 1 /\ call_stack' = call_stack
          /\ UNCHANGED regs \/ insn.opcode \in UnannotatedOps
      BY <2>6 DEF Inc, Dec, Cmp, Fetch, Bump, UnannotatedOps
    <3> QED
      BY <2>1, <2>2, <2>3, <3>1, UnreportedEnds
  <2> QED
    BY <1>2, <2>4, <2>5, <2>6 DEF Scalar
<1> QED
  BY <1>1, <1>2

LEMMA ValuesEnds ==
  ASSUME TypeOK, TypeOK', Values \/ TensorStep
  PROVE  Ends
<1> DEFINE Ops == MakeOps \cup UnwrapOps \cup {"MakeOptionNone", "MakeEnumVariant"} \cup TensorOps
<1>0. CASE TensorOverrun
  BY <1>0 DEF TensorOverrun, Lost, Ends, Fetch, Fetched
<1>1. Fetched /\ insn.opcode \in Ops /\ axion_log' = axion_log
  <2>1. CASE Values
    BY <2>1 DEF Values, MakeOption, MakeResult, MakeEnum, MakeEnumFault, ReaderTypeFault,
                ReaderDecodeFault, Test, Unwrap, Fetch, QuietFault, MakeOps, UnwrapOps, Tests
  <2>2. CASE TensorStep
    BY <2>2 DEF TensorStep, TensorTypeFault, TensorDecodeFault, TensorShapeFault, MakeTensor,
                TensorOverrun, ChkShape, Fetch, QuietFault, TensorOps, TensorPairOps
  <2> QED
    BY <2>1, <2>2
<1>2. Unreported(insn.opcode) /\ Plain(insn.opcode)
  BY <1>1 DEF Unreported, Plain, MakeOps, UnwrapOps, TensorOps, TensorPairOps, TensorUnaryOps,
              AxionOps, FrameOps, JumpOps, BranchOps
<1>3. CASE \/ MakeOption \/ MakeResult \/ MakeEnum \/ Test \/ Unwrap
           \/ MakeTensor \/ ChkShape
  <2>1. \E v, tag, f : ProduceWith(v, tag, f)
    BY <1>3 DEF MakeOption, MakeResult, MakeEnum, Test, Unwrap, MakeTensor, ChkShape, Produce
  <2> QED
    BY <1>1, <1>2, <2>1, UnreportedEnds
<1>4. CASE \/ MakeEnumFault \/ ReaderTypeFault \/ ReaderDecodeFault
           \/ TensorTypeFault \/ TensorDecodeFault \/ TensorShapeFault
  <2>1. \E code \in TrapCode, seg \in SegmentKind : QuietFault(code, seg)
    BY <1>4 DEF MakeEnumFault, ReaderTypeFault, ReaderDecodeFault, TensorTypeFault,
                TensorDecodeFault, TensorShapeFault, TrapCode, SegmentKind
  <2> QED
    BY <1>1, <1>2, <2>1, UnreportedEnds
<1> QED
  BY <1>0, <1>3, <1>4 DEF Values, TensorStep

LEMMA AxionEnds ==
  ASSUME TypeOK, TypeOK', Axion
  PROVE  Ends
<1> USE DEF Fetch
<1>1. Fetched /\ Plain(insn.opcode)
  BY DEF Axion, AxionDeny, AxRead, AxSet, AxVerify, WeightsLoad, Plain, JumpOps, BranchOps, AxionOps
<1>2. CASE AxionDeny
  <2>1. "SecurityFault" \in TrapCode /\ "SecurityFault" # NoTrap
    BY DEF TrapCode, NoTrap
  <2>2. Audit(Ran(NoWrite, "SecurityFault")) = "deny"
    BY <1>2, <2>1, AuditCases DEF AxionDeny
  <2> QED
    BY <1>1, <1>2, <2>1, <2>2, LoggedFaultEnds DEF AxionDeny
<1>3. ASSUME AxRead \/ AxVerify \/ WeightsLoad
      PROVE  Ends
  <2>1. ~axion_denied \/ insn.opcode \notin AxionOps
    BY <1>3 DEF AxRead, AxVerify, WeightsLoad, AxionOps
  <2>2. ASSUME NEW w
        PROVE  Tells(Ran(w, NoTrap))
    BY <1>3, AuditCases, LogTells DEF AxRead, AxVerify, WeightsLoad, AxionOps
  <2>3. \E v, tag, f : ProduceWith(v, tag, f)
    BY <1>3 DEF AxRead, AxVerify, WeightsLoad, Produce
  <2> QED
    BY <1>1, <2>1, <2>2, <2>3, ProduceEnds
<1>4. CASE AxSet
  <2>1. Tells(Ran(NoWrite, NoTrap))
    BY <1>4, AuditCases, LogTells DEF AxSet, AxionOps
  <2> QED
    BY <1>1, <1>4, <2>1, AdvanceEnds DEF AxSet
<1> QED
  BY <1>2, <1>3, <1>4 DEF Axion

LEMMA MemoryEnds ==
  ASSUME TypeOK, TypeOK', Memory
  PROVE  Ends
<1> USE DEF Fetch
<1>1. CASE PushBeyondMemory
  BY <1>1 DEF PushBeyondMemory, Lost, Ends, Fetched
<1> SUFFICES ASSUME ~PushBeyondMemory
             PROVE  Ends
  BY <1>1
<1>2. /\ Fetched /\ insn.opcode \in {"Load", "Store", "Push", "Pop"} \cup FrameOps
      /\ Plain(insn.opcode) /\ insn.opcode \notin AxionOps
  BY DEF Memory, Load, LoadOutside, Store, StoreOutside, Push, PushFull, Pop, PopEmpty, StackAlloc,
         StackAllocFault, StackFree, StackFreeFault, HeapAlloc, HeapAllocFault, HeapFree,
         HeapFreeFault, FrameOps, Plain, JumpOps, BranchOps, AxionOps
<1>3. /\ {"BoundsFault", "StackFault", "DecodeFault"} \subseteq TrapCode
      /\ \A code \in TrapCode : code # NoTrap
  BY DEF TrapCode, NoTrap
<1>4. CASE Load
  <2>1. \A w : Tells(Ran(w, NoTrap))
    BY <1>4, AuditCases DEF Load, Tells
  <2> QED
    BY <1>2, <1>4, <2>1, ProduceEnds DEF Load, Produce
<1>5. CASE Store
  <2>1. Tells(Ran(NoWrite, NoTrap))
    BY <1>5, AuditCases, LogTells DEF Store
  <2> QED
    BY <1>2, <1>5, <2>1, AdvanceEnds DEF Store
<1>6. CASE Push \/ Pop
  <2>1. Tells(Ran(NoWrite, NoTrap))
    BY <1>6, AuditCases DEF Push, Pop, Tells
  <2>2. Complete(NoWrite) /\ pc' = pc + 1 /\ call_stack' = call_stack
        /\ (UNCHANGED regs \/ insn.opcode \in UnannotatedOps)
    BY <1>6 DEF Push, Pop, UnannotatedOps
  <2> QED
    BY <1>2, <2>1, <2>2, AdvanceEnds
<1>7. CASE StackAlloc \/ HeapAlloc
  <2>1. ASSUME NEW w
        PROVE  Tells(Ran(w, NoTrap))
    BY <1>7, AuditCases, LogTells DEF StackAlloc, HeapAlloc
  <2>2. \E v, tag, f : ProduceWith(v, tag, f)
    BY <1>7 DEF StackAlloc, HeapAlloc
  <2> QED
    BY <1>2, <2>1, <2>2, ProduceEnds
<1>8. CASE StackFree \/ HeapFree
  <2>1. Tells(Ran(NoWrite, NoTrap))
    BY <1>8, AuditCases, LogTells DEF StackFree, HeapFree
  <2>2. Complete(NoWrite) /\ pc' = pc + 1 /\ call_stack' = call_stack /\ UNCHANGED regs
    BY <1>8 DEF StackFree, HeapFree
  <2> QED
    BY <1>2, <2>1, <2>2, AdvanceEnds
<1>9. ASSUME NEW code \in TrapCode, NEW seg, BoundsFault(code, seg),
             insn.opcode \in {"StackAlloc", "HeapAlloc"} => insn.b > 0,
             insn.opcode \notin {"StackFree", "HeapFree"}
      PROVE  Ends
  <2>1. Audit(Ran(NoWrite, code)) = "bounds"
    BY <1>2, <1>3, <1>9, AuditCases DEF FrameOps
  <2> QED
    BY <1>2, <1>9, <2>1, LoggedFaultEnds DEF BoundsFault
<1>10. ASSUME NEW code \in TrapCode, NEW seg, QuietFault(code, seg),
             insn.opcode \in {"StackFree", "HeapFree"}
                \/ (insn.opcode \in {"StackAlloc", "HeapAlloc"} /\ insn.b <= 0)
      PROVE  Ends
  <2>1. insn.b \in Int
    BY <1>2, InsnType DEF TypeOK, Int64
  <2>2. Audit(Ran(NoWrite, code)) = "silent"
    BY <1>3, <1>10, <2>1, AuditCases
  <2> QED
    BY <1>2, <1>10, <2>2, QuietFaultEnds
<1>11. CASE LoadOutside \/ StoreOutside \/ PushFull \/ PopEmpty
  BY <1>3, <1>9, <1>11 DEF LoadOutside, StoreOutside, PushFull, PopEmpty
<1>12. CASE StackFreeFault \/ HeapFreeFault
  BY <1>3, <1>10, <1>12 DEF StackFreeFault, HeapFreeFault
<1>13. CASE StackAllocFault \/ HeapAllocFault
  BY <1>3, <1>9, <1>10, <1>13 DEF StackAllocFault, HeapAllocFault
<1> QED
  BY <1>4, <1>5, <1>6, <1>7, <1>8, <1>11, <1>12, <1>13 DEF Memory

LEMMA PrologueEnds ==
  ASSUME TypeOK, TypeOK', Prologue
  PROVE  Ends \/ \E code \in TrapCode : Rejects(code)
<1>1. CASE PreloadTrap
  <2>1. preload_trap \in TrapCode
    BY <1>1 DEF PreloadTrap, TypeOK, TraceOK
  <2>2. Rejects(preload_trap)
    BY <1>1 DEF PreloadTrap, PrologueTrap, trap, Rejects, Payload, Names
  <2> QED
    BY <2>1, <2>2
<1>2. CASE FallOff
  <2>1. ~(pc < Len(program.insns))
    BY <1>2 DEF FallOff, TypeOK, ControlOK, Program
  <2>2. Rejects("DecodeFault")
    BY <1>2, <2>1 DEF FallOff, PrologueTrap, trap, Rejects, Payload, Names
  <2> QED
    BY <2>2 DEF TrapCode
<1>3. CASE UnknownOpcode
  <2>1. Fetched /\ insn.opcode \notin AxionOps /\ "DecodeFault" \in TrapCode
    BY <1>3 DEF UnknownOpcode, IllegalOpcode, AxionOps, TrapCode
  <2>2. Unreported(insn.opcode)
    BY <1>3 DEF UnknownOpcode, IllegalOpcode, AxionOps, Unreported, FrameOps
  <2>3. Audit(Ran(NoWrite, "DecodeFault")) = "silent"
    BY <1>3, <2>2, UnreportedTells DEF UnknownOpcode, QuietFault
  <2> QED
    BY <1>3, <2>1, <2>3, QuietFaultEnds DEF UnknownOpcode
<1>4. CASE UndefinedRead
  BY <1>4 DEF UndefinedRead, Lost, Ends, Fetched
<1> QED
  BY <1>1, <1>2, <1>3, <1>4 DEF Prologue

\* Every step is lost, faults, completes, or is rejected by the prologue, and
\* its trace entry, its audit event and its effect on control, registers and
\* observers go together.
LEMMA StepEnds ==
  ASSUME TypeOK, TypeOK', step
  PROVE  Ends \/ \E code \in TrapCode : Rejects(code)
BY FlowEnds, ScalarEnds, MemoryEnds, ValuesEnds, AxionEnds, PrologueEnds DEF step

-----------------------------------------------------------------------------
(* How the trace grows.                                                    *)

\* The new entry is the last one; the others stay where they are.
LEMMA TraceGrows ==
  ASSUME TypeOK, TypeOK', NEW e, trace' = Append(trace, e)
  PROVE  /\ Len(trace) \in Nat /\ DOMAIN trace = 1 .. Len(trace)
         /\ Len(trace') = Len(trace) + 1 /\ DOMAIN trace' = 1 .. (Len(trace) + 1)
         /\ trace'[Len(trace) + 1] = e /\ e \in TraceEntry
         /\ \A k \in 1 .. Len(trace) : trace'[k] = trace[k]
         /\ trace' # <<>>
<1>1. trace \in Seq(TraceEntry) /\ trace' \in Seq(TraceEntry)
  BY DEF TypeOK, TraceOK
<1>2. Len(trace') = Len(trace) + 1 /\ trace'[Len(trace) + 1] = e
  BY <1>1
<1>3. Len(trace) + 1 \in DOMAIN trace'
  BY <1>1, <1>2
<1>4. e \in TraceEntry
  BY <1>1, <1>2, <1>3
<1> QED
  BY <1>1, <1>2, <1>4

\* The validator's verdict is armed until the first entry.
PreloadArmed ==
  preload_trap = IF trace = <<>> THEN validate_program(program.insns) ELSE NoTrap

\* What the host does between steps leaves the trace, the program and what the
\* trace is read with alone.
HostActs == /\ set_register \/ seed_tensor \/ UNCHANGED vars
            /\ UNCHANGED <<program, policy, pc, halted, call_stack, trace, axion_log, last_trap_payload,
                           steps, gc_cycles, preload_trap, undefined>>

LEMMA NextCases ==
  ASSUME TypeOK, TypeOK', [Next]_vars
  PROVE  \/ Lost
         \/ \E code \in TrapCode : Faults(code)
         \/ \E w \in WriteRecord : Completes(w)
         \/ \E code \in TrapCode : Rejects(code)
         \/ load_program
         \/ HostActs
<1>1. CASE step
  BY <1>1, StepEnds DEF Ends
<1>2. CASE set_register \/ seed_tensor \/ UNCHANGED vars
  BY <1>2 DEF set_register, set_register_to, seed_tensor, HostActs, vars
<1> QED
  BY <1>1, <1>2 DEF Next

\* load_program's verdict is reported by the first step and by no other: what
\* is armed is the verdict as long as the trace is empty, and nothing after.
THEOREM PreloadAlwaysArmed == Spec => []PreloadArmed
<1>1. Init => PreloadArmed
  BY DEF Init, Loaded, PreloadArmed
<1>2. TypeOK /\ TypeOK' /\ PreloadArmed /\ [Next]_vars => PreloadArmed'
  <2> SUFFICES ASSUME TypeOK, TypeOK', PreloadArmed, [Next]_vars
               PROVE  PreloadArmed'
    OBVIOUS
  <2>1. CASE Lost \/ HostActs
    BY <2>1 DEF Lost, HostActs, PreloadArmed
  <2>2. ASSUME NEW e, trace' = Append(trace, e), preload_trap' = NoTrap
        PROVE  PreloadArmed'
    BY <2>2, TraceGrows DEF PreloadArmed
  <2>3. CASE load_program
    BY <2>3 DEF load_program, PreloadArmed
  <2> QED
    BY <2>1, <2>2, <2>3, NextCases DEF Faults, Completes, Handled, Rejects
<1> QED
  BY <1>1, <1>2, TypeCorrect, PTL DEF Spec

\* An entry of a handler is one of an executed instruction; one of the prologue is not.
LEMMA ExecutedGrows ==
  ASSUME TypeOK, TypeOK', PreloadArmed
  PROVE  /\ \A w, code : Handled(w, code) => Executed' = Executed \cup {Len(trace) + 1}
         /\ \A code : Rejects(code) => Executed' = Executed
<1>1. ASSUME NEW e, trace' = Append(trace, e), program' = program, e.pc = pc
      PROVE  Executed' = Executed \cup
               (IF pc < Len(program.insns) /\ (Len(trace) + 1 = 1 => Accepted)
                THEN {Len(trace) + 1} ELSE {})
  <2>1. /\ Len(trace) \in Nat /\ DOMAIN trace = 1 .. Len(trace)
        /\ DOMAIN trace' = 1 .. (Len(trace) + 1) /\ trace'[Len(trace) + 1] = e
        /\ \A k \in 1 .. Len(trace) : trace'[k] = trace[k]
    BY <1>1, TraceGrows
  <2> QED
    BY <1>1, <2>1 DEF Executed, Accepted
<1>2. Len(trace) \in Nat /\ (Len(trace) + 1 = 1 <=> trace = <<>>)
  BY DEF TypeOK, TraceOK
<1>3. ASSUME NEW w, NEW code, Handled(w, code)
      PROVE  Executed' = Executed \cup {Len(trace) + 1}
  <2>1. pc < Len(program.insns) /\ (trace = <<>> => Accepted)
    BY <1>3 DEF Handled, Fetched, PreloadArmed, Accepted
  <2> QED
    BY <1>1, <1>2, <1>3, <2>1 DEF Handled, Ran, Entry
<1>4. ASSUME NEW code, Rejects(code)
      PROVE  Executed' = Executed
  <2>1. ~(pc < Len(program.insns) /\ (trace = <<>> => Accepted))
    <3>1. CASE preload_trap # NoTrap
      BY <3>1 DEF PreloadArmed, Accepted
    <3>2. CASE preload_trap = NoTrap
      BY <1>4, <3>2 DEF Rejects, TypeOK, ControlOK, Program
    <3> QED
      BY <3>1, <3>2
  <2>2. PICK op : trace' = Append(trace, Entry(pc, op, current_write, code)) /\ program' = program
    BY <1>4 DEF Rejects
  <2> QED
    BY <1>1, <1>2, <2>1, <2>2 DEF Entry
<1> QED
  BY <1>3, <1>4

-----------------------------------------------------------------------------
(* Policy and GC.                                                          *)

\* The policy in force is the one the loaded program carries.
PolicyBound == policy = program.tier

\* In every run of every program, an instruction the Axion guard protects is
\* denied when and only when the policy the program carries is of tier 0: no
\* order of steps, host writes and reloads gets one past the guard, and nothing
\* else denies one.
THEOREM PolicyAlwaysDecides == Spec => []PolicyDecides
<1>1. Init => PolicyBound /\ PolicyDecides
  BY DEF Init, Loaded, PolicyBound, PolicyDecides, Executed
<1>2. TypeOK /\ TypeOK' /\ PreloadArmed /\ PolicyBound /\ PolicyDecides /\ [Next]_vars
        => PolicyBound' /\ PolicyDecides'
  <2> SUFFICES ASSUME TypeOK, TypeOK', PreloadArmed, PolicyBound, PolicyDecides, [Next]_vars
               PROVE  PolicyBound' /\ PolicyDecides'
    OBVIOUS
  <2>1. CASE Lost \/ HostActs
    BY <2>1 DEF Lost, HostActs, PolicyBound, PolicyDecides, Executed, Accepted
  <2>2. CASE load_program
    BY <2>2 DEF load_program, parse_policy, PolicyBound, PolicyDecides, Executed
  <2>3. ASSUME NEW code, Rejects(code)
        PROVE  PolicyBound' /\ PolicyDecides'
    <3>1. Executed' = Executed /\ \A k \in Executed : trace'[k] = trace[k]
      BY <2>3, ExecutedGrows, TraceGrows DEF Rejects, Executed
    <3> QED
      BY <2>3, <3>1 DEF Rejects, PolicyBound, PolicyDecides
  <2>4. ASSUME NEW w, NEW code, Handled(w, code)
        PROVE  PolicyBound' /\ PolicyDecides'
    <3>1. Executed' = Executed \cup {Len(trace) + 1} /\ UNCHANGED <<program, policy>>
      BY <2>4, ExecutedGrows DEF Handled
    <3>2. /\ trace'[Len(trace) + 1] = Ran(w, code)
          /\ \A k \in Executed : trace'[k] = trace[k]
      BY <2>4, TraceGrows DEF Handled, Executed
    <3>3. Ran(w, code).opcode = insn.opcode /\ Ran(w, code).trap = code
      BY DEF Ran, Entry
    <3>4. insn.opcode \in AxionOps => (code = "SecurityFault") = (program.tier = 0)
      BY <2>4 DEF Handled, axion_denied, PolicyBound
    <3> QED
      BY <3>1, <3>2, <3>3, <3>4 DEF PolicyBound, PolicyDecides
  <2> QED
    BY <2>1, <2>2, <2>3, <2>4, NextCases DEF Faults, Completes
<1> QED
  BY <1>1, <1>2, TypeCorrect, PreloadAlwaysArmed, PTL DEF Spec

\* The step counter counts the executed instructions of the trace, and the GC
\* ticks are the whole intervals it has gone through.
StepsCount == steps = Cardinality(Executed) /\ gc_cycles = steps \div GcInterval

\* The tick of CountStep keeps the quotient.
LEMMA TickDivides ==
  ASSUME NEW s \in Nat, NEW g \in Nat \ {0}
  PROVE  (s + 1) \div g = IF (s + 1) % g = 0 THEN (s \div g) + 1 ELSE s \div g
OBVIOUS

LEMMA ExecutedFinite ==
  ASSUME TypeOK
  PROVE  IsFiniteSet(Executed) /\ Len(trace) + 1 \notin Executed
<1>1. Len(trace) \in Nat /\ DOMAIN trace = 1 .. Len(trace)
  BY DEF TypeOK, TraceOK
<1>2. Executed \subseteq 1 .. Len(trace)
  BY <1>1 DEF Executed
<1>3. IsFiniteSet(1 .. Len(trace))
  BY <1>1, FS_Interval
<1>4. IsFiniteSet(Executed)
  BY <1>2, <1>3, FS_Subset
<1> QED
  BY <1>1, <1>2, <1>4

LEMMA StepsCounted ==
  ASSUME TypeOK, TypeOK', PreloadArmed, StepsCount, [Next]_vars
  PROVE  StepsCount'
<1>1. ASSUME Executed' = Executed, UNCHANGED <<steps, gc_cycles>>
      PROVE  StepsCount'
  BY <1>1 DEF StepsCount
<1>2. CASE Lost \/ HostActs
  BY <1>1, <1>2 DEF Lost, HostActs, Executed, Accepted
<1>3. CASE load_program
  <2>1. Executed' = {} /\ steps' = 0 /\ gc_cycles' = 0
    BY <1>3 DEF load_program, ClearedSteps, Executed
  <2>2. Cardinality({}) = 0 /\ 0 \div GcInterval = 0
    BY FS_EmptySet, IsaAssumption
  <2> QED
    BY <2>1, <2>2 DEF StepsCount
<1>4. ASSUME NEW code, Rejects(code)
      PROVE  StepsCount'
  BY <1>1, <1>4, ExecutedGrows DEF Rejects
<1>5. ASSUME NEW w, NEW code, Handled(w, code)
      PROVE  StepsCount'
  <2>1. Executed' = Executed \cup {Len(trace) + 1}
    BY <1>5, ExecutedGrows
  <2>2. Cardinality(Executed') = Cardinality(Executed) + 1
    BY <2>1, ExecutedFinite, FS_AddElement
  <2>3. steps \in Nat /\ GcInterval \in Nat \ {0}
    BY IsaAssumption DEF TypeOK, TraceOK
  <2>4. steps' = steps + 1
        /\ gc_cycles' = IF (steps + 1) % GcInterval = 0 THEN gc_cycles + 1 ELSE gc_cycles
    BY <1>5 DEF Handled, CountStep
  <2>5. steps' = Cardinality(Executed')
    BY <2>2, <2>4 DEF StepsCount
  <2>6. gc_cycles' = (steps + 1) \div GcInterval
    BY <2>3, <2>4, TickDivides DEF StepsCount
  <2> QED
    BY <2>4, <2>5, <2>6 DEF StepsCount
<1> QED
  BY <1>2, <1>3, <1>4, <1>5, NextCases DEF Faults, Completes

\* The GC tick counter is a function of the trace: the executed instructions,
\* whatever they were and however they ended, divided by the interval.  A trap
\* of the prologue never moves it and a reload always resets it.
THEOREM GcAlwaysFollows == Spec => []GcFollowsTrace
<1>1. Init => StepsCount
  <2>1. Init => Executed = {} /\ steps = 0 /\ gc_cycles = 0
    BY DEF Init, Loaded, Executed
  <2>2. Cardinality({}) = 0 /\ 0 \div GcInterval = 0
    BY FS_EmptySet, IsaAssumption
  <2> QED
    BY <2>1, <2>2 DEF StepsCount
<1>2. TypeOK /\ TypeOK' /\ PreloadArmed /\ StepsCount /\ [Next]_vars => StepsCount'
  BY StepsCounted
<1>3. StepsCount => GcFollowsTrace
  BY DEF StepsCount, GcFollowsTrace
<1> QED
  BY <1>1, <1>2, <1>3, TypeCorrect, PreloadAlwaysArmed, PTL DEF Spec

-----------------------------------------------------------------------------
(* The audit log.                                                          *)

LEMMA ReportsFinite ==
  ASSUME TypeOK
  PROVE  /\ Len(trace) \in Nat /\ Reported \subseteq 1 .. Len(trace) /\ IsFiniteSet(Reported)
         /\ Cardinality(Reported) \in Nat
         /\ \A k \in Reported : ReportsUpTo(k) \in 1 .. Cardinality(Reported)
<1>1. Len(trace) \in Nat /\ DOMAIN trace = 1 .. Len(trace)
  BY DEF TypeOK, TraceOK
<1>2. Reported \subseteq Executed /\ Reported \subseteq 1 .. Len(trace)
  BY <1>1 DEF Reported, Executed
<1>3. IsFiniteSet(Reported)
  BY <1>2, ExecutedFinite, FS_Subset
<1>4. Cardinality(Reported) \in Nat
  BY <1>3, FS_CardinalityType
<1>5. ASSUME NEW k \in Reported
      PROVE  ReportsUpTo(k) \in 1 .. Cardinality(Reported)
  <2> DEFINE upTo == {j \in Reported : j <= k}
  <2>1. upTo \subseteq Reported /\ k \in upTo
    BY <1>1, <1>2
  <2>2. IsFiniteSet(upTo) /\ Cardinality(upTo) <= Cardinality(Reported)
    BY <1>3, <2>1, FS_Subset
  <2>3. Cardinality(upTo) \in Nat /\ Cardinality(upTo) # 0
    BY <2>1, <2>2, FS_CardinalityType, FS_EmptySet
  <2> QED
    BY <1>4, <2>2, <2>3 DEF ReportsUpTo
<1> QED
  BY <1>1, <1>2, <1>3, <1>4, <1>5

\* An entry leaves the audit of the others as it is.
LEMMA AuditStays ==
  ASSUME TypeOK, TypeOK', NEW e, trace' = Append(trace, e), program' = program
  PROVE  \A k \in 1 .. Len(trace) : Audit(trace[k])' = Audit(trace[k]) /\ trace'[k] = trace[k]
<1>1. \A k \in 1 .. Len(trace) : trace'[k] = trace[k]
  BY TraceGrows
<1> QED
  BY <1>1 DEF Audit

\* An executed instruction that is not to be reported leaves the log alone.
LEMMA SilentLogged ==
  ASSUME TypeOK, TypeOK', NEW e, trace' = Append(trace, e), program' = program,
         Reported' = Reported, UNCHANGED <<axion_log, undefined>>, LogFollowsTrace
  PROVE  LogFollowsTrace'
<1>1. \A k \in Reported : k \in 1 .. Len(trace)
  BY ReportsFinite
<1>2. \A k \in Reported : Audit(trace[k])' = Audit(trace[k]) /\ trace'[k] = trace[k]
  BY <1>1, AuditStays
<1>3. \A k \in Reported : ReportsUpTo(k)' = ReportsUpTo(k)
  BY DEF ReportsUpTo
<1> QED
  BY <1>2, <1>3 DEF LogFollowsTrace

\* An executed instruction that is to be reported is the log's new last event.
LEMMA EventLogged ==
  ASSUME TypeOK, TypeOK', NEW e, trace' = Append(trace, e), program' = program,
         Audit(e) # "silent", Tells(e),
         Reported' = Reported \cup {Len(trace) + 1}, undefined' = undefined, LogFollowsTrace
  PROVE  LogFollowsTrace'
<1> SUFFICES ASSUME undefined = "none"
             PROVE  LogFollowsTrace'
  BY DEF LogFollowsTrace
<1>0. PICK n : n = Len(trace) + 1
  OBVIOUS
<1>1. /\ Len(trace) \in Nat /\ Reported \subseteq 1 .. Len(trace) /\ IsFiniteSet(Reported)
      /\ Cardinality(Reported) \in Nat
      /\ \A k \in Reported : ReportsUpTo(k) \in 1 .. Cardinality(Reported)
  BY ReportsFinite
<1>2. Cardinality(Reported') = Cardinality(Reported) + 1
  <2>1. n \notin Reported /\ Reported' = Reported \cup {n}
    BY <1>0, <1>1
  <2> QED
    BY <1>1, <2>1, FS_AddElement
<1>3. \A k \in Reported : ReportsUpTo(k)' = ReportsUpTo(k)
  <2>1. \A k \in Reported : {j \in Reported' : j <= k} = {j \in Reported : j <= k}
    BY <1>1
  <2> QED
    BY <2>1 DEF ReportsUpTo
<1>4. ReportsUpTo(n)' = Cardinality(Reported) + 1
  <2>0. \A j \in Reported' : j <= n
    BY <1>0, <1>1
  <2>1. {j \in Reported' : j <= n} = Reported'
    BY <2>0
  <2> QED
    BY <1>2, <2>1 DEF ReportsUpTo
<1>5. PICK seg \in SegmentKind :
        axion_log' = Append(axion_log, [opcode |-> e.opcode, event |-> Audit(e), segment |-> seg])
  BY DEF Tells
<1>6. /\ Len(axion_log) = Cardinality(Reported)
      /\ \A k \in Reported : /\ axion_log[ReportsUpTo(k)].opcode = trace[k].opcode
                              /\ axion_log[ReportsUpTo(k)].event = Audit(trace[k])
  BY DEF LogFollowsTrace
<1>7. /\ Len(axion_log') = Cardinality(Reported')
      /\ axion_log'[Cardinality(Reported) + 1].opcode = e.opcode
      /\ axion_log'[Cardinality(Reported) + 1].event = Audit(e)
      /\ \A m \in 1 .. Cardinality(Reported) : axion_log'[m] = axion_log[m]
  <2> DEFINE said == [opcode |-> e.opcode, event |-> Audit(e), segment |-> seg]
  <2>1. axion_log \in Seq(AxionEvent) /\ axion_log' = Append(axion_log, said)
    BY <1>5 DEF TypeOK, LogOK
  <2>2. said.opcode = e.opcode /\ said.event = Audit(e)
    OBVIOUS
  <2> HIDE DEF said
  <2> QED
    BY <1>1, <1>2, <1>6, <2>1, <2>2
<1>8. \A k \in Reported : /\ axion_log'[ReportsUpTo(k)'].opcode = trace'[k].opcode
                          /\ axion_log'[ReportsUpTo(k)'].event = Audit(trace[k])'
  BY <1>1, <1>3, <1>6, <1>7, AuditStays
<1>9. trace'[n] = e /\ Audit(trace[n])' = Audit(e)
  BY <1>0, TraceGrows DEF Audit
<1>10. \A k \in Reported' : /\ axion_log'[ReportsUpTo(k)'].opcode = trace'[k].opcode
                            /\ axion_log'[ReportsUpTo(k)'].event = Audit(trace[k])'
  BY <1>0, <1>4, <1>7, <1>8, <1>9
<1> QED
  BY <1>7, <1>10 DEF LogFollowsTrace

\* The entry of a handler is to be reported as its opcode and outcome say.
LEMMA ReportedGrows ==
  ASSUME TypeOK, TypeOK', PreloadArmed, NEW w, NEW code, Handled(w, code)
  PROVE  Reported' = Reported \cup (IF Audit(Ran(w, code)) = "silent" THEN {} ELSE {Len(trace) + 1})
<1>0. PICK n : n = Len(trace) + 1
  OBVIOUS
<1>1. Executed' = Executed \cup {n} /\ Executed \subseteq 1 .. Len(trace)
  BY <1>0, ExecutedGrows DEF Executed, TypeOK, TraceOK
<1>2. \A k \in Executed : Audit(trace[k])' = Audit(trace[k])
  BY <1>1, AuditStays DEF Handled
<1>3. Audit(trace[n])' = Audit(Ran(w, code))
  <2>1. trace'[n] = Ran(w, code) /\ program' = program
    BY <1>0, TraceGrows DEF Handled
  <2> QED
    BY <2>1 DEF Audit
<1>4. n \notin Executed
  BY <1>0, ExecutedFinite
<1> QED
  BY <1>0, <1>1, <1>2, <1>3, <1>4 DEF Reported

\* An auditor who holds the trace can check the log against it: no executed
\* instruction that should be reported is missing, none is reported twice or out
\* of order, and nothing else is in the log, whatever traps and however the host
\* goes on after them.
THEOREM LogAlwaysFollows == Spec => []LogFollowsTrace
<1>1. Init => LogFollowsTrace
  <2>1. Init => Reported = {} /\ Len(axion_log) = 0
    BY DEF Init, Loaded, Reported, Executed
  <2>2. Cardinality({}) = 0
    BY FS_EmptySet
  <2> QED
    BY <2>1, <2>2 DEF LogFollowsTrace
<1>2. TypeOK /\ TypeOK' /\ PreloadArmed /\ LogFollowsTrace /\ [Next]_vars => LogFollowsTrace'
  <2> SUFFICES ASSUME TypeOK, TypeOK', PreloadArmed, LogFollowsTrace, [Next]_vars
               PROVE  LogFollowsTrace'
    OBVIOUS
  <2>1. CASE Lost
    BY <2>1 DEF Lost, LogFollowsTrace
  <2>2. CASE HostActs
    <3>1. UNCHANGED <<trace, program, axion_log, undefined>>
      BY <2>2 DEF HostActs
    <3>2. Reported' = Reported /\ \A k : Audit(trace[k])' = Audit(trace[k])
      BY <3>1 DEF Reported, Executed, Accepted, Audit
    <3>3. \A k : ReportsUpTo(k)' = ReportsUpTo(k)
      BY <3>2 DEF ReportsUpTo
    <3> QED
      BY <3>1, <3>2, <3>3 DEF LogFollowsTrace
  <2>3. CASE load_program
    <3>1. Reported' = {} /\ Len(axion_log') = 0
      BY <2>3 DEF load_program, Reported, Executed
    <3>2. Cardinality({}) = 0
      BY FS_EmptySet
    <3> QED
      BY <3>1, <3>2 DEF LogFollowsTrace
  <2>4. ASSUME NEW code, Rejects(code)
        PROVE  LogFollowsTrace'
    <3>1. PICK e : trace' = Append(trace, e) /\ program' = program
                   /\ UNCHANGED <<axion_log, undefined>>
      BY <2>4 DEF Rejects
    <3>2. Executed' = Executed /\ Executed \subseteq 1 .. Len(trace)
      BY <2>4, ExecutedGrows DEF Executed, TypeOK, TraceOK
    <3>3. Reported' = Reported
      BY <3>1, <3>2, AuditStays DEF Reported
    <3> QED
      BY <3>1, <3>3, SilentLogged
  <2>5. ASSUME NEW w, NEW code, Handled(w, code)
        PROVE  LogFollowsTrace'
    <3> DEFINE e == Ran(w, code)
    <3>1. trace' = Append(trace, e) /\ program' = program /\ undefined' = undefined /\ Tells(e)
      BY <2>5 DEF Handled
    <3>2. Reported' = Reported \cup (IF Audit(e) = "silent" THEN {} ELSE {Len(trace) + 1})
      BY <2>5, ReportedGrows
    <3>3. CASE Audit(e) = "silent"
      <4>1. Reported' = Reported /\ UNCHANGED <<axion_log, undefined>>
        BY <3>1, <3>2, <3>3 DEF Tells
      <4> QED
        BY <3>1, <4>1, SilentLogged
    <3>4. CASE Audit(e) # "silent"
      BY <3>1, <3>2, <3>4, EventLogged
    <3> QED
      BY <3>3, <3>4
  <2> QED
    BY <2>1, <2>2, <2>3, <2>4, <2>5, NextCases DEF Faults, Completes
<1> QED
  BY <1>1, <1>2, TypeCorrect, PreloadAlwaysArmed, PTL DEF Spec

-----------------------------------------------------------------------------
(* The trace is a path of the program.                                     *)

\* Return addresses are those of calls in the trace, and an empty trace is
\* that of a machine at the start.
StackIsReturns ==
  /\ trace = <<>> => pc = 0
  /\ \A n \in DOMAIN call_stack : ReturnSite(call_stack[n], Len(trace))

PathInv == TraceIsAPath /\ StackIsReturns

\* Return sites stay: the entries of a trace are never rewritten.
LEMMA ReturnSitesStay ==
  ASSUME TypeOK, TypeOK', NEW e, trace' = Append(trace, e)
  PROVE  \A target, k : k \in 1 .. Len(trace) /\ ReturnSite(target, k)
             => ReturnSite(target, k)' /\ ReturnSite(target, Len(trace))'
<1>1. /\ Len(trace) \in Nat /\ Len(trace') = Len(trace) + 1
      /\ \A k \in 1 .. Len(trace) : trace'[k] = trace[k]
  BY TraceGrows
<1> QED
  BY <1>1 DEF ReturnSite, Completed

\* Where the instruction of the new entry e may have led.
LeadsOn(e) ==
  IF ~Completed(e) THEN pc' = pc
  ELSE CASE e.opcode = "Jump"      -> pc' = insn.a
         [] e.opcode \in BranchOps -> pc' \in {insn.a, pc + 1}
         [] e.opcode = "Call"      -> pc' < Len(program.insns)
         [] e.opcode = "Ret"       -> ReturnSite(pc', Len(trace))
         [] OTHER                  -> pc' = pc + 1

\* A new entry at pc that leads to the new pc extends the path.
LEMMA PathGrows ==
  ASSUME TypeOK, TypeOK', PathInv, program' = program, NEW e, trace' = Append(trace, e), e.pc = pc,
         e.opcode = IF pc < Len(program.insns) THEN insn.opcode ELSE "Nop",
         LeadsOn(e)
  PROVE  TraceIsAPath'
<1>0. PICK n : n = Len(trace)
  OBVIOUS
<1>1. /\ n \in Nat /\ DOMAIN trace = 1 .. n /\ DOMAIN trace' = 1 .. (n + 1)
      /\ Len(trace') = n + 1 /\ trace'[n + 1] = e
      /\ \A k \in 1 .. n : trace'[k] = trace[k]
  BY <1>0, TraceGrows
<1>2. trace'[1].pc = 0
  <2>1. CASE trace = <<>>
    BY <1>0, <1>1, <2>1 DEF PathInv, StackIsReturns
  <2>2. CASE trace # <<>>
    <3>1. 1 \in 1 .. n
      BY <1>0, <1>1, <2>2 DEF TypeOK, TraceOK
    <3> QED
      BY <1>1, <2>2, <3>1 DEF PathInv, TraceIsAPath
  <2> QED
    BY <2>1, <2>2
<1>3. ASSUME NEW k \in 1 .. n
      PROVE  PcAfter(k)' = PcAfter(k)
  BY <1>0, <1>1 DEF PcAfter
<1>4. ASSUME NEW k \in 1 .. n, NEW target
      PROVE  ReturnSite(target, k) => ReturnSite(target, k)'
  BY <1>0, ReturnSitesStay
<1>5. ASSUME NEW k \in 1 .. n
      PROVE  /\ trace'[k].opcode = IF trace'[k].pc < Len(program'.insns)
                                  THEN program'.insns[trace'[k].pc + 1].opcode ELSE "Nop"
             /\ Successor(k)'
  <2>1. trace'[k] = trace[k] /\ Successor(k)
        /\ trace[k].opcode = IF trace[k].pc < Len(program.insns)
                             THEN program.insns[trace[k].pc + 1].opcode ELSE "Nop"
    BY <1>1 DEF PathInv, TraceIsAPath
  <2>2. Successor(k)'
    BY <1>3, <1>4, <2>1 DEF Successor, Completed
  <2> QED
    BY <2>1, <2>2
<1>6. /\ trace'[n + 1].opcode = IF trace'[n + 1].pc < Len(program'.insns)
                                THEN program'.insns[trace'[n + 1].pc + 1].opcode ELSE "Nop"
      /\ Successor(n + 1)'
  <2>1. PcAfter(n + 1)' = pc'
    BY <1>1 DEF PcAfter
  <2>2. \A target : ReturnSite(target, n) => ReturnSite(target, n + 1)'
    BY <1>1 DEF ReturnSite, Completed
  <2>3. Successor(n + 1)'
    BY <1>0, <1>1, <2>1, <2>2 DEF Successor, Completed, LeadsOn, insn
  <2> QED
    BY <1>1, <2>3 DEF insn
<1>7. \A k \in 1 .. (n + 1) : k \in 1 .. n \/ k = n + 1
  BY <1>1
<1> QED
  BY <1>1, <1>2, <1>5, <1>6, <1>7 DEF TraceIsAPath

\* An instruction that completes extends the path, and the call stack with a
\* return site at most.
LEMMA CompletesPath ==
  ASSUME TypeOK, TypeOK', PathInv, NEW w, Completes(w)
  PROVE  PathInv'
<1> DEFINE n == Len(trace)
           e == Ran(w, NoTrap)
<1>1. /\ Fetched /\ trace' = Append(trace, e) /\ program' = program /\ Moves
      /\ pc \in Nat /\ pc < Len(program.insns)
  BY DEF Completes, Handled, Fetched, TypeOK, ControlOK, Program
<1>2. e.pc = pc /\ e.opcode = insn.opcode /\ Completed(e)
  BY DEF Ran, Entry, Completed
<1>3. /\ n \in Nat /\ DOMAIN trace' = 1 .. (n + 1) /\ Len(trace') = n + 1
      /\ trace'[n + 1] = e /\ trace' # <<>>
      /\ \A k \in 1 .. n : trace'[k] = trace[k]
  BY <1>1, TraceGrows
<1>4. /\ call_stack \in Seq(1 .. Len(program.insns))
      /\ call_stack' \in Seq(1 .. Len(program.insns))
  BY <1>1 DEF TypeOK, ControlOK
<1>5. \A k \in DOMAIN call_stack : ReturnSite(call_stack[k], n)
  BY DEF PathInv, StackIsReturns
<1>6. \A target : ReturnSite(target, n) => ReturnSite(target, Len(trace))'
  BY <1>3 DEF ReturnSite, Completed
<1>7. LeadsOn(e)
  <2>1. CASE insn.opcode = "Ret"
    <3>1. call_stack # <<>> /\ pc' = Last(call_stack)
      BY <1>1, <2>1 DEF Moves, BranchOps
    <3>2. Len(call_stack) \in DOMAIN call_stack /\ Last(call_stack) = call_stack[Len(call_stack)]
      BY <1>4, <3>1 DEF Last
    <3>3. ReturnSite(pc', n)
      BY <1>5, <3>1, <3>2
    <3> QED
      BY <1>2, <2>1, <3>3 DEF LeadsOn, BranchOps
  <2>2. CASE insn.opcode = "Call"
    BY <1>1, <1>2, <2>2 DEF Moves, LeadsOn, BranchOps, InProgram, TypeOK, ControlOK, Program
  <2>3. CASE insn.opcode \notin {"Ret", "Call"}
    BY <1>1, <1>2, <2>3 DEF Moves, LeadsOn
  <2> QED
    BY <2>1, <2>2, <2>3
<1>8. TraceIsAPath'
  BY <1>1, <1>2, <1>7, PathGrows
<1>9. ASSUME NEW k \in DOMAIN call_stack'
      PROVE  ReturnSite(call_stack[k], Len(trace))'
  <2>1. CASE insn.opcode = "Call"
    <3>1. call_stack' = Append(call_stack, pc + 1)
      BY <1>1, <2>1 DEF Moves
    <3>2. \A target : target = pc + 1 => ReturnSite(target, Len(trace))'
      <4>1. n + 1 \in 1 .. (n + 1)
        BY <1>3
      <4> QED
        BY <1>2, <1>3, <2>1, <4>1 DEF ReturnSite, Completed
    <3>3. \/ k \in DOMAIN call_stack /\ call_stack'[k] = call_stack[k]
          \/ call_stack'[k] = pc + 1
      BY <1>4, <3>1
    <3> QED
      BY <1>5, <1>6, <3>2, <3>3 DEF ReturnSite
  <2>2. CASE insn.opcode = "Ret"
    <3>1. call_stack # <<>> /\ call_stack' = Front(call_stack)
      BY <1>1, <2>2 DEF Moves, BranchOps
    <3>2. k \in DOMAIN call_stack /\ call_stack'[k] = call_stack[k]
      <4>1. /\ Len(call_stack) > 0 /\ Len(call_stack') = Len(call_stack) - 1
            /\ \A j \in 1 .. (Len(call_stack) - 1) : call_stack'[j] = call_stack[j]
        BY <1>4, <3>1, SequenceEnds
      <4>2. DOMAIN call_stack' = 1 .. Len(call_stack') /\ DOMAIN call_stack = 1 .. Len(call_stack)
            /\ Len(call_stack) \in Nat
        BY <1>4
      <4> QED
        BY <1>4, <4>1, <4>2
    <3> QED
      BY <1>5, <1>6, <3>2 DEF ReturnSite
  <2>3. CASE insn.opcode \notin {"Call", "Ret"}
    <3>1. call_stack' = call_stack
      BY <1>1, <2>3 DEF Moves
    <3> QED
      BY <1>5, <1>6, <3>1 DEF ReturnSite
  <2> QED
    BY <2>1, <2>2, <2>3
<1> QED
  BY <1>3, <1>8, <1>9 DEF PathInv, StackIsReturns

\* A trap leads back to its own instruction, and keeps the call stack.
LEMMA TrapPath ==
  ASSUME TypeOK, TypeOK', PathInv, NEW e, trace' = Append(trace, e), ~Completed(e), e.pc = pc,
         e.opcode = IF pc < Len(program.insns) THEN insn.opcode ELSE "Nop",
         UNCHANGED <<program, pc, call_stack>>
  PROVE  PathInv'
<1>1. TraceIsAPath'
  BY PathGrows DEF LeadsOn
<1>2. trace' # <<>> /\ \A target : ReturnSite(target, Len(trace)) => ReturnSite(target, Len(trace))'
  BY TraceGrows DEF ReturnSite, Completed
<1> QED
  BY <1>1, <1>2 DEF PathInv, StackIsReturns, ReturnSite

\* Whatever the program, the host and the resets do, the trace reads as one path
\* through the program's text: it starts at 0, each entry is the instruction at
\* its pc, jumps land on their operand, calls inside the program, returns behind
\* a call that completed earlier in the same trace, and a trapped instruction is
\* retried, never skipped.
THEOREM TraceAlwaysAPath == Spec => []TraceIsAPath
<1>1. Init => PathInv
  BY DEF Init, Loaded, PathInv, TraceIsAPath, StackIsReturns
<1>2. TypeOK /\ TypeOK' /\ PathInv /\ [Next]_vars => PathInv'
  <2> SUFFICES ASSUME TypeOK, TypeOK', PathInv, [Next]_vars
               PROVE  PathInv'
    OBVIOUS
  <2>1. CASE Lost \/ HostActs
    BY <2>1 DEF Lost, HostActs, PathInv, TraceIsAPath, StackIsReturns, Successor, PcAfter,
                ReturnSite, Completed
  <2>2. CASE load_program
    BY <2>2 DEF load_program, PathInv, TraceIsAPath, StackIsReturns
  <2>3. ASSUME NEW code \in TrapCode, Faults(code)
        PROVE  PathInv'
    <3>1. ~Completed(Ran(NoWrite, code)) /\ Ran(NoWrite, code).pc = pc
          /\ Ran(NoWrite, code).opcode = insn.opcode
      BY DEF Ran, Entry, Completed, TrapCode, NoTrap
    <3> QED
      BY <2>3, <3>1, TrapPath DEF Faults, Handled, Fetched
  <2>4. ASSUME NEW code \in TrapCode, Rejects(code)
        PROVE  PathInv'
    <3> DEFINE op == IF pc < Len(program.insns) THEN insn.opcode ELSE "Nop"
               e == Entry(pc, op, current_write, code)
    <3>1. ~Completed(e) /\ e.pc = pc /\ e.opcode = op
      BY DEF Entry, Completed, TrapCode, NoTrap
    <3>2. trace' = Append(trace, e) /\ UNCHANGED <<program, pc, call_stack>>
      BY <2>4 DEF Rejects
    <3> QED
      BY <3>1, <3>2, TrapPath
  <2> QED
    BY <2>1, <2>2, <2>3, <2>4, CompletesPath, NextCases
<1>3. PathInv => TraceIsAPath
  BY DEF PathInv
<1> QED
  BY <1>1, <1>2, <1>3, TypeCorrect, PTL DEF Spec

-----------------------------------------------------------------------------
(* The payload a host inspects.                                            *)

\* The largest element of a set of numbers is its maximum.
LEMMA MaxIs ==
  ASSUME NEW T, T \subseteq Int, NEW k \in T, \A y \in T : k >= y
  PROVE  Max(T) = k
<1>1. \A x \in T : (\A y \in T : x >= y) => x = k
  OBVIOUS
<1> QED
  BY <1>1 DEF Max

\* Entry k is the last trap of the trace.
LastTrap(k) ==
  /\ k \in DOMAIN trace /\ ~Completed(trace[k])
  /\ \A j \in DOMAIN trace : j > k => Completed(trace[j])

\* PayloadMatchesTrace, with the last trap named instead of searched for.
PayloadNamesLastTrap ==
  IF halted \/ \A k \in DOMAIN trace : Completed(trace[k])
  THEN last_trap_payload = NoPayload
  ELSE \E k : /\ LastTrap(k)
              /\ Names(last_trap_payload, trace[k].trap, trace[k].pc, trace[k].opcode)

LEMMA LastTrapFound ==
  ASSUME TypeOK, PayloadNamesLastTrap
  PROVE  PayloadMatchesTrace
<1> DEFINE Traps == {j \in 1 .. Len(trace) : ~Completed(trace[j])}
<1>1. Len(trace) \in Nat /\ DOMAIN trace = 1 .. Len(trace) /\ Traps \subseteq Int
  BY DEF TypeOK, TraceOK
<1>2. SelectLastInSeq(trace, LAMBDA e : ~Completed(e)) = IF Traps # {} THEN Max(Traps) ELSE 0
  BY DEF SelectLastInSeq
<1>3. CASE halted
  BY <1>3 DEF PayloadNamesLastTrap, PayloadMatchesTrace
<1>4. CASE Traps = {}
  <2>1. \A k \in DOMAIN trace : Completed(trace[k])
    BY <1>1, <1>4
  <2> QED
    BY <1>2, <1>4, <2>1 DEF PayloadNamesLastTrap, PayloadMatchesTrace
<1>5. CASE ~halted /\ Traps # {}
  <2>1. PICK k : /\ LastTrap(k)
                 /\ Names(last_trap_payload, trace[k].trap, trace[k].pc, trace[k].opcode)
    BY <1>1, <1>5 DEF PayloadNamesLastTrap
  <2>2. k \in Traps /\ \A y \in Traps : k >= y
    BY <1>1, <2>1 DEF LastTrap
  <2>3. Max(Traps) = k
    BY <1>1, <2>2, MaxIs
  <2>4. SelectLastInSeq(trace, LAMBDA e : ~Completed(e)) = k /\ k # 0
    BY <1>1, <1>2, <2>2, <2>3
  <2> QED
    BY <1>5, <2>1, <2>4 DEF PayloadMatchesTrace, Names
<1> QED
  BY <1>3, <1>4, <1>5

\* A trap becomes the last one.
LEMMA TrapIsLast ==
  ASSUME TypeOK, TypeOK', NEW e, trace' = Append(trace, e), ~Completed(e), ~halted',
         Names(last_trap_payload', e.trap, e.pc, e.opcode)
  PROVE  PayloadNamesLastTrap'
<1>1. /\ Len(trace) \in Nat /\ DOMAIN trace' = 1 .. (Len(trace) + 1)
      /\ trace'[Len(trace) + 1] = e
  BY TraceGrows
<1>2. PICK k : k = Len(trace) + 1
  OBVIOUS
<1>3. LastTrap(k)' /\ trace'[k] = e
  BY <1>1, <1>2 DEF LastTrap, Completed
<1> QED
  BY <1>1, <1>3 DEF PayloadNamesLastTrap, LastTrap, Names

\* A completed instruction leaves the last trap where it was.
LEMMA LastTrapStays ==
  ASSUME TypeOK, TypeOK', PayloadNamesLastTrap, NEW e, trace' = Append(trace, e), Completed(e),
         UNCHANGED <<halted, last_trap_payload>>
  PROVE  PayloadNamesLastTrap'
<1>1. /\ Len(trace) \in Nat /\ DOMAIN trace = 1 .. Len(trace)
      /\ DOMAIN trace' = 1 .. (Len(trace) + 1) /\ trace'[Len(trace) + 1] = e
      /\ \A k \in 1 .. Len(trace) : trace'[k] = trace[k]
  BY TraceGrows
<1>2. (\A k \in DOMAIN trace' : Completed(trace'[k])) <=> (\A k \in DOMAIN trace : Completed(trace[k]))
  BY <1>1 DEF Completed
<1>3. CASE halted \/ \A k \in DOMAIN trace : Completed(trace[k])
  BY <1>2, <1>3 DEF PayloadNamesLastTrap, Completed
<1>4. CASE ~(halted \/ \A k \in DOMAIN trace : Completed(trace[k]))
  <2>1. PICK k : /\ LastTrap(k)
                 /\ Names(last_trap_payload, trace[k].trap, trace[k].pc, trace[k].opcode)
    BY <1>4 DEF PayloadNamesLastTrap
  <2>2. LastTrap(k)' /\ trace'[k] = trace[k]
    BY <1>1, <2>1 DEF LastTrap, Completed
  <2> QED
    BY <2>1, <2>2 DEF PayloadNamesLastTrap, LastTrap, Names
<1> QED
  BY <1>3, <1>4

\* The payload a host inspects is the last trap of the trace, and there is none
\* exactly when the trace has no trap or the program halted, under any sequence
\* of steps, host writes and reloads.
THEOREM PayloadAlwaysMatches == Spec => []PayloadMatchesTrace
<1>1. Init => PayloadNamesLastTrap
  BY DEF Init, Loaded, PayloadNamesLastTrap
<1>2. TypeOK /\ TypeOK' /\ PayloadNamesLastTrap /\ [Next]_vars => PayloadNamesLastTrap'
  <2> SUFFICES ASSUME TypeOK, TypeOK', PayloadNamesLastTrap, [Next]_vars
               PROVE  PayloadNamesLastTrap'
    OBVIOUS
  <2>1. CASE Lost \/ HostActs
    BY <2>1 DEF Lost, HostActs, PayloadNamesLastTrap, LastTrap, Completed, Names
  <2>2. CASE load_program
    BY <2>2 DEF load_program, PayloadNamesLastTrap
  <2>3. ASSUME NEW code \in TrapCode, Faults(code)
        PROVE  PayloadNamesLastTrap'
    <3> DEFINE e == Ran(NoWrite, code)
    <3>1. ~Completed(e) /\ e.trap = code /\ e.pc = pc /\ e.opcode = insn.opcode
      BY DEF Ran, Entry, Completed, TrapCode, NoTrap
    <3>2. trace' = Append(trace, e) /\ ~halted' /\ Names(last_trap_payload', code, pc, insn.opcode)
      BY <2>3 DEF Faults, Handled, Fetched, Stepping
    <3> HIDE DEF e
    <3> QED
      BY <3>1, <3>2, TrapIsLast DEF Names
  <2>4. ASSUME NEW code \in TrapCode, Rejects(code)
        PROVE  PayloadNamesLastTrap'
    <3> DEFINE op == IF pc < Len(program.insns) THEN insn.opcode ELSE "Nop"
               e == Entry(pc, op, current_write, code)
    <3>1. ~Completed(e) /\ e.trap = code /\ e.pc = pc /\ e.opcode = op
      BY DEF Entry, Completed, TrapCode, NoTrap
    <3>2. trace' = Append(trace, e) /\ ~halted' /\ Names(last_trap_payload', code, pc, op)
      BY <2>4 DEF Rejects, Stepping
    <3> HIDE DEF e
    <3> QED
      BY <3>1, <3>2, TrapIsLast DEF Names
  <2>5. ASSUME NEW w, Completes(w)
        PROVE  PayloadNamesLastTrap'
    <3>1. CASE insn.opcode = "Halt"
      BY <2>5, <3>1 DEF Completes, PayloadNamesLastTrap
    <3>2. CASE insn.opcode # "Halt"
      <4>1. Completed(Ran(w, NoTrap))
        BY DEF Ran, Entry, Completed
      <4> QED
        BY <2>5, <3>2, <4>1, LastTrapStays DEF Completes, Handled
    <3> QED
      BY <3>1, <3>2
  <2> QED
    BY <2>1, <2>2, <2>3, <2>4, <2>5, NextCases
<1>3. TypeOK /\ PayloadNamesLastTrap => PayloadMatchesTrace
  BY LastTrapFound
<1> QED
  BY <1>1, <1>2, <1>3, TypeCorrect, PTL DEF Spec

=============================================================================
