----------------------------- MODULE T81Scalar -----------------------------
(***************************************************************************)
(* Scalar instructions: immediates, moves, int64 arithmetic, comparisons   *)
(* and balanced-ternary logic.                                             *)
(*                                                                         *)
(* Signed overflow is undefined in the source, and the build (-O2, nothing  *)
(* that checks) promises nothing of it: any word may be stored, and the     *)
(* flags set from it or from the exact result; the one division that        *)
(* overflows may also kill the process.                                     *)
(***************************************************************************)
EXTENDS T81Machine

\* What scalar instructions leave alone.
store == <<frames, pools, axion_log>>

\* The words an int64 computation may leave of the exact value v.
Words(v) == IF v \in Int64 THEN {v} ELSE Int64

\* One of the words is stored; v is what the flags are set from if not the word.
ProduceOneOf(words, v) ==
  \E w \in words : \E f \in {SignOf(v), SignOf(w)} : ProduceWith(w, "Int", f)

LoadImm == Fetch({"LoadImm"}) /\ Produce(insn.b, "Int") /\ UNCHANGED store

DivideByZero ==
  /\ Fetch(ArithOps)
  /\ Divides(insn.opcode) /\ registers[insn.c] = 0
  /\ QuietFault("DivisionFault", "unknown")

\* INT64_MIN / -1 and INT64_MIN % -1: neither has a meaning.
QuotientOverflows ==
  Divides(insn.opcode) /\ registers[insn.b] = -Half /\ registers[insn.c] = -1

Arithmetic ==
  /\ Fetch(ArithOps)
  /\ Divides(insn.opcode) => registers[insn.c] # 0
  /\ LET v == Arith(insn.opcode, registers[insn.b], registers[insn.c])
     IN  ProduceOneOf(IF QuotientOverflows THEN Int64 ELSE Words(v), v)
  /\ UNCHANGED store

\* They raise SIGFPE on some targets.
DivisionCrash ==
  /\ Fetch(ArithOps)
  /\ QuotientOverflows
  /\ undefined' = "division"
  /\ UNCHANGED <<program, policy, pc, halted, flags, call_stack, regs, mem, pools, trace, axion_log,
                 last_trap_payload, steps, gc_cycles, preload_trap, current_write>>

\* Mov and the conversions copy value and tag; SetF copies the value only.
Mov ==
  /\ Fetch(ConvertOps \cup {"Mov"})
  /\ Produce(registers[insn.b], register_tags[insn.b])
  /\ UNCHANGED store

SetF == Fetch({"SetF"}) /\ Produce(registers[insn.b], "Int") /\ UNCHANGED store

Neg ==
  /\ Fetch({"Neg"})
  /\ ProduceOneOf(Words(-registers[insn.b]), -registers[insn.b])
  /\ UNCHANGED store

\* Mutant of Bump: the register keeps its tag.
Bump_tagged(v) ==
  /\ \E w \in Words(v) :
       /\ registers' = [registers EXCEPT ![insn.a] = w]
       /\ flags' \in {SignOf(v), SignOf(w)}
  /\ pc' = pc + 1
  /\ Complete(NoWrite)
  /\ UNCHANGED <<register_tags, call_stack, memory, store>>

\* Inc and Dec write the register behind set_register_value's back: the
\* trace entry carries no write.
Bump(v) ==
  /\ \E w \in Words(v) :
       /\ registers' = [registers EXCEPT ![insn.a] = w]
       /\ flags' \in {SignOf(v), SignOf(w)}
  /\ register_tags' = [register_tags EXCEPT ![insn.a] = "Int"]
  /\ pc' = pc + 1
  /\ Complete(NoWrite)
  /\ UNCHANGED <<call_stack, memory, store>>

Inc == Fetch({"Inc"}) /\ Bump(registers[insn.a] + 1)
Dec == Fetch({"Dec"}) /\ Bump(registers[insn.a] - 1)

\* Cmp sets the flags from a subtraction that may overflow.
Difference(lhs, rhs) == lhs - rhs

Cmp ==
  /\ Fetch({"Cmp"})
  /\ LET v == Difference(registers[insn.a], registers[insn.b])
     IN  \E w \in Words(v) : flags' \in {SignOf(v), SignOf(w)}
  /\ pc' = pc + 1
  /\ Complete(NoWrite)
  /\ UNCHANGED <<call_stack, regs, mem, pools, axion_log>>

Compare ==
  /\ Fetch(CompareOps)
  /\ Produce(IF Holds(insn.opcode, registers[insn.b], registers[insn.c]) THEN 1 ELSE 0, "Int")
  /\ UNCHANGED store

TNot == Fetch({"TNot"}) /\ Produce(-clamp_trit(registers[insn.b]), "Int") /\ UNCHANGED store

TritLogic ==
  /\ Fetch(TritOps)
  /\ Produce(TritOp(insn.opcode, clamp_trit(registers[insn.b]), clamp_trit(registers[insn.c])), "Int")
  /\ UNCHANGED store

Scalar ==
  \/ LoadImm \/ DivideByZero \/ Arithmetic \/ DivisionCrash \/ Mov \/ SetF \/ Neg
  \/ Inc \/ Dec \/ Cmp \/ Compare \/ TNot \/ TritLogic

=============================================================================
