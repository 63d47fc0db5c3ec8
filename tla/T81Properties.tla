--------------------------- MODULE T81Properties ---------------------------
(***************************************************************************)
(* What the VM promises, as relations between its state, its trace and its *)
(* audit log.  The trace is what replays and parity checks compare, so     *)
(* most properties say what a reader of the trace may conclude about the   *)
(* machine.                                                                *)
(***************************************************************************)
EXTENDS T81Vm

Opcodes(p) == {p.insns[k].opcode : k \in DOMAIN p.insns}

Accepted == validate_program(program.insns) = NoTrap

Completed(e) == e.trap = NoTrap

\* The pc of the instruction the trace reports, or will report, after entry k.
PcAfter(k) == IF k = Len(trace) THEN pc ELSE trace[k + 1].pc

\* The entries of instructions the switch executed: neither the entry of a
\* preload trap nor those of a pc past the program.
Executed == {k \in DOMAIN trace : /\ trace[k].pc < Len(program.insns)
                                  /\ k = 1 => Accepted}

-----------------------------------------------------------------------------
(* Control flow.                                                           *)

\* The machine's hidden call stack is the one a reader of the trace computes:
\* completed Calls push the next pc, completed Rets pop, nothing else does.
ReplayCall(stack, e) ==
  IF Completed(e) /\ e.opcode = "Call" THEN Append(stack, e.pc + 1)
  ELSE IF Completed(e) /\ e.opcode = "Ret" THEN Front(stack)
  ELSE stack

CallStackMatchesTrace == call_stack = FoldLeft(ReplayCall, <<>>, trace)

\* A return address is the successor of a Call that completed before.
ReturnSite(target, k) ==
  \E j \in 1 .. k : /\ Completed(trace[j]) /\ trace[j].opcode = "Call"
                    /\ trace[j].pc + 1 = target

\* Where an entry's instruction may lead, by the program text.
Successor(k) ==
  LET e == trace[k]
      i == program.insns[e.pc + 1]
      next == PcAfter(k)
  IN  IF ~Completed(e) THEN next = e.pc
      ELSE CASE e.opcode = "Jump"       -> next = i.a
             [] e.opcode \in BranchOps  -> next \in {i.a, e.pc + 1}
             [] e.opcode = "Call"       -> next < Len(program.insns)
             [] e.opcode = "Ret"        -> ReturnSite(next, k)
             [] OTHER                   -> next = e.pc + 1

\* The trace is a path of the program: it starts at 0, every entry names the
\* instruction at its pc, and leads to the next entry's pc; a trapped
\* instruction leads to itself.
TraceIsAPath ==
  /\ trace # <<>> => trace[1].pc = 0
  /\ \A k \in DOMAIN trace :
       /\ trace[k].opcode = IF trace[k].pc < Len(program.insns)
                            THEN program.insns[trace[k].pc + 1].opcode ELSE "Nop"
       /\ Successor(k)

\* The machine implements T81Control: every instruction of every family commits
\* or faults there as a whole, under the program counter and the call stack it
\* promises; faults are precise whatever the handler had done before it found
\* one, and a halted machine stays as it is until the next load.
ProgramData == <<regs, flags, mem, pools>>
Outcomes == [k \in DOMAIN trace |-> Completed(trace[k])]

Control == INSTANCE T81Control WITH
  size <- Len(program.insns), at <- pc, stack <- call_stack, stopped <- halted,
  work <- ProgramData, outcomes <- Outcomes

ImplementsControl == Control!Spec

-----------------------------------------------------------------------------
(* Memory.                                                                 *)

\* The live heap blocks tile the heap from its start to the bump pointer: no
\* gap, no overlap, none past the end, whatever the order of frees tried.
HeapTiled ==
  /\ heap_ptr <= HeapLimit
  /\ heap_ptr = IF heap_frames = <<>> THEN HeapStart
                ELSE Last(heap_frames).addr + Last(heap_frames).size
  /\ \A k \in DOMAIN heap_frames :
       heap_frames[k].addr = IF k = 1 THEN HeapStart
                             ELSE heap_frames[k - 1].addr + heap_frames[k - 1].size

\* In a program that never pops, frames nest: sp is at or below the newest
\* frame, each frame ends at or below the one allocated before it, and the
\* oldest ends inside the stack.  (A Pop inside a live frame breaks this.)
FramesNest ==
  "Pop" \notin Opcodes(program) =>
    /\ sp <= IF stack_frames = <<>> THEN StackLimit ELSE Last(stack_frames).addr
    /\ \A k \in DOMAIN stack_frames :
         stack_frames[k].addr + stack_frames[k].size
           <= IF k = 1 THEN StackLimit ELSE stack_frames[k - 1].addr

\* Words on the stack are conserved: sp accounts for every live frame, every
\* completed Push and every completed Pop.
CompletedOps(opcode) == {k \in DOMAIN trace : Completed(trace[k]) /\ trace[k].opcode = opcode}

StackConservation ==
  sp + FoldLeft(LAMBDA sum, f : sum + f.size, 0, stack_frames)
     + Cardinality(CompletedOps("Push"))
  = StackLimit + Cardinality(CompletedOps("Pop"))

-----------------------------------------------------------------------------
(* Values.                                                                 *)

\* A handle is good when its tag's pool holds a value under it; weights
\* handles name no pool.
GoodHandle(tag, handle) ==
  CASE tag = "OptionHandle" -> handle \in 1 .. Len(option_pool)
    [] tag = "ResultHandle" -> handle \in 1 .. Len(result_pool)
    [] tag = "EnumHandle"   -> handle \in 1 .. Len(enum_pool)
    [] tag = "TensorHandle" -> handle \in 1 .. Len(tensor_pool)
    [] tag = "ShapeHandle"  -> handle \in 1 .. Len(shape_pool)
    [] OTHER -> TRUE

\* As long as the host forges no handle, no sequence of moves, arithmetic,
\* pushes, pops, unwraps and reloads makes one: every register tagged as a
\* handle, and every handle stored as a payload, names a live value, and a
\* payload of the same kind was made before the value that holds it.
HostForgesNoHandle == \A w \in HostWrites : w.tag \in {"Int", "WeightsTensorHandle"}

GoodPool(pool, tag) ==
  \A k \in DOMAIN pool :
    /\ GoodHandle(pool[k].payload_tag, pool[k].payload)
    /\ pool[k].payload_tag = tag => pool[k].payload < k

HandlesResolve ==
  HostForgesNoHandle =>
    /\ \A r \in Regs : GoodHandle(register_tags[r], registers[r])
    /\ GoodPool(option_pool, "OptionHandle")
    /\ GoodPool(result_pool, "ResultHandle")
    /\ GoodPool(enum_pool, "EnumHandle")

\* A tensor has no negative dimension and as many elements as its shape announces.
Announced(shape) == FoldLeft(LAMBDA x, y : x * y, 1, shape)

WellFormed(t) == t.shape \in Seq(Nat) /\ t.size = Announced(t.shape)

\* The host provides well-formed tensors, and no product of two dimensions of
\* its matrices overflows a size_t.
HostDims == UNION {Range(t.shape) : t \in {s.tensor : s \in {h \in HostSeeds : Len(h.tensor.shape) = 2}}}

HostTensorsSound ==
  /\ \A s \in HostSeeds : WellFormed(s.tensor)
  /\ \A a, b \in HostDims : a * b \in 0 .. (2 * Half - 1)

\* Sound tensors of the host give rise to well-formed tensors only, through any
\* chain of products, transposes and element-wise instructions, and no loop over
\* rows and columns ever runs past the elements the shape checks vouched for.
TensorsWellFormed ==
  HostTensorsSound =>
    /\ undefined # "tensor"
    /\ \A k \in DOMAIN tensor_pool : WellFormed(tensor_pool[k])

-----------------------------------------------------------------------------
(* Observers.                                                              *)

\* The payload a host inspects is that of the last trap in the trace, and
\* there is none exactly when nothing trapped or the program halted: host
\* recovery, completed instructions and reloads in between never leave it
\* naming another instruction or another trap.
PayloadMatchesTrace ==
  LET k == SelectLastInSeq(trace, LAMBDA e : ~Completed(e))
  IN  IF halted \/ k = 0
      THEN last_trap_payload = NoPayload
      ELSE /\ last_trap_payload.trap = trace[k].trap
           /\ last_trap_payload.pc = trace[k].pc
           /\ last_trap_payload.opcode = trace[k].opcode

\* What the audit log should say of the executed instruction that left entry e.
Audit(e) ==
  LET i == program.insns[e.pc + 1]
  IN  CASE e.opcode \in AxionOps -> IF Completed(e) THEN "allow" ELSE "deny"
        [] e.opcode = "WeightsLoad" -> "weights"
        [] e.opcode = "Store" /\ Completed(e) -> "access"
        [] e.opcode \in {"StackAlloc", "HeapAlloc"} /\ Completed(e) -> "allocated"
        [] e.opcode \in {"StackFree", "HeapFree"} /\ Completed(e) -> "freed"
        [] e.opcode \in {"Load", "Store", "Push", "Pop"} /\ ~Completed(e) -> "bounds"
        [] e.opcode \in {"StackAlloc", "HeapAlloc"} /\ ~Completed(e) /\ i.b > 0 -> "bounds"
        [] OTHER -> "silent"

\* The executed instructions that must be reported; their number up to entry k.
Reported == {k \in Executed : Audit(trace[k]) # "silent"}
ReportsUpTo(k) == Cardinality({j \in Reported : j <= k})

\* The audit log and the trace tell one story: read in order, the executed
\* instructions that must be reported are exactly the events of the log, each
\* with the decision or the outcome the trace shows.
LogFollowsTrace ==
  undefined = "none" =>
    /\ Len(axion_log) = Cardinality(Reported)
    /\ \A k \in Reported :
         LET event == axion_log[ReportsUpTo(k)]
         IN  event.opcode = trace[k].opcode /\ event.event = Audit(trace[k])

\* A guarded instruction is denied exactly when the policy text of the program
\* loaded last names tier 0, whatever program and policy the same VM had before.
PolicyDecides ==
  \A k \in Executed : trace[k].opcode \in AxionOps =>
    (trace[k].trap = "SecurityFault") = (program.tier = 0)

\* GC ticks are a function of the executed instructions alone: neither a
\* prologue trap nor an earlier program on the same VM moves them.
GcFollowsTrace == gc_cycles = Cardinality(Executed) \div GcInterval

\* The trace's write annotations rebuild the register file, in a program
\* without the instructions that write registers unannotated, when the host
\* neither writes registers, provides tensors nor reloads: the last annotated
\* write of a register is its value.
UnannotatedOps == {"Inc", "Dec", "Pop"}

TraceExplainsRegisters ==
  (/\ HostWrites = {} /\ HostSeeds = {} /\ Reloadable = {}
   /\ UnannotatedOps \cap Opcodes(program) = {}) =>
    \A r \in Regs :
      LET k == SelectLastInSeq(trace, LAMBDA e : e.write.reg = r)
      IN  <<registers[r], register_tags[r]>> =
            IF k = 0 THEN <<0, "Int">> ELSE <<trace[k].write.value, trace[k].write.tag>>

-----------------------------------------------------------------------------
(* Results.                                                                *)

\* The instruction that completed last is one of these, and its operands are
\* still in their registers: it did not overwrite them and no host does.
LastInsn == program.insns[Last(trace).pc + 1]

JustRan(opcodes) ==
  /\ HostWrites = {} /\ trace # <<>>
  /\ Completed(Last(trace)) /\ Last(trace).opcode \in opcodes
  /\ LastInsn.a \notin {LastInsn.b, LastInsn.c}

\* Division truncates: the remainder, left by Mod or by the quotient of any
\* other division opcode, is smaller than the divisor, has the dividend's sign,
\* and is the dividend up to a multiple of the divisor.
QuotientsTruncate ==
  JustRan(DivOps \cup {"Mod"}) =>
    LET x == registers[LastInsn.b]
        y == registers[LastInsn.c]
        z == registers[LastInsn.a]
        r == IF LastInsn.opcode = "Mod" THEN z ELSE x - z * y
    IN  ~(x = -Half /\ y = -1) =>
          /\ Magnitude(r) < Magnitude(y)
          /\ (x - r) % Magnitude(y) = 0
          /\ r # 0 => (r < 0) = (x < 0)

\* Trit logic on any words is balanced-ternary logic on their signs: and and or
\* are the lattice of trits, not mirrors it, exclusive or is the difference
\* modulo three.
TritsFold ==
  JustRan(TritOps \cup {"TNot"}) =>
    LET x == clamp_trit(registers[LastInsn.b])
        y == clamp_trit(registers[LastInsn.c])
        z == registers[LastInsn.a]
    IN  /\ z \in -1 .. 1
        /\ LastInsn.opcode = "TNot" => z + x = 0
        /\ LastInsn.opcode = "TAnd" => z \in {x, y} /\ z <= x /\ z <= y
        /\ LastInsn.opcode = "TOr"  => z \in {x, y} /\ z >= x /\ z >= y
        /\ LastInsn.opcode = "TXor" => (z - (x - y)) % 3 = 0

-----------------------------------------------------------------------------
(* Undefined behaviour.                                                    *)

\* What the validator accepts never indexes the register file out of bounds,
\* the opcodes whose source register it forgets aside.
AcceptedIsSafe ==
  (Accepted /\ Opcodes(program) \cap UncheckedB = {}) => undefined # "register"

\* Only a program that both pops and frees stack frames pushes outside memory.
PushStaysInMemory ==
  ~({"Pop", "StackFree", "Push"} \subseteq Opcodes(program)) => undefined # "memory"

-----------------------------------------------------------------------------
(* What the documents say of the program and the code does not do.  Each is *)
(* the property of a run that finds it violated.                           *)

\* SPEC.md, 3.3: the structure and the operand domains of a program are
\* validated before it executes, so no instruction indexes a register that
\* does not exist.
AcceptedIsDefined == Accepted => undefined # "register"

\* SPEC.md, 2: malformed bytecode is rejected before execution begins, so no
\* instruction of a program the validator rejects is ever executed.
RejectedNeverRuns == ~Accepted => steps = 0

\* SPEC.md, 5.2: out-of-segment access traps, so the word a completed Push
\* wrote, now on top of the stack, is in the stack segment.
PushedInStack ==
  (trace # <<>> /\ Last(trace).opcode = "Push" /\ Completed(Last(trace)))
    => segment_of(sp) = "stack"

\* SPEC.md, 2: identical bytecode and inputs give an identical trace, so an
\* entry logged before any instruction executed carries no register write.
UnrunTraceHasNoWrite == steps = 0 => \A k \in DOMAIN trace : trace[k].write = NoWrite

\* README.md, line 5, and SPEC.md, 8: arithmetic is overflow-safe and there is a
\* trap for its overflow, so a sum, difference, product or negation that completes
\* left the exact result.
CompletedIsExact ==
  JustRan(AddOps \cup SubOps \cup MulOps \cup {"Neg"}) =>
    LET x == registers[LastInsn.b]
        y == registers[LastInsn.c]
        exact == CASE LastInsn.opcode \in AddOps -> x + y
                   [] LastInsn.opcode \in SubOps -> x - y
                   [] LastInsn.opcode \in MulOps -> x * y
                   [] LastInsn.opcode = "Neg"    -> -x
    IN  registers[LastInsn.a] = exact

\* SPEC.md, 2: undefined behaviour in arithmetic is avoided, so no division
\* brings the process down.
DivisionDefined == undefined # "division"

=============================================================================
