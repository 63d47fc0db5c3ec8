-------------------------- MODULE T81ControlProofs --------------------------
(***************************************************************************)
(* The interpreter implements T81Control, for every program, machine size   *)
(* and host: a lemma for each way an instruction may end, then one for each *)
(* family.  Its two stacks are those a reader of the trace computes: the    *)
(* return addresses, and the words of the stack segment.                   *)
(***************************************************************************)
EXTENDS T81TraceProofs

\* The folds of the two stacks.
Calls == INSTANCE T81FoldProofs WITH Op <- ReplayCall, Base <- <<>>
Frames == INSTANCE T81FoldProofs WITH Op <- LAMBDA sum, f : sum + f.size, Base <- 0

-----------------------------------------------------------------------------
(* The ways a step may end.                                                *)

\* Another entry of the trace is another outcome.
LEMMA OutcomesAppend ==
  ASSUME TypeOK, NEW e \in TraceEntry, trace' = Append(trace, e)
  PROVE  Outcomes' = Append(Outcomes, Completed(e))
<1>1. trace \in Seq(TraceEntry) /\ Len(trace) \in Nat /\ DOMAIN trace = 1 .. Len(trace)
  BY DEF TypeOK, TraceOK
<1>2. \A k \in DOMAIN trace : Completed(trace[k]) \in BOOLEAN
  BY DEF Completed
<1>3. Outcomes \in Seq(BOOLEAN) /\ Len(Outcomes) = Len(trace) /\ Completed(e) \in BOOLEAN
  BY <1>1, <1>2 DEF Outcomes, Completed
<1>4. DOMAIN trace' = 1 .. (Len(trace) + 1) /\ trace'[Len(trace) + 1] = e
      /\ \A k \in 1 .. Len(trace) : trace'[k] = trace[k]
  BY <1>1
<1>5. \A k \in DOMAIN trace' : Completed(trace'[k]) \in BOOLEAN
  BY DEF Completed
<1>6. Outcomes' \in Seq(BOOLEAN) /\ Len(Outcomes') = Len(trace) + 1
  BY <1>1, <1>4, <1>5 DEF Outcomes, Completed
<1>7. /\ Append(Outcomes, Completed(e)) \in Seq(BOOLEAN)
      /\ Len(Append(Outcomes, Completed(e))) = Len(trace) + 1
  BY <1>1, <1>3
<1>8. \A k \in 1 .. (Len(trace) + 1) : Outcomes'[k] = Append(Outcomes, Completed(e))[k]
  BY <1>1, <1>3, <1>4 DEF Outcomes, Completed
<1> QED
  BY <1>6, <1>7, <1>8, SeqEqual

\* The instruction at pc completes.
LEMMA RetireOutcome ==
  ASSUME TypeOK, TypeOK', Fetched, NEW w, Retire(w) \/ Complete(w)
  PROVE  /\ Outcomes' = Append(Outcomes, TRUE)
         /\ Len(program.insns)' = Len(program.insns) /\ ~halted /\ pc < Len(program.insns)
<1>0. w \in WriteRecord
  BY DEF Retire, Complete, TypeOK, TraceOK
<1>1. Entry(pc, insn.opcode, w, NoTrap) \in TraceEntry
  BY <1>0, InsnType DEF Entry, TraceEntry, TypeOK
<1>2. Completed(Entry(pc, insn.opcode, w, NoTrap)) = TRUE
  BY DEF Completed, Entry
<1>3. Outcomes' = Append(Outcomes, TRUE)
  BY <1>1, <1>2, OutcomesAppend DEF Retire, Complete
<1> QED
  BY <1>3 DEF Retire, Complete, Fetched, Stepping

\* An instruction that completes and moves to the next one commits, whatever
\* it does to the data.
LEMMA AdvanceCommits ==
  ASSUME TypeOK, TypeOK', Fetched, NEW w, Complete(w),
         pc' = pc + 1, call_stack' = call_stack
  PROVE  Control!Commit
<1>1. Control!Advance
  BY DEF Control!Advance, Complete
<1> QED
  BY <1>1, RetireOutcome DEF Control!Commit

\* A trap is a fault: no control state and no data moves.
LEMMA TrapFaults ==
  ASSUME TypeOK, TypeOK', ~halted, NEW code \in TrapCode, NEW op \in OpcodeByte, NEW seg, NEW w,
         trap(code, op, seg, w)
  PROVE  Control!Fault
<1>0. w \in WriteRecord
  BY DEF trap, TypeOK, TraceOK
<1>1. Entry(pc, op, w, code) \in TraceEntry
  BY <1>0 DEF Entry, TraceEntry, TypeOK, ControlOK
<1>2. Completed(Entry(pc, op, w, code)) = FALSE
  BY DEF Completed, Entry, TrapCode, NoTrap
<1>3. Outcomes' = Append(Outcomes, FALSE)
  BY <1>1, <1>2, OutcomesAppend DEF trap
<1>4. UNCHANGED <<program, pc, call_stack, halted, ProgramData>>
  BY DEF trap, ProgramData
<1> QED
  BY <1>3, <1>4 DEF Control!Fault

LEMMA HandlerFaults ==
  ASSUME TypeOK, TypeOK', Fetched, NEW code \in TrapCode, NEW seg, Fault(code, seg) \/ QuietFault(code, seg)
  PROVE  Control!Fault
<1>1. insn.opcode \in OpcodeByte /\ ~halted
  BY InsnType DEF TypeOK, Fetched, Stepping
<1> QED
  BY <1>1, TrapFaults DEF Fault, QuietFault

\* A step that leaves control and the trace alone can at most write data.
LEMMA StillPatches ==
  ASSUME UNCHANGED <<program, pc, call_stack, halted, trace>>
  PROVE  Control!Patch
BY DEF Control!Patch, Outcomes, Completed

\* An instruction that ends in a register write commits; out of range, the
\* write is without defined behaviour.
LEMMA ProduceCommits ==
  ASSUME TypeOK, TypeOK', Fetched, NEW v, NEW tag, NEW f, ProduceWith(v, tag, f)
  PROVE  Control!Commit \/ Control!Patch
<1>1. CASE insn.a \in Regs
  BY <1>1, AdvanceCommits DEF ProduceWith
<1>2. CASE insn.a \notin Regs
  BY <1>2, StillPatches DEF ProduceWith
<1> QED
  BY <1>1, <1>2

-----------------------------------------------------------------------------
(* The instruction families.                                               *)

LEMMA FlowControl ==
  ASSUME TypeOK, TypeOK', Flow
  PROVE  Control!Commit \/ Control!Fault
<1> USE DEF Fetch
<1>0. {"DecodeFault", "StackFault", "TrapInstruction"} \subseteq TrapCode
  BY DEF TrapCode
<1>1. ASSUME Fetched, FallThrough
      PROVE  Control!Commit
  BY <1>1, AdvanceCommits DEF FallThrough
<1>2. ASSUME Fetched, NEW target, JumpTo(target)
      PROVE  Control!Commit \/ Control!Fault
  <2>1. CASE InProgram(target)
    <3>1. Complete(NoWrite) /\ pc' = target /\ UNCHANGED <<flags, call_stack, data>>
      BY <1>2, <2>1 DEF JumpTo
    <3>2. Control!Branch
      BY <2>1, <3>1 DEF Control!Branch, InProgram, Complete, ProgramData, data
    <3> QED
      BY <1>2, <3>1, <3>2, RetireOutcome DEF Control!Commit
  <2>2. CASE ~InProgram(target)
    BY <1>0, <1>2, <2>2, HandlerFaults DEF JumpTo
  <2> QED
    BY <2>1, <2>2
<1>3. CASE Nop \/ BranchNotTaken
  BY <1>1, <1>3 DEF Nop, BranchNotTaken
<1>4. CASE Jump \/ BranchTaken
  BY <1>2, <1>4 DEF Jump, BranchTaken
<1>5. CASE Halt
  <2>1. Control!Stop
    BY <1>5 DEF Halt, Control!Stop, ProgramData, data
  <2> QED
    BY <1>5, <2>1, RetireOutcome DEF Halt, Control!Commit
<1>6. CASE Call
  <2>1. Control!Enter
    BY <1>6 DEF Call, Control!Enter, InProgram, ReturnAddress, Complete, ProgramData, data
  <2> QED
    BY <1>6, <2>1, RetireOutcome DEF Call, Control!Commit
<1>7. CASE Ret
  <2>1. Control!Leave
    BY <1>7 DEF Ret, Control!Leave, Complete, ProgramData, data,
           Last, Front, Control!Last, Control!Front
  <2> QED
    BY <1>7, <2>1, RetireOutcome DEF Ret, Control!Commit
<1>8. CASE CallOutside \/ RetEmpty \/ TrapInsn
  BY <1>0, <1>8, HandlerFaults DEF CallOutside, RetEmpty, TrapInsn
<1> QED
  BY <1>3, <1>4, <1>5, <1>6, <1>7, <1>8 DEF Flow

LEMMA ScalarControl ==
  ASSUME TypeOK, TypeOK', Scalar
  PROVE  Control!Commit \/ Control!Fault \/ Control!Patch
<1> USE DEF Fetch
<1>1. CASE LoadImm \/ Mov \/ SetF \/ Compare \/ TNot \/ TritLogic
  BY <1>1, ProduceCommits DEF LoadImm, Mov, SetF, Compare, TNot, TritLogic, Produce
<1>2. CASE Arithmetic \/ Neg
  BY <1>2, ProduceCommits DEF Arithmetic, Neg, ProduceOneOf
<1>3. CASE Inc \/ Dec \/ Cmp
  BY <1>3, AdvanceCommits DEF Inc, Dec, Bump, Cmp
<1>4. CASE DivideByZero
  BY <1>4, HandlerFaults DEF DivideByZero, TrapCode
<1>5. CASE DivisionCrash
  BY <1>5, StillPatches DEF DivisionCrash
<1> QED
  BY <1>1, <1>2, <1>3, <1>4, <1>5 DEF Scalar

LEMMA MemoryControl ==
  ASSUME TypeOK, TypeOK', Memory
  PROVE  Control!Commit \/ Control!Fault \/ Control!Patch
<1> USE DEF Fetch
<1>1. CASE Load \/ StackAlloc \/ HeapAlloc
  BY <1>1, ProduceCommits DEF Load, StackAlloc, HeapAlloc, Produce
<1>2. CASE Store \/ Push \/ Pop \/ StackFree \/ HeapFree
  BY <1>2, AdvanceCommits DEF Store, Push, Pop, StackFree, HeapFree
<1>3. CASE PushBeyondMemory
  BY <1>3, StillPatches DEF PushBeyondMemory
<1>4. CASE LoadOutside \/ StoreOutside \/ PushFull \/ PopEmpty
  BY <1>4, HandlerFaults DEF LoadOutside, StoreOutside, PushFull, PopEmpty, BoundsFault, TrapCode
<1>5. CASE StackAllocFault \/ StackFreeFault \/ HeapAllocFault \/ HeapFreeFault
  BY <1>5, HandlerFaults
     DEF StackAllocFault, StackFreeFault, HeapAllocFault, HeapFreeFault, BoundsFault, TrapCode
<1> QED
  BY <1>1, <1>2, <1>3, <1>4, <1>5 DEF Memory

LEMMA ValuesControl ==
  ASSUME TypeOK, TypeOK', Values \/ TensorStep
  PROVE  Control!Commit \/ Control!Fault \/ Control!Patch
<1> USE DEF Fetch
<1>1. CASE MakeOption \/ MakeResult \/ MakeEnum \/ Test \/ Unwrap
  BY <1>1, ProduceCommits DEF MakeOption, MakeResult, MakeEnum, Test, Unwrap, Produce
<1>2. CASE MakeTensor \/ ChkShape
  BY <1>2, ProduceCommits DEF MakeTensor, ChkShape, Produce
<1>3. CASE MakeEnumFault \/ ReaderTypeFault \/ ReaderDecodeFault
  BY <1>3, HandlerFaults DEF MakeEnumFault, ReaderTypeFault, ReaderDecodeFault, TrapCode
<1>4. CASE TensorTypeFault \/ TensorDecodeFault \/ TensorShapeFault
  BY <1>4, HandlerFaults DEF TensorTypeFault, TensorDecodeFault, TensorShapeFault, TrapCode
<1>5. CASE TensorOverrun
  BY <1>5, StillPatches DEF TensorOverrun
<1> QED
  BY <1>1, <1>2, <1>3, <1>4, <1>5 DEF Values, TensorStep

LEMMA AxionControl ==
  ASSUME TypeOK, TypeOK', Axion
  PROVE  Control!Commit \/ Control!Fault \/ Control!Patch
<1> USE DEF Fetch
<1>1. CASE AxRead \/ AxVerify \/ WeightsLoad
  BY <1>1, ProduceCommits DEF AxRead, AxVerify, WeightsLoad, Produce
<1>2. CASE AxSet
  BY <1>2, AdvanceCommits DEF AxSet
<1>3. CASE AxionDeny
  BY <1>3, HandlerFaults DEF AxionDeny, TrapCode
<1> QED
  BY <1>1, <1>2, <1>3 DEF Axion

LEMMA PrologueControl ==
  ASSUME TypeOK, TypeOK', Prologue
  PROVE  Control!Fault \/ Control!Patch
<1>1. CASE PreloadTrap
  <2>1. preload_trap \in TrapCode /\ ~halted
    BY <1>1 DEF PreloadTrap, Stepping, TypeOK, TraceOK
  <2>2. (IF pc < Len(program.insns) THEN insn.opcode ELSE "Nop") \in OpcodeByte
    <3>1. program.insns \in Seq(Insn) /\ pc \in Nat
      BY DEF TypeOK, ControlOK, Program
    <3>2. pc < Len(program.insns) => insn \in Insn
      BY <3>1 DEF insn
    <3> QED
      BY <3>2 DEF Insn, OpcodeByte, Opcode
  <2> QED
    BY <1>1, <2>1, <2>2, TrapFaults DEF PreloadTrap, PrologueTrap
<1>2. CASE FallOff
  BY <1>2, TrapFaults DEF FallOff, PrologueTrap, Stepping, TrapCode, OpcodeByte, Opcode
<1>3. CASE UnknownOpcode
  BY <1>3, HandlerFaults DEF UnknownOpcode, TrapCode
<1>4. CASE UndefinedRead
  BY <1>4, StillPatches DEF UndefinedRead
<1> QED
  BY <1>1, <1>2, <1>3, <1>4 DEF Prologue

-----------------------------------------------------------------------------
\* The interpreter implements the abstract control machine, whatever program it
\* is given, however large its segments, and whatever its host does: each of its
\* handlers commits as a whole or faults without a trace in the data, no
\* instruction but Call and Ret touches the call stack, and nothing runs after
\* Halt until the next load.
THEOREM ControlRefined == Spec => ImplementsControl
<1>1. Init => Control!Init
  <2> SUFFICES ASSUME Init
               PROVE  Control!Init
    OBVIOUS
  <2>1. Len(program.insns) \in Nat
    BY InitType DEF TypeOK, ControlOK, Program
  <2>2. Outcomes = <<>>
    BY DEF Init, Loaded, Outcomes
  <2> QED
    BY <2>1, <2>2 DEF Init, Loaded, Control!Init
<1>2. TypeOK /\ TypeOK' /\ [Next]_vars => [Control!Next]_Control!control
  <2> SUFFICES ASSUME TypeOK, TypeOK', [Next]_vars
               PROVE  Control!Next \/ UNCHANGED Control!control
    OBVIOUS
  <2> USE DEF Control!Next
  <2>1. CASE step
    BY <2>1, PrologueControl, FlowControl, ScalarControl, MemoryControl, ValuesControl, AxionControl
       DEF step
  <2>2. CASE load_program
    <3>1. Len(program.insns)' \in Nat
      BY DEF TypeOK, ControlOK, Program
    <3>2. Outcomes' = <<>>
      BY <2>2 DEF load_program, Outcomes
    <3>3. Control!Restart
      BY <2>2, <3>1, <3>2 DEF load_program, Control!Restart
    <3> QED
      BY <3>3
  <2>3. CASE set_register \/ seed_tensor
    BY <2>3, StillPatches DEF set_register, set_register_to, seed_tensor
  <2>4. CASE UNCHANGED vars
    BY <2>4, StillPatches DEF vars
  <2> QED
    BY <2>1, <2>2, <2>3, <2>4 DEF Next
<1> QED
  BY <1>1, <1>2, TypeCorrect, PTL DEF Spec, ImplementsControl, Control!Spec

-----------------------------------------------------------------------------
(* The call stack.                                                         *)

\* Replaying a trace is a fold.
LEMMA ReplayIsFold ==
  ASSUME NEW s
  PROVE  FoldLeft(ReplayCall, <<>>, s) = Calls!Folded(s)
BY DEF Calls!Folded, FoldLeft, Calls!FoldLeft, MapThenFoldSet, Calls!MapThenFoldSet, Max, Calls!Max

\* One more entry is one more replayed call; an empty trace has none.
LEMMA ReplayGrows ==
  ASSUME TypeOK, TypeOK', NEW e, trace' = Append(trace, e)
  PROVE  FoldLeft(ReplayCall, <<>>, trace') = ReplayCall(FoldLeft(ReplayCall, <<>>, trace), e)
<1>1. trace \in Seq(TraceEntry) /\ e \in TraceEntry
  BY TraceGrows DEF TypeOK, TraceOK
<1>2. Calls!Folded(Append(trace, e)) = ReplayCall(Calls!Folded(trace), e)
  BY <1>1, Calls!FoldAppend
<1> QED
  BY <1>2, ReplayIsFold

LEMMA ReplayEmpty == FoldLeft(ReplayCall, <<>>, <<>>) = <<>>
BY ReplayIsFold, Calls!EmptyUnfolds

\* The call stack, which no observer sees, is the one a reader of the trace
\* rebuilds: traps, host writes and undefined instructions leave it alone, and
\* a reload empties both.
THEOREM CallStackAlwaysMatches == Spec => []CallStackMatchesTrace
<1>1. Init => CallStackMatchesTrace
  BY ReplayEmpty DEF Init, Loaded, CallStackMatchesTrace
<1>2. TypeOK /\ TypeOK' /\ CallStackMatchesTrace /\ [Next]_vars => CallStackMatchesTrace'
  <2> SUFFICES ASSUME TypeOK, TypeOK', CallStackMatchesTrace, [Next]_vars
               PROVE  CallStackMatchesTrace'
    OBVIOUS
  <2>1. CASE Lost \/ HostActs
    BY <2>1 DEF Lost, HostActs, CallStackMatchesTrace
  <2>2. CASE load_program
    BY <2>2, ReplayEmpty DEF load_program, CallStackMatchesTrace
  <2>3. ASSUME NEW e, trace' = Append(trace, e), ~Completed(e), call_stack' = call_stack
        PROVE  CallStackMatchesTrace'
    <3>1. ReplayCall(call_stack, e) = call_stack
      BY <2>3 DEF ReplayCall
    <3> QED
      BY <2>3, <3>1, ReplayGrows DEF CallStackMatchesTrace
  <2>4. ASSUME NEW code \in TrapCode, Faults(code)
        PROVE  CallStackMatchesTrace'
    <3>1. ~Completed(Ran(NoWrite, code))
      BY DEF Ran, Entry, Completed, TrapCode, NoTrap
    <3> QED
      BY <2>3, <2>4, <3>1 DEF Faults, Handled
  <2>5. ASSUME NEW code \in TrapCode, Rejects(code)
        PROVE  CallStackMatchesTrace'
    <3>1. PICK op : trace' = Append(trace, Entry(pc, op, current_write, code)) /\ call_stack' = call_stack
      BY <2>5 DEF Rejects
    <3>2. ~Completed(Entry(pc, op, current_write, code))
      BY DEF Entry, Completed, TrapCode, NoTrap
    <3> QED
      BY <2>3, <3>1, <3>2
  <2>6. ASSUME NEW w, Completes(w)
        PROVE  CallStackMatchesTrace'
    <3> DEFINE e == Ran(w, NoTrap)
    <3>1. e.pc = pc /\ e.opcode = insn.opcode /\ Completed(e)
      BY DEF Ran, Entry, Completed
    <3>2. trace' = Append(trace, e) /\ Moves
      BY <2>6 DEF Completes, Handled
    <3> HIDE DEF e
    <3>3. call_stack' = ReplayCall(call_stack, e)
      BY <3>1, <3>2 DEF Moves, ReplayCall
    <3> QED
      BY <3>2, <3>3, ReplayGrows DEF CallStackMatchesTrace
  <2> QED
    BY <2>1, <2>2, <2>4, <2>5, <2>6, NextCases
<1> QED
  BY <1>1, <1>2, TypeCorrect, PTL DEF Spec

-----------------------------------------------------------------------------
(* The words of the stack.                                                 *)

\* The words the frames hold.
FrameWords(live) == FoldLeft(LAMBDA sum, f : sum + f.size, 0, live)

\* Their sum is a fold too: a number that grows by the frame appended.
LEMMA FrameWordsIsFold ==
  ASSUME NEW live
  PROVE  FrameWords(live) = Frames!Folded(live)
BY DEF FrameWords, Frames!Folded, FoldLeft, Frames!FoldLeft, MapThenFoldSet, Frames!MapThenFoldSet,
       Max, Frames!Max

LEMMA FrameWordsType ==
  ASSUME NEW live \in Seq(FrameRecord)
  PROVE  FrameWords(live) \in Nat
<1>1. \A x \in Nat : \A f \in FrameRecord : x + f.size \in Nat
  BY DEF FrameRecord
<1>2. Frames!Folded(live) \in Nat
  BY <1>1, Frames!FoldType
<1> QED
  BY <1>2, FrameWordsIsFold

LEMMA FrameWordsAppend ==
  ASSUME NEW live \in Seq(FrameRecord), NEW f \in FrameRecord
  PROVE  FrameWords(Append(live, f)) = FrameWords(live) + f.size
<1>1. Frames!Folded(Append(live, f)) = Frames!Folded(live) + f.size
  BY Frames!FoldAppend
<1> QED
  BY <1>1, FrameWordsIsFold

LEMMA FrameWordsEmpty == FrameWords(<<>>) = 0
BY FrameWordsIsFold, Frames!EmptyUnfolds

\* A sequence is its front with its last element appended.
LEMMA FrontLast ==
  ASSUME NEW S, NEW s \in Seq(S), s # <<>>
  PROVE  Front(s) \in Seq(S) /\ Last(s) \in S /\ s = Append(Front(s), Last(s))
<1>0. PICK n : n = Len(s)
  OBVIOUS
<1>1. /\ \A k \in DOMAIN s : s[k] \in S
      /\ DOMAIN s = 1 .. n /\ n \in Nat /\ n > 0 /\ Last(s) = s[n]
      /\ Front(s) \in Seq(S) /\ Len(Front(s)) = n - 1
      /\ \A k \in 1 .. (n - 1) : Front(s)[k] = s[k]
  BY <1>0, SequenceEnds
<1>2. Last(s) \in S
  BY <1>1
<1>3. /\ Append(Front(s), Last(s)) \in Seq(S) /\ Len(Append(Front(s), Last(s))) = n
      /\ Append(Front(s), Last(s))[n] = s[n]
      /\ \A k \in 1 .. (n - 1) : Append(Front(s), Last(s))[k] = s[k]
  BY <1>1, <1>2
<1>4. \A k \in 1 .. n : Append(Front(s), Last(s))[k] = s[k]
  <2>1. \A k \in 1 .. n : k \in 1 .. (n - 1) \/ k = n
    BY <1>1
  <2> QED
    BY <1>3, <2>1
<1>5. DOMAIN Append(Front(s), Last(s)) = 1 .. n
  BY <1>3
<1> QED
  BY <1>1, <1>2, <1>3, <1>4, <1>5

\* Entry e is that of a completed opcode.
Did(e, opcode) == Completed(e) /\ e.opcode = opcode

\* What an instruction does to the stack, and the entry that says so.
StackStays == UNCHANGED <<sp, stack_frames>>
WordPushed == sp' = sp - 1 /\ stack_frames' = stack_frames
WordPopped == sp' = sp + 1 /\ stack_frames' = stack_frames
FramePushed == \E f \in FrameRecord : sp' + f.size = sp /\ stack_frames' = Append(stack_frames, f)
FramePopped == /\ stack_frames # <<>> /\ stack_frames' = Front(stack_frames)
               /\ sp' = sp + Last(stack_frames).size

\* Only the memory family runs a Push or a Pop.
LEMMA WordOpsAreMemory ==
  ASSUME TypeOK, step, Fetched, insn.opcode \in {"Push", "Pop"}
  PROVE  Memory \/ UndefinedRead
<1>1. ~Flow
  BY DEF Flow, Nop, Halt, Jump, BranchTaken, BranchNotTaken, Call, CallOutside, Ret, RetEmpty,
         TrapInsn, Fetch, JumpOps, BranchOps
<1>2. ~Scalar
  BY DEF Scalar, LoadImm, DivideByZero, DivisionCrash, Arithmetic, Mov, SetF, Neg, Inc, Dec, Cmp,
         Compare, TNot, TritLogic, Fetch, ConvertOps, ArithOps, AddOps, SubOps, MulOps, DivOps,
         CompareOps, TritOps
<1>3. ~Values
  BY DEF Values, MakeOption, MakeResult, MakeEnum, MakeEnumFault, ReaderTypeFault,
         ReaderDecodeFault, Test, Unwrap, Fetch, MakeOps, UnwrapOps, Tests
<1>4. ~TensorStep
  BY DEF TensorStep, TensorTypeFault, TensorDecodeFault, TensorShapeFault, MakeTensor,
         TensorOverrun, ChkShape, Fetch, TensorOps, TensorPairOps, TensorUnaryOps
<1>5. ~Axion
  BY DEF Axion, AxionDeny, AxRead, AxSet, AxVerify, WeightsLoad, Fetch, AxionOps
<1>6. ~(PreloadTrap \/ FallOff \/ UnknownOpcode)
  BY DEF PreloadTrap, FallOff, UnknownOpcode, Fetched, IllegalOpcode, TypeOK, ControlOK, Program
<1> QED
  BY <1>1, <1>2, <1>3, <1>4, <1>5, <1>6 DEF step, Prologue

\* A Push or a Pop that completes moves sp.
LEMMA WordOpsMove ==
  ASSUME TypeOK, TypeOK', step, UNCHANGED sp, NEW w, Completes(w)
  PROVE  insn.opcode \notin {"Push", "Pop"}
<1> SUFFICES ASSUME insn.opcode \in {"Push", "Pop"}
             PROVE  FALSE
  OBVIOUS
<1>1. /\ Fetched /\ trace' = Append(trace, Ran(w, NoTrap)) /\ undefined' = undefined
      /\ trace'[Len(trace) + 1] = Ran(w, NoTrap) /\ trace' # trace
  BY TraceGrows DEF Completes, Handled
<1>2. Push \/ PushFull \/ Pop \/ PopEmpty
  <2>1. Memory
    BY <1>1, WordOpsAreMemory DEF UndefinedRead
  <2>2. ~PushBeyondMemory
    BY <1>1 DEF PushBeyondMemory
  <2> QED
    BY <2>1, <2>2 DEF Memory, Load, LoadOutside, Store, StoreOutside, StackAlloc, StackAllocFault,
                      StackFree, StackFreeFault, HeapAlloc, HeapAllocFault, HeapFree, HeapFreeFault,
                      Fetch
<1>3. ~(Push \/ Pop)
  BY DEF Push, Pop, TypeOK, FramesOK
<1>4. ~(PushFull \/ PopEmpty)
  <2> SUFFICES ASSUME PushFull \/ PopEmpty
               PROVE  FALSE
    OBVIOUS
  <2>1. trace' = Append(trace, Entry(pc, insn.opcode, NoWrite, "StackFault"))
    BY DEF PushFull, PopEmpty, BoundsFault, Fault, trap
  <2>2. trace'[Len(trace) + 1] = Entry(pc, insn.opcode, NoWrite, "StackFault")
    BY <2>1, TraceGrows
  <2> QED
    BY <1>1, <2>2 DEF Ran, Entry, NoTrap
<1> QED
  BY <1>2, <1>3, <1>4

\* The stack and the entry of a step go together.
LEMMA StepWords ==
  ASSUME TypeOK, TypeOK', step
  PROVE  \/ trace' = trace /\ (StackStays \/ FramePushed)
         \/ \E e : /\ trace' = Append(trace, e)
                  /\ \/ WordPushed /\ Did(e, "Push")
                     \/ WordPopped /\ Did(e, "Pop")
                     \/ /\ StackStays \/ FramePushed \/ FramePopped
                        /\ ~Did(e, "Push") /\ ~Did(e, "Pop")
<1>1. UNCHANGED <<sp, stack_frames>> \/ StackFramesMove
  BY StepKeeps
<1>2. CASE StackStays
  <2>1. CASE Lost
    BY <1>2, <2>1 DEF Lost
  <2>2. ASSUME NEW e, trace' = Append(trace, e), e.trap \in TrapCode
        PROVE  ~Did(e, "Push") /\ ~Did(e, "Pop")
    BY <2>2 DEF Did, Completed, TrapCode, NoTrap
  <2>3. ASSUME NEW code \in TrapCode, Faults(code)
        PROVE  \E e : trace' = Append(trace, e) /\ e.trap \in TrapCode
  <3>1. trace' = Append(trace, Ran(NoWrite, code)) /\ Ran(NoWrite, code).trap = code
    BY <2>3 DEF Faults, Handled, Ran, Entry
  <3> QED
    BY <3>1
  <2>4. ASSUME NEW code \in TrapCode, Rejects(code)
        PROVE  \E e : trace' = Append(trace, e) /\ e.trap \in TrapCode
  <3>1. PICK op : trace' = Append(trace, Entry(pc, op, current_write, code))
    BY <2>4 DEF Rejects
  <3>2. Entry(pc, op, current_write, code).trap = code
    BY DEF Entry
  <3> QED
    BY <3>1, <3>2
  <2>5. ASSUME NEW w, Completes(w)
        PROVE  trace' = Append(trace, Ran(w, NoTrap))
               /\ ~Did(Ran(w, NoTrap), "Push") /\ ~Did(Ran(w, NoTrap), "Pop")
    <3>1. insn.opcode \notin {"Push", "Pop"}
      BY <1>2, <2>5, WordOpsMove DEF StackStays
    <3> QED
      BY <2>5, <3>1 DEF Completes, Handled, Ran, Entry, Did
  <2> QED
    BY <1>2, <2>1, <2>2, <2>3, <2>4, <2>5, StepEnds DEF Ends
<1>3. CASE StackFramesMove
  <2>0. insn.b \in Int /\ sp \in Int
    <3>1. CASE Fetched
      BY <3>1, InsnType DEF TypeOK, FramesOK, Int64
    <3> QED
      BY <1>3, <3>1 DEF StackFramesMove, Push, Pop, StackAlloc, StackFree, Fetch
  <2>1. ASSUME NEW w, Complete(w)
        PROVE  /\ trace' = Append(trace, Ran(w, NoTrap))
               /\ \A op : Did(Ran(w, NoTrap), op) <=> insn.opcode = op
    BY <2>1 DEF Complete, Retire, Ran, Entry, Did, Completed
  <2>2. CASE Push
    BY <1>3, <2>1, <2>2 DEF Push, Fetch, WordPushed
  <2>3. CASE Pop
    BY <2>1, <2>3 DEF Pop, Fetch, WordPopped
  <2>4. CASE StackAlloc
    <3>1. FramePushed
      <4> DEFINE f == Frame(sp - insn.b, insn.b)
      <4>1. f \in FrameRecord
        BY <2>0, <2>4 DEF StackAlloc, FrameRecord, Frame, TypeOK, FramesOK
      <4>2. f.size = insn.b
        BY DEF Frame
      <4>3. sp' = sp - insn.b /\ stack_frames' = Append(stack_frames, f)
        BY <2>4 DEF StackAlloc
      <4>4. sp' + f.size = sp
        BY <2>0, <4>2, <4>3
      <4> QED
        BY <4>1, <4>3, <4>4 DEF FramePushed
    <3>2. PICK v : ProduceWith(v, "Int", flags)
      BY <2>4 DEF StackAlloc
    <3>3. trace' = trace \/ Complete(Write(insn.a, v, "Int"))
      BY <3>2 DEF ProduceWith
    <3>4. insn.opcode = "StackAlloc"
      BY <2>4 DEF StackAlloc, Fetch
    <3> QED
      BY <2>1, <3>1, <3>3, <3>4
  <2>5. CASE StackFree
    <3>1. FramePopped
      BY <2>5 DEF StackFree, FreesTop, AfterFree, FramePopped
    <3>2. Complete(NoWrite) /\ insn.opcode = "StackFree"
      BY <2>5 DEF StackFree, Fetch
    <3> QED
      BY <2>1, <3>1, <3>2
  <2> QED
    BY <1>3, <2>2, <2>3, <2>4, <2>5 DEF StackFramesMove
<1> QED
  BY <1>1, <1>2, <1>3 DEF StackStays

\* The completed entries of an opcode, counted as the trace grows.
LEMMA OpsCounted ==
  ASSUME TypeOK, TypeOK', NEW e, trace' = Append(trace, e), NEW op
  PROVE  /\ Cardinality(CompletedOps(op)) \in Nat
         /\ Cardinality(CompletedOps(op)') =
              Cardinality(CompletedOps(op)) + (IF Did(e, op) THEN 1 ELSE 0)
<1>0. PICK n : n = Len(trace)
  OBVIOUS
<1>1. /\ n \in Nat /\ DOMAIN trace = 1 .. n /\ DOMAIN trace' = 1 .. (n + 1)
      /\ trace'[n + 1] = e /\ \A k \in 1 .. n : trace'[k] = trace[k]
  BY <1>0, TraceGrows
<1>2. CompletedOps(op) \subseteq 1 .. n /\ IsFiniteSet(1 .. n)
  BY <1>1, FS_Interval DEF CompletedOps
<1>3. IsFiniteSet(CompletedOps(op)) /\ n + 1 \notin CompletedOps(op)
  BY <1>1, <1>2, FS_Subset
<1>4. CompletedOps(op)' = IF Did(e, op) THEN CompletedOps(op) \cup {n + 1} ELSE CompletedOps(op)
  <2>1. \A k \in 1 .. (n + 1) : k \in 1 .. n \/ k = n + 1
    BY <1>1
  <2>2. n + 1 \in 1 .. (n + 1) /\ \A k \in 1 .. n : k \in 1 .. (n + 1)
    BY <1>1
  <2>3. \A k : k \in CompletedOps(op)' <=> k \in 1 .. (n + 1) /\ Did(trace'[k], op)
    BY <1>1 DEF CompletedOps, Did, Completed
  <2>4. \A k : k \in CompletedOps(op) <=> k \in 1 .. n /\ Did(trace[k], op)
    BY <1>1 DEF CompletedOps, Did
  <2> QED
    BY <1>1, <2>1, <2>2, <2>3, <2>4
<1> QED
  BY <1>3, <1>4, FS_CardinalityType, FS_AddElement

\* Over any mixture of pushes, pops, allocations and frees, in any order and
\* with any traps between them, the stack pointer accounts for the words of the
\* live frames and for those of the completed Pushes and Pops of the trace.
THEOREM StackAlwaysConserved == Spec => []StackConservation
<1> DEFINE Pushes == Cardinality(CompletedOps("Push"))
           Pops == Cardinality(CompletedOps("Pop"))
           Conserved == sp + FrameWords(stack_frames) + Pushes = StackLimit + Pops
<1>0. Conserved <=> StackConservation
  BY DEF StackConservation, FrameWords
<1>1. Init => Conserved
  <2> SUFFICES ASSUME Init PROVE Conserved
    OBVIOUS
  <2>1. Pushes = 0 /\ Pops = 0
    <3>1. CompletedOps("Push") = {} /\ CompletedOps("Pop") = {}
      BY DEF Init, Loaded, CompletedOps
    <3> QED
      BY <3>1, FS_EmptySet
  <2>2. sp = StackLimit /\ sp \in Nat /\ FrameWords(stack_frames) = 0
    BY InitType, FrameWordsEmpty DEF Init, Loaded, TypeOK, FramesOK
  <2> QED
    BY <2>1, <2>2
<1>2. TypeOK /\ TypeOK' /\ Conserved /\ [Next]_vars => Conserved'
  <2> SUFFICES ASSUME TypeOK, TypeOK', Conserved, [Next]_vars
               PROVE  Conserved'
    OBVIOUS
  <2>1. CASE set_register \/ seed_tensor \/ UNCHANGED vars
    <3>1. UNCHANGED <<program, sp, stack_frames, trace>>
      BY <2>1 DEF set_register, set_register_to, seed_tensor, vars, mem, frames
    <3> QED
      BY <3>1 DEF CompletedOps, StackLimit, StackStart
  <2>2. CASE load_program
    <3>1. /\ sp' = StackLimit' /\ sp' \in Nat /\ stack_frames' = <<>> /\ trace' = <<>>
      BY <2>2 DEF load_program, TypeOK, FramesOK
    <3>2. FrameWords(stack_frames)' = 0
      BY <3>1, FrameWordsEmpty
    <3>3. Pushes' = 0 /\ Pops' = 0
      <4>1. CompletedOps("Push")' = {} /\ CompletedOps("Pop")' = {}
        BY <3>1 DEF CompletedOps
      <4> QED
        BY <4>1, FS_EmptySet
    <3> QED
      BY <3>1, <3>2, <3>3
  <2>3. CASE step
    <3>0. /\ sp \in Nat /\ sp' \in Nat /\ stack_frames \in Seq(FrameRecord)
          /\ stack_frames' \in Seq(FrameRecord) /\ FrameWords(stack_frames) \in Nat
          /\ FrameWords(stack_frames)' \in Nat
      BY FrameWordsType DEF TypeOK, FramesOK
    <3>1. StackLimit' = StackLimit /\ StackLimit \in Nat
      <4>1. program' = program
        BY <2>3, StepKeeps
      <4> QED
        BY <4>1, IsaAssumption DEF StackLimit, StackStart, TypeOK, ControlOK, Program
    <3>2. StackStays => sp' + FrameWords(stack_frames)' = sp + FrameWords(stack_frames)
      BY DEF StackStays
    <3>3. FramePushed => sp' + FrameWords(stack_frames)' = sp + FrameWords(stack_frames)
      <4> SUFFICES ASSUME NEW f \in FrameRecord, sp' + f.size = sp,
                          stack_frames' = Append(stack_frames, f)
                   PROVE  sp' + FrameWords(stack_frames)' = sp + FrameWords(stack_frames)
        BY DEF FramePushed
      <4>1. FrameWords(stack_frames)' = FrameWords(stack_frames) + f.size
        BY <3>0, FrameWordsAppend
      <4>2. f.size \in Nat
        BY DEF FrameRecord
      <4> QED
        BY <3>0, <4>1, <4>2
    <3>4. FramePopped => sp' + FrameWords(stack_frames)' = sp + FrameWords(stack_frames)
      <4> SUFFICES ASSUME FramePopped
                   PROVE  sp' + FrameWords(stack_frames)' = sp + FrameWords(stack_frames)
        OBVIOUS
      <4>1. PICK q, top : /\ q = Front(stack_frames) /\ top = Last(stack_frames)
                          /\ q \in Seq(FrameRecord) /\ top \in FrameRecord
                          /\ stack_frames = Append(q, top)
        BY <3>0, FrontLast DEF FramePopped
      <4>2. FrameWords(stack_frames) = FrameWords(q) + top.size
        BY <4>1, FrameWordsAppend
      <4>3. FrameWords(stack_frames)' = FrameWords(q) /\ sp' = sp + top.size
        BY <4>1 DEF FramePopped
      <4>4. top.size \in Nat /\ FrameWords(q) \in Nat
        BY <4>1, FrameWordsType DEF FrameRecord
      <4> QED
        BY <3>0, <4>2, <4>3, <4>4
    <3>5. CASE trace' = trace /\ (StackStays \/ FramePushed)
      <4>1. Pushes' = Pushes /\ Pops' = Pops
        BY <3>5 DEF CompletedOps
      <4>2. sp' + FrameWords(stack_frames)' = sp + FrameWords(stack_frames)
        BY <3>2, <3>3, <3>5
      <4> QED
        BY <3>0, <3>1, <4>1, <4>2
    <3>6. ASSUME NEW e, trace' = Append(trace, e),
                 \/ WordPushed /\ Did(e, "Push")
                 \/ WordPopped /\ Did(e, "Pop")
                 \/ /\ StackStays \/ FramePushed \/ FramePopped
                    /\ ~Did(e, "Push") /\ ~Did(e, "Pop")
          PROVE  Conserved'
      <4>1. /\ Pushes \in Nat /\ Pushes' = Pushes + (IF Did(e, "Push") THEN 1 ELSE 0)
            /\ Pops \in Nat /\ Pops' = Pops + (IF Did(e, "Pop") THEN 1 ELSE 0)
        BY <3>6, OpsCounted
      <4>2. ~(Did(e, "Push") /\ Did(e, "Pop"))
        BY DEF Did
      <4>3. CASE WordPushed /\ Did(e, "Push")
        <5>1. sp' = sp - 1 /\ FrameWords(stack_frames)' = FrameWords(stack_frames)
          BY <4>3 DEF WordPushed
        <5> HIDE DEF Pushes, Pops
        <5> QED
          BY <3>0, <3>1, <4>1, <4>2, <4>3, <5>1
      <4>4. CASE WordPopped /\ Did(e, "Pop")
        <5>1. sp' = sp + 1 /\ FrameWords(stack_frames)' = FrameWords(stack_frames)
          BY <4>4 DEF WordPopped
        <5> HIDE DEF Pushes, Pops
        <5> QED
          BY <3>0, <3>1, <4>1, <4>2, <4>4, <5>1
      <4>5. CASE ~Did(e, "Push") /\ ~Did(e, "Pop") /\ (StackStays \/ FramePushed \/ FramePopped)
        <5>1. sp' + FrameWords(stack_frames)' = sp + FrameWords(stack_frames)
          BY <3>2, <3>3, <3>4, <4>5
        <5> HIDE DEF Pushes, Pops
        <5> QED
          BY <3>0, <3>1, <4>1, <4>5, <5>1
      <4> QED
        BY <3>6, <4>3, <4>4, <4>5
    <3> QED
      BY <2>3, <3>5, <3>6, StepWords
  <2> QED
    BY <2>1, <2>2, <2>3 DEF Next
<1> QED
  BY <1>0, <1>1, <1>2, TypeCorrect, PTL DEF Spec

=============================================================================
