-------------------------- MODULE T81SafetyProofs --------------------------
(***************************************************************************)
(* Safety properties of the VM, for every program, segment size and         *)
(* register count: the heap is always tiled by its live blocks, the frames *)
(* of a program that never pops nest, what the validator accepts never     *)
(* indexes the register file out of bounds, and a push leaves memory only  *)
(* in a program that also pops and frees frames.                           *)
(***************************************************************************)
EXTENDS T81TypeProofs, SequenceTheorems

-----------------------------------------------------------------------------
(* What a step of each family leaves alone.                                *)

\* A handler writes its result to a register that does not exist.
LostResult == Fetched /\ insn.opcode \in ChecksA /\ insn.a \notin Regs

\* The program stays, and registers and memory are indexed out of bounds only
\* this way.
Contained == /\ program' = program
             /\ undefined' = "register" => LostResult
             /\ undefined' = "memory" => PushBeyondMemory

\* A trap keeps the frames and runs into nothing undefined.
LEMMA FaultKeeps ==
  ASSUME Stepping, NEW code, NEW op, NEW seg, NEW w, trap(code, op, seg, w)
  PROVE  Contained /\ UNCHANGED frames
BY DEF trap, Stepping, Contained, mem

LEMMA QuietFaultKeeps ==
  ASSUME Fetched, NEW code, NEW seg, QuietFault(code, seg) \/ Fault(code, seg)
  PROVE  Contained /\ UNCHANGED frames
BY FaultKeeps DEF QuietFault, Fault, Fetched

\* An instruction that completes runs into nothing undefined.
LEMMA RetireKeeps ==
  ASSUME Fetched, NEW w, Retire(w) \/ Complete(w)
  PROVE  Contained
BY DEF Fetched, Stepping, Retire, Complete, Contained

LEMMA ProduceKeeps ==
  ASSUME Fetched, insn.opcode \in ChecksA, NEW v, NEW tag, NEW f, ProduceWith(v, tag, f)
  PROVE  Contained
<1>1. CASE insn.a \in Regs
  BY <1>1, RetireKeeps DEF ProduceWith
<1>2. CASE insn.a \notin Regs
  BY <1>2 DEF ProduceWith, Contained, LostResult
<1> QED
  BY <1>1, <1>2

LEMMA FlowKeeps ==
  ASSUME Flow
  PROVE  Contained /\ UNCHANGED frames
<1> USE DEF Fetch
<1>1. ASSUME Fetched, NEW target, JumpTo(target)
      PROVE  Contained /\ UNCHANGED frames
  BY <1>1, RetireKeeps, QuietFaultKeeps DEF JumpTo, data, mem
<1>2. ASSUME Fetched, FallThrough
      PROVE  Contained /\ UNCHANGED frames
  BY <1>2, RetireKeeps DEF FallThrough, data, mem
<1>3. CASE Nop \/ BranchNotTaken
  BY <1>2, <1>3 DEF Nop, BranchNotTaken
<1>4. CASE Jump \/ BranchTaken
  BY <1>1, <1>4 DEF Jump, BranchTaken
<1>5. CASE Halt
  BY <1>5, RetireKeeps DEF Halt, data, mem
<1>6. CASE Call \/ Ret
  BY <1>6, RetireKeeps DEF Call, Ret, data, mem
<1>7. CASE CallOutside \/ RetEmpty \/ TrapInsn
  BY <1>7, QuietFaultKeeps DEF CallOutside, RetEmpty, TrapInsn
<1> QED
  BY <1>3, <1>4, <1>5, <1>6, <1>7 DEF Flow

LEMMA ScalarKeeps ==
  ASSUME Scalar
  PROVE  Contained /\ UNCHANGED frames
<1> USE DEF Fetch, store
<1>1. ASSUME Fetched, insn.opcode \in ChecksA, NEW words, NEW v, ProduceOneOf(words, v)
      PROVE  Contained
  BY <1>1, ProduceKeeps DEF ProduceOneOf
<1>2. ASSUME Fetched, insn.opcode \in ChecksA, NEW v, NEW tag, Produce(v, tag)
      PROVE  Contained
  BY <1>2, ProduceKeeps DEF Produce
<1>3. CASE LoadImm \/ Mov \/ SetF
  BY <1>2, <1>3 DEF LoadImm, Mov, SetF, ChecksA, ChecksB
<1>4. CASE Arithmetic
  <2>1. Fetched /\ insn.opcode \in ArithOps
    BY <1>4 DEF Arithmetic
  <2>2. insn.opcode \in ChecksA
    BY <2>1 DEF ChecksA, ChecksB, ChecksC, ArithOps, AddOps, SubOps, MulOps, DivOps
  <2>3. (\E words, v : ProduceOneOf(words, v)) /\ UNCHANGED store
    BY <1>4 DEF Arithmetic
  <2> QED
    BY <1>1, <2>1, <2>2, <2>3
<1>5. CASE Neg
  BY <1>1, <1>5 DEF Neg, ChecksA
<1>6. CASE Compare
  BY <1>2, <1>6 DEF Compare, ChecksA, ChecksB, ChecksC, CompareOps
<1>7. CASE TNot
  BY <1>2, <1>7 DEF TNot, ChecksA, ChecksB
<1>8. CASE TritLogic
  BY <1>2, <1>8 DEF TritLogic, ChecksA, ChecksB, ChecksC, TritOps
<1>9. CASE Inc \/ Dec
  BY <1>9, RetireKeeps DEF Inc, Dec, Bump
<1>10. CASE Cmp
  BY <1>10, RetireKeeps DEF Cmp, mem
<1>11. CASE DivideByZero
  BY <1>11, QuietFaultKeeps DEF DivideByZero
<1>12. CASE DivisionCrash
  BY <1>12 DEF DivisionCrash, Contained, mem
<1> QED
  BY <1>3, <1>4, <1>5, <1>6, <1>7, <1>8, <1>9, <1>10, <1>11, <1>12 DEF Scalar

LEMMA ValuesKeeps ==
  ASSUME Values
  PROVE  Contained /\ UNCHANGED frames
<1> USE DEF Fetch
<1>1. ASSUME Fetched, insn.opcode \in ChecksA, NEW v, NEW tag, Produce(v, tag)
      PROVE  Contained
  BY <1>1, ProduceKeeps DEF Produce
<1>2. CASE MakeOption \/ MakeResult \/ MakeEnum
  BY <1>1, <1>2 DEF MakeOption, MakeResult, MakeEnum, ChecksA, ChecksB, MakeOps
<1>3. CASE Test \/ Unwrap
  BY <1>1, <1>3 DEF Test, Unwrap, Tests, UnwrapOps, ChecksA, ChecksB
<1>4. CASE MakeEnumFault \/ ReaderTypeFault \/ ReaderDecodeFault
  BY <1>4, QuietFaultKeeps DEF MakeEnumFault, ReaderTypeFault, ReaderDecodeFault
<1> QED
  BY <1>2, <1>3, <1>4 DEF Values

LEMMA TensorKeeps ==
  ASSUME TensorStep
  PROVE  Contained /\ UNCHANGED frames
<1> USE DEF Fetch
<1>1. ASSUME Fetched, insn.opcode \in ChecksA, NEW v, NEW tag, Produce(v, tag)
      PROVE  Contained
  BY <1>1, ProduceKeeps DEF Produce
<1>2. CASE MakeTensor \/ ChkShape
  BY <1>1, <1>2
     DEF MakeTensor, ChkShape, TensorOps, TensorPairOps, TensorUnaryOps, ChecksA, ChecksB, ChecksC
<1>3. CASE TensorTypeFault \/ TensorDecodeFault \/ TensorShapeFault
  BY <1>3, QuietFaultKeeps DEF TensorTypeFault, TensorDecodeFault, TensorShapeFault
<1>4. CASE TensorOverrun
  BY <1>4 DEF TensorOverrun, Contained, mem
<1> QED
  BY <1>2, <1>3, <1>4 DEF TensorStep

LEMMA AxionKeeps ==
  ASSUME Axion
  PROVE  Contained /\ UNCHANGED frames
<1> USE DEF Fetch
<1>1. ASSUME Fetched, insn.opcode \in ChecksA, NEW v, NEW tag, Produce(v, tag)
      PROVE  Contained
  BY <1>1, ProduceKeeps DEF Produce
<1>2. CASE AxionDeny
  BY <1>2, QuietFaultKeeps DEF AxionDeny
<1>3. CASE AxRead \/ AxVerify \/ WeightsLoad
  BY <1>1, <1>3 DEF AxRead, AxVerify, WeightsLoad, ChecksA
<1>4. CASE AxSet
  BY <1>4, RetireKeeps DEF AxSet, mem
<1> QED
  BY <1>2, <1>3, <1>4 DEF Axion

\* The prologue keeps the frames; its own reads are the other way to run into
\* a register that does not exist.
LEMMA PrologueKeeps ==
  ASSUME Prologue
  PROVE  /\ program' = program /\ UNCHANGED frames
         /\ undefined' = "register" => UndefinedRead
         /\ undefined' # "memory"
<1>1. CASE PreloadTrap \/ FallOff
  BY <1>1, FaultKeeps DEF PreloadTrap, FallOff, PrologueTrap, Contained, LostResult, Fetched, trap, Stepping
<1>2. CASE UnknownOpcode
  BY <1>2, QuietFaultKeeps DEF UnknownOpcode, Contained, QuietFault, Fault, trap, Fetched, Stepping
<1>3. CASE UndefinedRead
  BY <1>3 DEF UndefinedRead, mem
<1> QED
  BY <1>1, <1>2, <1>3 DEF Prologue

-----------------------------------------------------------------------------
(* The memory family moves the frames: by pushing and popping words, and by *)
(* pushing and popping frames.                                             *)

StackFramesMove ==
  \/ Push /\ sp' = sp - 1 /\ UNCHANGED stack_frames
  \/ Pop /\ UNCHANGED stack_frames
  \/ /\ StackAlloc
     /\ insn.b > 0 /\ sp' = sp - insn.b
     /\ stack_frames' = Append(stack_frames, Frame(sp - insn.b, insn.b))
  \/ /\ StackFree
     /\ stack_frames # <<>>
     /\ stack_frames' = Front(stack_frames)
     /\ sp' = AfterFree(Last(stack_frames))

HeapFramesMove ==
  \/ /\ HeapAlloc
     /\ insn.b > 0 /\ heap_ptr + insn.b <= HeapLimit
     /\ heap_ptr' = heap_ptr + insn.b
     /\ heap_frames' = Append(heap_frames, Frame(heap_ptr, insn.b))
  \/ /\ HeapFree
     /\ heap_frames # <<>>
     /\ heap_frames' = Front(heap_frames)
     /\ heap_ptr' = AfterHeapFree(Last(heap_frames))

LEMMA MemoryKeeps ==
  ASSUME Memory
  PROVE  /\ Contained
         /\ UNCHANGED <<sp, stack_frames>> \/ StackFramesMove
         /\ UNCHANGED <<heap_ptr, heap_frames>> \/ HeapFramesMove
<1> USE DEF Fetch
<1>1. ASSUME Fetched, insn.opcode \in ChecksA, NEW v, NEW tag, NEW f, ProduceWith(v, tag, f)
      PROVE  Contained
  BY <1>1, ProduceKeeps
<1>2. CASE Load
  BY <1>1, <1>2 DEF Load, Produce, frames, ChecksA
<1>3. CASE Store
  BY <1>3, RetireKeeps DEF Store, frames
<1>4. CASE LoadOutside \/ StoreOutside \/ PushFull \/ PopEmpty
  BY <1>4, QuietFaultKeeps DEF LoadOutside, StoreOutside, PushFull, PopEmpty, BoundsFault, frames
<1>5. CASE Push
  BY <1>5, RetireKeeps DEF Push, StackFramesMove
<1>6. CASE PushBeyondMemory
  BY <1>6 DEF PushBeyondMemory, Contained, mem, frames
<1>7. CASE Pop
  BY <1>7, RetireKeeps DEF Pop, StackFramesMove
<1>8. CASE StackAlloc
  <2>1. Contained
    BY <1>1, <1>8 DEF StackAlloc, ChecksA, FrameOps
  <2>2. StackFramesMove /\ UNCHANGED <<heap_ptr, heap_frames>>
    BY <1>8 DEF StackAlloc, StackFramesMove
  <2> QED
    BY <2>1, <2>2
<1>9. CASE StackFree
  BY <1>9, RetireKeeps DEF StackFree, FreesTop, StackFramesMove
<1>10. CASE HeapAlloc
  <2>1. Contained
    BY <1>1, <1>10 DEF HeapAlloc, ChecksA, FrameOps
  <2>2. HeapFramesMove /\ UNCHANGED <<sp, stack_frames>>
    BY <1>10 DEF HeapAlloc, HeapFramesMove
  <2> QED
    BY <2>1, <2>2
<1>11. CASE HeapFree
  BY <1>11, RetireKeeps DEF HeapFree, FreesTop, HeapFramesMove
<1>12. CASE StackAllocFault \/ StackFreeFault \/ HeapAllocFault \/ HeapFreeFault
  BY <1>12, QuietFaultKeeps
     DEF StackAllocFault, StackFreeFault, HeapAllocFault, HeapFreeFault, BoundsFault, frames
<1> QED
  BY <1>2, <1>3, <1>4, <1>5, <1>6, <1>7, <1>8, <1>9, <1>10, <1>11, <1>12 DEF Memory

\* What a step of the machine does to the frames and to definedness.
LEMMA StepKeeps ==
  ASSUME step
  PROVE  /\ program' = program
         /\ undefined' = "register" => LostResult \/ UndefinedRead
         /\ undefined' = "memory" => PushBeyondMemory
         /\ UNCHANGED <<sp, stack_frames>> \/ StackFramesMove
         /\ UNCHANGED <<heap_ptr, heap_frames>> \/ HeapFramesMove
<1>1. CASE Prologue
  BY <1>1, PrologueKeeps DEF frames
<1>2. CASE Flow \/ Scalar \/ Values \/ TensorStep \/ Axion
  BY <1>2, FlowKeeps, ScalarKeeps, ValuesKeeps, TensorKeeps, AxionKeeps DEF frames, Contained
<1>3. CASE Memory
  BY <1>3, MemoryKeeps DEF Contained
<1> QED
  BY <1>1, <1>2, <1>3 DEF step


-----------------------------------------------------------------------------
(* The heap.                                                               *)

\* What Front and Last leave of a sequence, and what Append adds.
LEMMA SequenceEnds ==
  ASSUME NEW S, NEW s \in Seq(S)
  PROVE  /\ \A k \in DOMAIN s : s[k] \in S
         /\ DOMAIN s = 1 .. Len(s) /\ Len(s) \in Nat
         /\ s # <<>> => /\ Len(s) > 0 /\ Last(s) = s[Len(s)]
                       /\ Front(s) \in Seq(S) /\ Len(Front(s)) = Len(s) - 1
                       /\ \A k \in 1 .. (Len(s) - 1) : Front(s)[k] = s[k]
         /\ \A e \in S : /\ Append(s, e) \in Seq(S) /\ Len(Append(s, e)) = Len(s) + 1
                         /\ Append(s, e)[Len(s) + 1] = e
                         /\ \A k \in 1 .. Len(s) : Append(s, e)[k] = s[k]
<1>1. s # <<>> => /\ Len(s) > 0 /\ Last(s) = s[Len(s)]
                  /\ Front(s) \in Seq(S) /\ Len(Front(s)) = Len(s) - 1
                  /\ \A k \in 1 .. (Len(s) - 1) : Front(s)[k] = s[k]
  <2> SUFFICES ASSUME s # <<>>
               PROVE  /\ Len(s) > 0 /\ Last(s) = s[Len(s)]
                      /\ Front(s) \in Seq(S) /\ Len(Front(s)) = Len(s) - 1
                      /\ \A k \in 1 .. (Len(s) - 1) : Front(s)[k] = s[k]
    OBVIOUS
  <2>1. Len(s) \in Nat \ {0}
    OBVIOUS
  <2>2. /\ Front(s) \in Seq(S) /\ Len(Front(s)) = Len(s) - 1
        /\ \A k \in 1 .. (Len(s) - 1) : Front(s)[k] = s[k]
    <3> DEFINE m == Len(s) - 1
    <3>1. m \in Int /\ 1 \in Int /\ m \in Nat
      BY <2>1
    <3>2. \A i \in 1 .. m : s[i] \in S
      BY <2>1
    <3> HIDE DEF m
    <3>3. /\ SubSeq(s, 1, m) \in Seq(S)
          /\ Len(SubSeq(s, 1, m)) = IF 1 <= m THEN m - 1 + 1 ELSE 0
          /\ \A i \in 1 .. m - 1 + 1 : SubSeq(s, 1, m)[i] = s[1 + i - 1]
      BY <3>1, <3>2, SubSeqProperties
    <3>4. Len(SubSeq(s, 1, m)) = m
      BY <3>1, <3>3
    <3>5. ASSUME NEW k \in 1 .. m
          PROVE  SubSeq(s, 1, m)[k] = s[k]
      <4>1. k \in 1 .. m - 1 + 1 /\ 1 + k - 1 = k
        BY <3>1
      <4> QED
        BY <3>3, <4>1
    <3> QED
      BY <3>3, <3>4, <3>5 DEF Front, m
  <2> QED
    BY <2>1, <2>2 DEF Last
<1>2. \A k \in DOMAIN s : s[k] \in S
  OBVIOUS
<1>3. DOMAIN s = 1 .. Len(s) /\ Len(s) \in Nat
  OBVIOUS
<1>4. ASSUME NEW e \in S
      PROVE  /\ Append(s, e) \in Seq(S) /\ Len(Append(s, e)) = Len(s) + 1
             /\ Append(s, e)[Len(s) + 1] = e
             /\ \A k \in 1 .. Len(s) : Append(s, e)[k] = s[k]
  OBVIOUS
<1> QED
  BY <1>1, <1>2, <1>3, <1>4

\* Pushing a block at the bump pointer, or popping the last one, keeps the
\* tiling.
LEMMA HeapMoveTiles ==
  ASSUME TypeOK, HeapTiled, program' = program, HeapFramesMove
  PROVE  HeapTiled'
<1> DEFINE n == Len(heap_frames)
           Starts(k) == IF k = 1 THEN HeapStart
                        ELSE heap_frames[k - 1].addr + heap_frames[k - 1].size
<1>1. HeapLimit' = HeapLimit /\ HeapStart' = HeapStart /\ HeapLimit \in Nat /\ HeapStart \in Nat
  BY LayoutType DEF TypeOK, HeapLimit, HeapStart, StackLimit, StackStart
<1>2. heap_frames \in Seq(FrameRecord) /\ heap_ptr \in Nat /\ n \in Nat
      /\ DOMAIN heap_frames = 1 .. n
  BY SequenceEnds DEF TypeOK, FramesOK
<1>3. \A k \in 1 .. n : heap_frames[k].addr \in Nat /\ heap_frames[k].size \in Nat \ {0}
  <2>1. \A k \in 1 .. n : heap_frames[k] \in FrameRecord
    BY <1>2, SequenceEnds
  <2> QED
    BY <2>1 DEF FrameRecord
<1>4. \A k \in 1 .. n : heap_frames[k].addr = Starts(k)
  BY <1>2 DEF HeapTiled
<1>5. CASE HeapAlloc /\ insn.b > 0 /\ heap_ptr + insn.b <= HeapLimit
           /\ heap_ptr' = heap_ptr + insn.b
           /\ heap_frames' = Append(heap_frames, Frame(heap_ptr, insn.b))
  <2>1. insn.b \in Nat \ {0}
    BY <1>5, InsnType DEF HeapAlloc, Fetch, TypeOK, Int64
  <2>2. Frame(heap_ptr, insn.b) \in FrameRecord
    BY <1>2, <2>1 DEF Frame, FrameRecord
  <2>3. /\ heap_frames' \in Seq(FrameRecord) /\ Len(heap_frames') = n + 1
        /\ heap_frames'[n + 1] = Frame(heap_ptr, insn.b)
        /\ \A k \in 1 .. n : heap_frames'[k] = heap_frames[k]
    BY <1>2, <1>5, <2>2, SequenceEnds
  <2>4. DOMAIN heap_frames' = 1 .. (n + 1) /\ heap_frames' # <<>>
        /\ Last(heap_frames') = Frame(heap_ptr, insn.b)
    BY <1>2, <2>3 DEF Last
  <2>5. heap_ptr = Starts(n + 1)
    BY <1>2, <1>3 DEF HeapTiled, Last
  <2>6. ASSUME NEW k \in 1 .. (n + 1)
        PROVE  heap_frames'[k].addr = IF k = 1 THEN HeapStart
                 ELSE heap_frames'[k - 1].addr + heap_frames'[k - 1].size
    <3>1. k # 1 => k - 1 \in 1 .. n
      BY <1>2
    <3>2. heap_frames'[k].addr = Starts(k)
      <4>1. CASE k \in 1 .. n
        BY <1>4, <2>3, <4>1
      <4>2. CASE k = n + 1
        BY <2>3, <2>5, <4>2 DEF Frame
      <4> QED
        BY <1>2, <4>1, <4>2
    <3> QED
      BY <2>3, <3>1, <3>2
  <2>7. heap_ptr' = Last(heap_frames').addr + Last(heap_frames').size /\ heap_ptr' <= HeapLimit
    BY <1>5, <2>4 DEF Frame
  <2> QED
    BY <1>1, <2>4, <2>6, <2>7 DEF HeapTiled
<1>6. CASE HeapFree /\ heap_frames # <<>> /\ heap_frames' = Front(heap_frames)
           /\ heap_ptr' = AfterHeapFree(Last(heap_frames))
  <2>1. /\ n > 0 /\ heap_frames' \in Seq(FrameRecord) /\ Len(heap_frames') = n - 1
        /\ \A k \in 1 .. (n - 1) : heap_frames'[k] = heap_frames[k]
        /\ Last(heap_frames) = heap_frames[n]
    BY <1>2, <1>6, SequenceEnds
  <2>2. DOMAIN heap_frames' = 1 .. (n - 1) /\ (heap_frames' = <<>> <=> n = 1)
        /\ (n # 1 => Last(heap_frames') = heap_frames[n - 1])
    BY <1>2, <2>1 DEF Last
  <2>3. heap_ptr' = heap_frames[n].addr /\ heap_ptr' = Starts(n)
    BY <1>2, <1>4, <1>6, <2>1 DEF AfterHeapFree
  <2>4. heap_ptr' <= HeapLimit
    <3>1. heap_ptr = heap_frames[n].addr + heap_frames[n].size /\ heap_ptr <= HeapLimit
      BY <1>6, <2>1 DEF HeapTiled
    <3>2. heap_frames[n].addr \in Nat /\ heap_frames[n].size \in Nat
      BY <1>2, <1>3, <2>1
    <3>3. heap_frames[n].addr <= heap_ptr
      BY <3>1, <3>2
    <3> QED
      BY <1>1, <1>2, <2>3, <3>1, <3>2, <3>3
  <2>5. heap_ptr' = IF heap_frames' = <<>> THEN HeapStart
                    ELSE Last(heap_frames').addr + Last(heap_frames').size
    BY <2>2, <2>3
  <2>6. ASSUME NEW k \in 1 .. (n - 1)
        PROVE  heap_frames'[k].addr = IF k = 1 THEN HeapStart
                 ELSE heap_frames'[k - 1].addr + heap_frames'[k - 1].size
    <3>1. k \in 1 .. n /\ (k # 1 => k - 1 \in 1 .. (n - 1))
      BY <1>2
    <3> QED
      BY <1>4, <2>1, <3>1
  <2> QED
    BY <1>1, <2>2, <2>4, <2>5, <2>6 DEF HeapTiled
<1> QED
  BY <1>5, <1>6 DEF HeapFramesMove

\* Whatever a program allocates and frees, in whatever order it tries to, and
\* whatever the host does in between, the live heap blocks follow one another
\* from the start of the heap to the bump pointer: HeapAlloc's bounds check and
\* HeapFree's insistence on the last block are enough for that.
THEOREM HeapAlwaysTiled == Spec => []HeapTiled
<1>1. Init => HeapTiled
  <2> SUFFICES ASSUME Init PROVE HeapTiled
    OBVIOUS
  <2>1. TypeOK
    BY InitType
  <2> QED
    BY <2>1, LayoutType DEF Init, Loaded, HeapTiled, TypeOK
<1>2. TypeOK /\ HeapTiled /\ [Next]_vars => HeapTiled'
  <2> SUFFICES ASSUME TypeOK, HeapTiled, [Next]_vars
               PROVE  HeapTiled'
    OBVIOUS
  <2>1. ASSUME program' = program, UNCHANGED <<heap_ptr, heap_frames>>
        PROVE  HeapTiled'
    BY <2>1 DEF HeapTiled, HeapLimit, HeapStart, StackLimit, StackStart
  <2>2. CASE step
    BY <2>1, <2>2, StepKeeps, HeapMoveTiles
  <2>3. CASE load_program
    <3>1. heap_frames' = <<>> /\ heap_ptr' = HeapStart' /\ TypeOK'
      BY <2>3, LoadType DEF load_program
    <3>2. HeapStart' \in Nat /\ HeapLimit' \in Nat /\ HeapStart' <= HeapLimit'
      <4>1. Len(program'.insns) \in Nat
        BY <3>1 DEF TypeOK, ControlOK, Program
      <4> QED
        BY <4>1, IsaAssumption DEF HeapStart, HeapLimit, StackLimit, StackStart
    <3>3. heap_ptr' <= HeapLimit'
      BY <3>1, <3>2
    <3> QED
      BY <3>1, <3>3 DEF HeapTiled
  <2>4. CASE set_register \/ seed_tensor \/ UNCHANGED vars
    BY <2>1, <2>4 DEF set_register, set_register_to, seed_tensor, vars, mem, frames
  <2> QED
    BY <2>2, <2>3, <2>4 DEF Next
<1> QED
  BY <1>1, <1>2, TypeCorrect, PTL DEF Spec


-----------------------------------------------------------------------------
(* The stack frames.                                                       *)

\* An instruction that runs is one of the program's.
LEMMA FetchedOpcode ==
  ASSUME TypeOK, Fetched
  PROVE  /\ insn.opcode \in Opcodes(program)
         /\ \E k \in DOMAIN program.insns : insn = program.insns[k]
<1>1. pc + 1 \in DOMAIN program.insns
  BY InsnType DEF TypeOK, ControlOK, Program
<1> QED
  BY <1>1 DEF Opcodes, insn

\* Where the stack below frame k starts.
Ceiling(k) == IF k = 1 THEN StackLimit ELSE stack_frames[k - 1].addr

\* Without a Pop, sp only ever moves within the newest frame's bound.
LEMMA StackMoveNests ==
  ASSUME TypeOK, FramesNest, program' = program, StackFramesMove
  PROVE  FramesNest'
<1> SUFFICES ASSUME "Pop" \notin Opcodes(program)
             PROVE  FramesNest'
  BY DEF FramesNest
<1> DEFINE n == Len(stack_frames)
<1>1. StackLimit' = StackLimit /\ StackLimit \in Nat
  BY LayoutType DEF TypeOK, StackLimit, StackStart
<1>2. stack_frames \in Seq(FrameRecord) /\ sp \in Nat /\ n \in Nat
      /\ DOMAIN stack_frames = 1 .. n
  BY SequenceEnds DEF TypeOK, FramesOK
<1>3. \A k \in 1 .. n : stack_frames[k].addr \in Nat /\ stack_frames[k].size \in Nat \ {0}
  <2>1. \A k \in 1 .. n : stack_frames[k] \in FrameRecord
    BY <1>2, SequenceEnds
  <2> QED
    BY <2>1 DEF FrameRecord
<1>4. /\ \A k \in 1 .. n : stack_frames[k].addr + stack_frames[k].size <= Ceiling(k)
      /\ sp <= IF stack_frames = <<>> THEN StackLimit ELSE Last(stack_frames).addr
  BY <1>2 DEF FramesNest, Ceiling
<1>5. sp <= Ceiling(n + 1)
  BY <1>2, <1>4 DEF Ceiling, Last
<1>6. CASE Push /\ sp' = sp - 1 /\ UNCHANGED stack_frames
  <2>1. sp' <= IF stack_frames = <<>> THEN StackLimit ELSE Last(stack_frames).addr
    <3>1. (IF stack_frames = <<>> THEN StackLimit ELSE Last(stack_frames).addr) \in Nat
      BY <1>1, <1>2, FrameTypes
    <3> QED
      BY <1>2, <1>4, <1>6, <3>1
  <2> QED
    BY <1>1, <1>2, <1>4, <1>6, <2>1 DEF FramesNest, Ceiling
<1>7. CASE Pop
  BY <1>7, FetchedOpcode DEF Pop, Fetch
<1>8. CASE StackAlloc /\ insn.b > 0 /\ sp' = sp - insn.b
           /\ stack_frames' = Append(stack_frames, Frame(sp - insn.b, insn.b))
  <2>1. insn.b \in Nat \ {0} /\ sp - insn.b \in Nat
    BY <1>2, <1>8, InsnType DEF StackAlloc, Fetch, TypeOK, Int64
  <2>2. Frame(sp - insn.b, insn.b) \in FrameRecord
    BY <2>1 DEF Frame, FrameRecord
  <2>3. /\ stack_frames' \in Seq(FrameRecord) /\ Len(stack_frames') = n + 1
        /\ stack_frames'[n + 1] = Frame(sp - insn.b, insn.b)
        /\ \A k \in 1 .. n : stack_frames'[k] = stack_frames[k]
    BY <1>2, <1>8, <2>2, SequenceEnds
  <2>4. DOMAIN stack_frames' = 1 .. (n + 1) /\ stack_frames' # <<>>
        /\ Last(stack_frames') = Frame(sp - insn.b, insn.b)
    BY <1>2, <2>3 DEF Last
  <2>5. ASSUME NEW k \in 1 .. (n + 1)
        PROVE  stack_frames'[k].addr + stack_frames'[k].size
                 <= IF k = 1 THEN StackLimit ELSE stack_frames'[k - 1].addr
    <3>1. k # 1 => k - 1 \in 1 .. n
      BY <1>2
    <3>2. stack_frames'[k].addr + stack_frames'[k].size <= Ceiling(k)
      <4>1. CASE k \in 1 .. n
        BY <1>4, <2>3, <4>1
      <4>2. CASE k = n + 1
        <5>1. stack_frames'[k].addr + stack_frames'[k].size = sp
          BY <1>2, <2>1, <2>3, <4>2 DEF Frame
        <5> QED
          BY <1>5, <4>2, <5>1
      <4> QED
        BY <1>2, <4>1, <4>2
    <3> QED
      BY <2>3, <3>1, <3>2 DEF Ceiling
  <2>6. sp' <= Last(stack_frames').addr
    BY <1>8, <2>1, <2>4 DEF Frame
  <2> QED
    BY <1>1, <2>4, <2>5, <2>6 DEF FramesNest
<1>9. CASE StackFree /\ stack_frames # <<>> /\ stack_frames' = Front(stack_frames)
           /\ sp' = AfterFree(Last(stack_frames))
  <2>1. /\ n > 0 /\ stack_frames' \in Seq(FrameRecord) /\ Len(stack_frames') = n - 1
        /\ \A k \in 1 .. (n - 1) : stack_frames'[k] = stack_frames[k]
        /\ Last(stack_frames) = stack_frames[n]
    BY <1>2, <1>9, SequenceEnds
  <2>2. DOMAIN stack_frames' = 1 .. (n - 1) /\ (stack_frames' = <<>> <=> n = 1)
        /\ (n # 1 => Last(stack_frames') = stack_frames[n - 1])
    BY <1>2, <2>1 DEF Last
  <2>3. sp' <= Ceiling(n)
    <3>1. sp <= stack_frames[n].addr /\ stack_frames[n].addr + stack_frames[n].size <= Ceiling(n)
      BY <1>2, <1>4, <1>9, <2>1
    <3>2. stack_frames[n].addr \in Nat /\ stack_frames[n].size \in Nat /\ Ceiling(n) \in Nat
      BY <1>1, <1>2, <1>3, <2>1 DEF Ceiling
    <3>3. sp' = sp + stack_frames[n].size
      BY <1>9, <2>1 DEF AfterFree
    <3> QED
      BY <1>2, <3>1, <3>2, <3>3
  <2>4. sp' <= IF stack_frames' = <<>> THEN StackLimit ELSE Last(stack_frames').addr
    BY <2>2, <2>3 DEF Ceiling
  <2>5. ASSUME NEW k \in 1 .. (n - 1)
        PROVE  stack_frames'[k].addr + stack_frames'[k].size
                 <= IF k = 1 THEN StackLimit ELSE stack_frames'[k - 1].addr
    <3>1. k \in 1 .. n /\ (k # 1 => k - 1 \in 1 .. (n - 1))
      BY <1>2
    <3> QED
      BY <1>4, <2>1, <3>1 DEF Ceiling
  <2> QED
    BY <1>1, <2>2, <2>4, <2>5 DEF FramesNest
<1> QED
  BY <1>6, <1>7, <1>8, <1>9 DEF StackFramesMove

\* In a program without Pop, the frames StackAlloc pushes never overlap and
\* never leave the stack, and sp stays at or below the newest one: Push moves
\* sp down, StackFree gives back no more than its frame's words.
THEOREM FramesAlwaysNest == Spec => []FramesNest
<1>1. Init => FramesNest
  <2> SUFFICES ASSUME Init PROVE FramesNest
    OBVIOUS
  <2>1. TypeOK
    BY InitType
  <2> QED
    BY <2>1, LayoutType DEF Init, Loaded, FramesNest, TypeOK
<1>2. TypeOK /\ FramesNest /\ [Next]_vars => FramesNest'
  <2> SUFFICES ASSUME TypeOK, FramesNest, [Next]_vars
               PROVE  FramesNest'
    OBVIOUS
  <2>1. ASSUME program' = program, UNCHANGED <<sp, stack_frames>>
        PROVE  FramesNest'
    BY <2>1 DEF FramesNest, StackLimit, StackStart
  <2>2. CASE step
    BY <2>1, <2>2, StepKeeps, StackMoveNests
  <2>3. CASE load_program
    <3>1. stack_frames' = <<>> /\ sp' = StackLimit' /\ TypeOK'
      BY <2>3, LoadType DEF load_program
    <3>2. sp' <= StackLimit'
      BY <3>1 DEF TypeOK, FramesOK
    <3> QED
      BY <3>1, <3>2 DEF FramesNest
  <2>4. CASE set_register \/ seed_tensor \/ UNCHANGED vars
    BY <2>1, <2>4 DEF set_register, set_register_to, seed_tensor, vars, mem, frames
  <2> QED
    BY <2>2, <2>3, <2>4 DEF Next
<1> QED
  BY <1>1, <1>2, TypeCorrect, PTL DEF Spec

-----------------------------------------------------------------------------
(* The validator and the interpreter.                                      *)

\* validate_program and the interpreter's switch agree: what the first accepts
\* the second finds in range, the opcodes of UncheckedB aside.
LEMMA AcceptedOperands ==
  ASSUME TypeOK, Fetched, Accepted, Opcodes(program) \cap UncheckedB = {}
  PROVE  OperandsInRange(insn) /\ ~LostResult
<1>1. PICK k \in DOMAIN program.insns : insn = program.insns[k]
  BY FetchedOpcode
<1>2. ValidInsn(insn, Len(program.insns))
  BY <1>1 DEF Accepted, validate_program, NoTrap
<1>3. insn.opcode \notin UncheckedB
  BY FetchedOpcode
<1>4. insn.opcode \in {"Inc", "Dec", "Cmp", "Call", "AxSet", "Push", "Pop", "StackFree", "HeapFree"}
        => insn.a \in Regs
  BY <1>2 DEF ValidInsn, ChecksA, ChecksB, FrameOps
<1>5. insn.opcode \in UsesB => insn.b \in Regs
  BY <1>2, <1>3 DEF ValidInsn, UsesB, UsesC, ChecksB, ChecksC, UncheckedB
<1>6. insn.opcode \in UsesC => insn.c \in Regs
  BY <1>2 DEF ValidInsn, UsesC, ChecksC
<1> QED
  BY <1>2, <1>4, <1>5, <1>6 DEF OperandsInRange, IndexesA, IndexesB, IndexesC, LostResult, ValidInsn

\* No program the validator accepts makes the interpreter index the register
\* file out of bounds, whatever path it takes through its code and whatever
\* the host writes to registers, if it uses none of Neg, I2F, F2I, I2Frac and
\* Frac2I, whose source register the validator does not check.
THEOREM AcceptedAlwaysSafe == Spec => []AcceptedIsSafe
<1>1. Init => AcceptedIsSafe
  BY DEF Init, Loaded, AcceptedIsSafe
<1>2. TypeOK /\ AcceptedIsSafe /\ [Next]_vars => AcceptedIsSafe'
  <2> SUFFICES ASSUME TypeOK, AcceptedIsSafe, [Next]_vars
               PROVE  AcceptedIsSafe'
    OBVIOUS
  <2>1. CASE step
    <3>1. program' = program /\ (undefined' = "register" => LostResult \/ UndefinedRead)
      BY <2>1, StepKeeps
    <3>2. UndefinedRead => Fetched /\ ~OperandsInRange(insn)
      BY DEF UndefinedRead
    <3>3. LostResult => Fetched
      BY DEF LostResult
    <3> QED
      BY <3>1, <3>2, <3>3, AcceptedOperands DEF AcceptedIsSafe, Accepted
  <2>2. CASE load_program
    BY <2>2 DEF load_program, AcceptedIsSafe
  <2>3. CASE set_register \/ seed_tensor \/ UNCHANGED vars
    BY <2>3 DEF set_register, set_register_to, seed_tensor, vars, AcceptedIsSafe, Accepted
  <2> QED
    BY <2>1, <2>2, <2>3 DEF Next
<1> QED
  BY <1>1, <1>2, TypeCorrect, PTL DEF Spec

-----------------------------------------------------------------------------
(* The stack pointer.                                                      *)

\* In a program that does not both pop and free frames, sp stays inside the
\* stack; without a Pop, so does the end of every frame.
StackBelow ==
  /\ ~({"Pop", "StackFree"} \subseteq Opcodes(program)) => sp <= StackLimit
  /\ "Pop" \notin Opcodes(program) =>
       \A k \in DOMAIN stack_frames : stack_frames[k].addr + stack_frames[k].size <= StackLimit

LEMMA StackMoveBelow ==
  ASSUME TypeOK, StackBelow, FramesNest, program' = program, StackFramesMove
  PROVE  StackBelow'
<1> DEFINE n == Len(stack_frames)
           Ends(frame) == frame.addr + frame.size
<1>1. StackLimit' = StackLimit /\ StackLimit \in Nat /\ sp \in Nat
  BY LayoutType DEF TypeOK, FramesOK, StackLimit, StackStart
<1>2. stack_frames \in Seq(FrameRecord) /\ n \in Nat /\ DOMAIN stack_frames = 1 .. n
  BY SequenceEnds DEF TypeOK, FramesOK
<1>3. CASE Push /\ sp' = sp - 1 /\ UNCHANGED stack_frames
  BY <1>1, <1>3 DEF StackBelow
<1>4. CASE Pop /\ UNCHANGED stack_frames
  <2>1. sp < StackLimit /\ sp' = sp + 1 /\ "Pop" \in Opcodes(program)
    BY <1>4, FetchedOpcode DEF Pop, Fetch, StackHasWord
  <2> QED
    BY <1>1, <2>1 DEF StackBelow
<1>5. CASE StackAlloc /\ insn.b > 0 /\ sp' = sp - insn.b
           /\ stack_frames' = Append(stack_frames, Frame(sp - insn.b, insn.b))
  <2>1. insn.b \in Nat \ {0} /\ sp - insn.b \in Nat
    BY <1>1, <1>5, InsnType DEF StackAlloc, Fetch, TypeOK, Int64
  <2>2. Frame(sp - insn.b, insn.b) \in FrameRecord
        /\ Ends(Frame(sp - insn.b, insn.b)) = sp
    BY <1>1, <2>1 DEF Frame, FrameRecord
  <2>3. /\ stack_frames' \in Seq(FrameRecord) /\ Len(stack_frames') = n + 1
        /\ stack_frames'[n + 1] = Frame(sp - insn.b, insn.b)
        /\ \A k \in 1 .. n : stack_frames'[k] = stack_frames[k]
    BY <1>2, <1>5, <2>2, SequenceEnds
  <2>4. \A k \in DOMAIN stack_frames' : k \in 1 .. n \/ k = n + 1
    BY <1>2, <2>3
  <2>5. "Pop" \notin Opcodes(program) =>
          \A k \in DOMAIN stack_frames' : Ends(stack_frames'[k]) <= StackLimit
    BY <1>2, <2>2, <2>3, <2>4 DEF StackBelow
  <2> QED
    BY <1>1, <1>5, <2>1, <2>5 DEF StackBelow
<1>6. CASE StackFree /\ stack_frames # <<>> /\ stack_frames' = Front(stack_frames)
           /\ sp' = AfterFree(Last(stack_frames))
  <2>0. stack_frames \in Seq(FrameRecord) /\ stack_frames # <<>>
    BY <1>2, <1>6
  <2>a. n > 0 /\ n \in DOMAIN stack_frames
    BY <1>2, <2>0, EmptySeq
  <2>b. /\ stack_frames' \in Seq(FrameRecord) /\ Len(stack_frames') = n - 1
        /\ \A k \in 1 .. (n - 1) : stack_frames'[k] = stack_frames[k]
        /\ Last(stack_frames) = stack_frames[n]
    BY <1>6, <2>0, SequenceEnds
  <2>c. stack_frames[n] \in FrameRecord
    BY <1>2, <2>a
  <2>1. /\ n > 0 /\ stack_frames' \in Seq(FrameRecord) /\ Len(stack_frames') = n - 1
        /\ \A k \in 1 .. (n - 1) : stack_frames'[k] = stack_frames[k]
        /\ Last(stack_frames) = stack_frames[n] /\ stack_frames[n] \in FrameRecord
    BY <2>a, <2>b, <2>c
  <2>2. "StackFree" \in Opcodes(program)
    BY <1>6, FetchedOpcode DEF StackFree, Fetch
  <2>3. ASSUME "Pop" \notin Opcodes(program)
        PROVE  sp' <= StackLimit
    <3>1. sp <= stack_frames[n].addr /\ Ends(stack_frames[n]) <= StackLimit
      BY <1>2, <1>6, <2>1, <2>3 DEF StackBelow, FramesNest
    <3>2. sp' = sp + stack_frames[n].size
      BY <1>6, <2>1 DEF AfterFree
    <3> QED
      BY <1>1, <2>1, <3>1, <3>2 DEF FrameRecord
  <2>4. \A k \in DOMAIN stack_frames' : k \in 1 .. (n - 1) /\ k \in DOMAIN stack_frames
    BY <1>2, <2>1
  <2> QED
    BY <1>1, <2>1, <2>2, <2>3, <2>4 DEF StackBelow
<1> QED
  BY <1>3, <1>4, <1>5, <1>6 DEF StackFramesMove

\* A push lands in memory as long as sp is in the stack.
LEMMA PushLands ==
  ASSUME TypeOK, StackBelow, PushBeyondMemory
  PROVE  {"Pop", "StackFree", "Push"} \subseteq Opcodes(program)
<1>1. "Push" \in Opcodes(program)
  BY FetchedOpcode DEF PushBeyondMemory, Fetch
<1>2. ~(sp <= StackLimit)
  <2>1. sp \in Nat /\ sp - 1 >= StackStart /\ sp - 1 \notin Addresses(program)
    BY DEF PushBeyondMemory, StackHasRoom, TypeOK, FramesOK, MemoryOK
  <2>2. StackStart \in Nat /\ StackLimit \in Nat /\ StackLimit <= MetaLimit
        /\ Addresses(program) = 0 .. (MetaLimit - 1)
    BY LayoutType, IsaAssumption DEF TypeOK, MetaLimit, TensorLimit, HeapLimit, HeapStart
  <2>3. MetaLimit \in Nat
    BY LayoutType DEF TypeOK
  <2> QED
    BY <2>1, <2>2, <2>3
<1> QED
  BY <1>1, <1>2 DEF StackBelow

\* Pops alone, or frees alone, never take sp past the end of the stack: what
\* push_register relies on without checking it.
THEOREM StackAlwaysBelow == Spec => []StackBelow
<1>1. Init => StackBelow
  <2> SUFFICES ASSUME Init PROVE StackBelow
    OBVIOUS
  <2>1. TypeOK
    BY InitType
  <2> QED
    BY <2>1, LayoutType DEF Init, Loaded, StackBelow, TypeOK
<1>2. TypeOK /\ FramesNest /\ StackBelow /\ [Next]_vars => StackBelow'
  <2> SUFFICES ASSUME TypeOK, FramesNest, StackBelow, [Next]_vars
               PROVE  StackBelow'
    OBVIOUS
  <2>1. ASSUME program' = program, UNCHANGED <<sp, stack_frames>>
        PROVE  StackBelow'
    BY <2>1 DEF StackBelow, StackLimit, StackStart
  <2>2. CASE step
    BY <2>1, <2>2, StepKeeps, StackMoveBelow
  <2>3. CASE load_program
    <3>1. stack_frames' = <<>> /\ sp' = StackLimit' /\ TypeOK'
      BY <2>3, LoadType DEF load_program
    <3>2. sp' <= StackLimit'
      BY <3>1 DEF TypeOK, FramesOK
    <3> QED
      BY <3>1, <3>2 DEF StackBelow
  <2>4. CASE set_register \/ seed_tensor \/ UNCHANGED vars
    BY <2>1, <2>4 DEF set_register, set_register_to, seed_tensor, vars, mem, frames
  <2> QED
    BY <2>2, <2>3, <2>4 DEF Next
<1> QED
  BY <1>1, <1>2, TypeCorrect, FramesAlwaysNest, PTL DEF Spec

\* push_register's check of the stack's lower end is enough in every program
\* that lacks one of Push, Pop and StackFree: none of these writes outside
\* memory, for every segment size.  A program with all three can.
THEOREM PushAlwaysInMemory == Spec => []PushStaysInMemory
<1>1. Init => PushStaysInMemory
  BY DEF Init, Loaded, PushStaysInMemory
<1>2. TypeOK /\ StackBelow /\ PushStaysInMemory /\ [Next]_vars => PushStaysInMemory'
  <2> SUFFICES ASSUME TypeOK, StackBelow, PushStaysInMemory, [Next]_vars
               PROVE  PushStaysInMemory'
    OBVIOUS
  <2>1. CASE step
    BY <2>1, StepKeeps, PushLands DEF PushStaysInMemory
  <2>2. CASE load_program
    BY <2>2 DEF load_program, PushStaysInMemory
  <2>3. CASE set_register \/ seed_tensor \/ UNCHANGED vars
    BY <2>3 DEF set_register, set_register_to, seed_tensor, vars, PushStaysInMemory
  <2> QED
    BY <2>1, <2>2, <2>3 DEF Next
<1> QED
  BY <1>1, <1>2, TypeCorrect, StackAlwaysBelow, PTL DEF Spec

=============================================================================
