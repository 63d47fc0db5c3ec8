----------------------------- MODULE T81Memory -----------------------------
(***************************************************************************)
(* Loads and stores, the word stack, and the stack and heap allocators.    *)
(***************************************************************************)
EXTENDS T81Machine, SequencesExt

\* A frame is the (address, size) pair an allocator pushed.
Frame(addr, size) == [addr |-> addr, size |-> size]

BoundsFault(code, segment) == Fault(code, segment) /\ Log("bounds", segment)

-----------------------------------------------------------------------------
Load ==
  /\ Fetch({"Load"})
  /\ valid_mem(insn.b)
  /\ Produce(memory[insn.b], "Int")
  /\ UNCHANGED <<frames, pools, axion_log>>

LoadOutside == Fetch({"Load"}) /\ ~valid_mem(insn.b) /\ BoundsFault("BoundsFault", "unknown")

\* Any mapped address may be stored to, the code segment included.
Store ==
  /\ Fetch({"Store"})
  /\ valid_mem(insn.a)
  /\ memory' = [memory EXCEPT ![insn.a] = registers[insn.b]]
  /\ Log("access", segment_of(insn.a))
  /\ pc' = pc + 1
  /\ Complete(NoWrite)
  /\ UNCHANGED <<flags, call_stack, regs, frames, pools>>

StoreOutside == Fetch({"Store"}) /\ ~valid_mem(insn.a) /\ BoundsFault("BoundsFault", "unknown")

-----------------------------------------------------------------------------
\* push_register compares sp with the start of the stack only: once sp is
\* past the end of the stack, the word lands in another segment, or outside
\* memory altogether.
Push ==
  /\ Fetch({"Push"})
  /\ StackHasRoom
  /\ sp - 1 \in DOMAIN memory
  /\ sp' = sp - 1
  /\ memory' = [memory EXCEPT ![sp - 1] = registers[insn.a]]
  /\ pc' = pc + 1
  /\ Complete(NoWrite)
  /\ UNCHANGED <<flags, call_stack, regs, heap_ptr, stack_frames, heap_frames, pools, axion_log>>

PushBeyondMemory ==
  /\ Fetch({"Push"})
  /\ StackHasRoom
  /\ sp - 1 \notin DOMAIN memory
  /\ undefined' = "memory"
  /\ UNCHANGED <<program, policy, pc, halted, flags, call_stack, regs, mem, pools, trace, axion_log,
                 last_trap_payload, steps, gc_cycles, preload_trap, current_write>>

PushFull == Fetch({"Push"}) /\ ~StackHasRoom /\ BoundsFault("StackFault", "stack")

\* Like Inc, Pop leaves no write in the trace entry.
Pop ==
  /\ Fetch({"Pop"})
  /\ StackHasWord
  /\ registers' = [registers EXCEPT ![insn.a] = memory[sp]]
  /\ register_tags' = [register_tags EXCEPT ![insn.a] = "Int"]
  /\ sp' = sp + 1
  /\ flags' = SignOf(memory[sp])
  /\ pc' = pc + 1
  /\ Complete(NoWrite)
  /\ UNCHANGED <<call_stack, memory, heap_ptr, stack_frames, heap_frames, pools, axion_log>>

PopEmpty == Fetch({"Pop"}) /\ ~StackHasWord /\ BoundsFault("StackFault", "stack")

-----------------------------------------------------------------------------
\* A frame freed must be the last one allocated, named by address and size.
\* A negative address register converts to a huge size_t.
Matches(top) == Wrap(top.addr) = registers[insn.a] /\ top.size = insn.b
FreesTop(live) == live # <<>> /\ Matches(Last(live))

StackAlloc ==
  /\ Fetch({"StackAlloc"})
  /\ insn.b > 0
  /\ insn.b <= sp /\ sp - insn.b >= StackStart
  /\ sp' = sp - insn.b
  /\ stack_frames' = Append(stack_frames, Frame(sp - insn.b, insn.b))
  /\ ProduceWith(Wrap(sp - insn.b), "Int", flags)
  /\ Log("allocated", "stack")
  /\ UNCHANGED <<heap_ptr, heap_frames, pools>>

StackAllocFault ==
  /\ Fetch({"StackAlloc"})
  /\ \/ insn.b <= 0 /\ QuietFault("StackFault", "stack")
     \/ /\ insn.b > 0
        /\ insn.b > sp \/ sp - insn.b < StackStart
        /\ BoundsFault("StackFault", "stack")

\* Mutants of AfterFree: sp returns to an empty stack; the words are added twice.
AfterFree_empty(top) == StackLimit
AfterFree_twice(top) == sp + 2 * top.size

\* The freed words are added to sp, wherever Push and Pop have moved it.
AfterFree(top) == sp + top.size

StackFree ==
  /\ Fetch({"StackFree"})
  /\ FreesTop(stack_frames)
  /\ stack_frames' = Front(stack_frames)
  /\ sp' = AfterFree(Last(stack_frames))
  /\ Log("freed", "stack")
  /\ pc' = pc + 1
  /\ Complete(NoWrite)
  /\ UNCHANGED <<flags, call_stack, regs, memory, heap_ptr, heap_frames, pools>>

StackFreeFault ==
  /\ Fetch({"StackFree"})
  /\ ~FreesTop(stack_frames)
  /\ QuietFault("StackFault", "stack")

HeapAlloc ==
  /\ Fetch({"HeapAlloc"})
  /\ insn.b > 0
  /\ heap_ptr + insn.b <= HeapLimit
  /\ heap_ptr' = heap_ptr + insn.b
  /\ heap_frames' = Append(heap_frames, Frame(heap_ptr, insn.b))
  /\ ProduceWith(Wrap(heap_ptr), "Int", flags)
  /\ Log("allocated", "heap")
  /\ UNCHANGED <<sp, stack_frames, pools>>

HeapAllocFault ==
  /\ Fetch({"HeapAlloc"})
  /\ \/ insn.b <= 0 /\ QuietFault("DecodeFault", "heap")
     \/ /\ insn.b > 0
        /\ heap_ptr + insn.b > HeapLimit
        /\ BoundsFault("BoundsFault", "heap")

\* Mutant of AfterHeapFree: the block stays allocated.
AfterHeapFree_kept(top) == top.addr + top.size

\* The bump pointer returns to the block's address.
AfterHeapFree(top) == top.addr

\* Mutant of HeapFree: the program counter is not advanced.
HeapFree_stuck ==
  /\ Fetch({"HeapFree"})
  /\ FreesTop(heap_frames)
  /\ heap_frames' = Front(heap_frames)
  /\ heap_ptr' = AfterHeapFree(Last(heap_frames))
  /\ Log("freed", "heap")
  /\ Complete(NoWrite)
  /\ UNCHANGED <<pc, flags, call_stack, regs, memory, sp, stack_frames, pools>>

HeapFree ==
  /\ Fetch({"HeapFree"})
  /\ FreesTop(heap_frames)
  /\ heap_frames' = Front(heap_frames)
  /\ heap_ptr' = AfterHeapFree(Last(heap_frames))
  /\ Log("freed", "heap")
  /\ pc' = pc + 1
  /\ Complete(NoWrite)
  /\ UNCHANGED <<flags, call_stack, regs, memory, sp, stack_frames, pools>>

HeapFreeFault ==
  /\ Fetch({"HeapFree"})
  /\ ~FreesTop(heap_frames)
  /\ QuietFault("DecodeFault", "heap")

Memory ==
  \/ Load \/ LoadOutside \/ Store \/ StoreOutside
  \/ Push \/ PushBeyondMemory \/ PushFull \/ Pop \/ PopEmpty
  \/ StackAlloc \/ StackAllocFault \/ StackFree \/ StackFreeFault
  \/ HeapAlloc \/ HeapAllocFault \/ HeapFree \/ HeapFreeFault

=============================================================================
