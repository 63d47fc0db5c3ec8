# A TLA+ model of t81-vm

`t81-vm` is a small deterministic virtual machine: it loads a TISC program,
validates it, interprets it one instruction per `step()`, and leaves a trace, an
audit log and a trap payload for replay and parity checks. The modules here
model the file loaders, the validator, the interpreter, the C interface, the
command line and the state hash, state what a reader of their outputs may
conclude, check that with TLC on small instances, and prove the central
properties with TLAPS for every instance.

Paths below are relative to the repository root.

## 1. The system

| Component | Source | State | Operations |
|---|---|---|---|
| Instruction set | `include/t81/tisc/*.hpp`, `include/t81/vm/{traps,state}.hpp` | none | opcodes, traps, tags, words |
| Validator | `src/vm/validator.cpp` | none | `validate_program` |
| Loader | `src/vm/loader.cpp` | none | `load_program_image`: memory layout, policy tier, validator verdict |
| Interpreter | `src/vm/vm.cpp` | `State`, `call_stack_`, `steps_`, `preload_trap_`, the write latch `current_write_*` | `load_program`, `step`, `run_to_halt`, `set_register` |
| Value pools | `src/vm/vm.cpp:584-723, 915-984` | option, result, enum, tensor and shape pools | constructors and readers, handles |
| Policy and audit | `src/vm/vm.cpp:321-358, 570-577, 894-913` | `policy`, `axion_log` | guarded instructions |
| Tensor instructions | `src/vm/vm.cpp:359-569` | tensor and shape pools | 12 opcodes |
| C interface | `src/vm/c_api.cpp` | `last_trap` of a handle | load, step, run, observe |
| Command line | `src/vm/main.cpp` | none | one load, one run, an exit code |
| Program formats | `src/vm/program_io.cpp` | none | text and JSON loaders |
| Snapshots | `src/vm/summary.cpp` | none | `state_hash`, `snapshot_summary` |
| Contract and parity checks | `scripts/`, `.github/` | none | compare files and outputs |

**How they interact.** A host (the C interface, the command line, a test) reads a
file, calls `load_program`, then `step` or `run_to_halt`, and between steps may
write registers with `set_register`, put tensors into the pools (as the tensor test
does), or load another program into the same machine. `load_program`
validates the program but never refuses it: the verdict is armed in
`preload_trap_` and reported by the first `step`. A trap returns an error to the
host and changes neither `pc` nor `halted`, so the host may step again. Nothing
runs concurrently; what makes the machine hard is the length and order of the
calls and instructions, and the pieces of state that shadow each other:

- the call stack, which no observer shows, against the trace;
- `sp`, moved by `Push`, `Pop`, `StackAlloc` and `StackFree`, against the list of
  live frames, which only the last two maintain;
- registers and their tags against the pools their handles name;
- the shape of a tensor against the number of its elements, and against the `size_t`
  products the loops run to;
- the write latch against the instruction whose trace entry reports it;
- the validator's table of operands against the interpreter's use of them;
- the trap payload, the audit log and the GC counter against the trace;
- the policy the machine holds against the text of the program loaded last;
- a status, `last_trap` and the exit code against what the machine did;
- one machine after a history of programs against a fresh one.

**What makes each part correct.** Control flow stays in the program and the trace
is a path of it; a trap changes nothing but the record of it; heap blocks and
stack frames do not overlap or leave their segment; a handle names a value; what
the validator accepts is defined; the observers agree with one another and with
what a caller is told; a reload leaves nothing behind; a file means one program in
both formats.

Each of these is a hazard listed in `PROJECT.json` at the line where it bites.

## 2. Modules

```
T81Isa         opcodes, traps, tags, words, the registers an opcode indexes
T81Validator   validate_program
T81Machine     the interpreter's state, step()'s prologue, trace_ok, trap, the layout
T81Flow    T81Scalar    T81Memory    T81Values    T81Axion    one family each
T81Tensor      the tensor instructions, on top of the value pools
T81Vm          Init, load_program, set_register, seed_tensor, step, Next, Spec, TypeOK
T81Control     abstract: instructions commit one at a time, faults are precise
T81Properties  what the observers promise; T81Vm implements T81Control
T81Summary     state_hash
T81Replay      two machines, one with a history and one fresh, given the same calls
T81ProgramIo   program files and the two loaders
T81Host        run_to_halt, the C interface, a C++ embedder and the command line
MCT81Vm  MCT81Replay  MCT81Host    instances for TLC

T81TypeProofs     types                                   on T81Properties
T81SafetyProofs   memory, frames, operands                on T81TypeProofs
T81TraceProofs    how a step ends; trace, log, payload    on T81SafetyProofs
T81ControlProofs  refinement; call stack, stack words     on T81TraceProofs
T81ValueProofs    handles, tensors, scalar results        on T81TraceProofs
T81ReplayProofs   replays                                 on T81TraceProofs and T81Replay
T81HostProofs     the callers                             on T81TraceProofs and T81Host
T81FoldProofs     folds over sequences, instantiated by the three modules that need them
```

Each module EXTENDS the ones it builds on. One `VARIABLE` stands for one field of
`State` or of `Interpreter`; `current_write` stands for the three
`current_write_*_` members. A handler of the `switch` in `step()` is one action
for its completion and one for each kind of trap; an action is the whole handler:
`Fetch` is the prologue that let it through, `Retire`/`Complete` the GC tick and
the trace entry, `Produce` the register write with its flags and latch,
`Fault`/`QuietFault` the tick and the trap. Opcodes that share a case in the
`switch`, or a body, share an action.

`T81Vm` lets a host make any call at any moment. `T81Host` composes it with the
three programs that call it: each action of an embedder is one call of the C or
C++ interface, with the status it returns; `run_to_halt` is the one call that is
taken apart, into one action per iteration of its loop; `main` is its load, its run
and the exit. `T81Replay` composes two copies of the VM: one lives through any
calls, then both are given the same program and the same calls.

Choices that are not a direct transcription:

- **Words.** `Int64` is `-Half .. Half-1`. Signed overflow is undefined in C++, and the
  build (`-O2`, no `-fwrapv`, no sanitizer; `Makefile:4`) promises nothing of it: the
  instruction completes, `Words` allows any word in the register, and the flags come from
  that word or from the exact result. `INT64_MIN / -1` may also bring the process down
  (`undefined = "division"`). Worse than that, a compiler may do in principle; a wrong
  word and wrong flags are what straight-line arithmetic produces. `Wrap` is the
  cast of an address, a handle or a code position from `size_t`, which C++ defines.
- **Undefined accesses.** A register index outside the file, a push beyond memory, or a
  tensor loop past the elements, sets `undefined` and stops the model: nothing after it
  can be said.
  `IndexesA`, `IndexesB` and `UsesC` say which handlers index what before they
  can trap. What such an access might corrupt is not modelled. In `T81Host` the
  caller's phase becomes `lost`.
- **Policy text** is reduced to the tier `parse_policy` finds, or none. `program.tier` is
  what the text of the loaded program says, `policy` is `State.policy`, which the guarded
  instructions read; `load_program` sets the one from the other.
- **Audit events** keep their opcode, kind, decision and segment, not their wording.
- **The trap payload** keeps everything but the `detail` text.
- **An opcode byte no enumerator names** (`IllegalOpcode`) can only come from a host
  that builds the program in memory.
- **A tensor** is its shape and the number of its elements. No instruction reads an
  element into a register or branches on one, so the values change nothing else. `Dim` and
  `Elements` are the casts and products in `size_t` (modulo `2 * Half`): a negative or
  huge dimension can pass the shape checks with a product that wrapped around, and then the
  loops of `TMatMul` and `TTranspose` leave the elements (`Overruns`, `TensorOverrun`).
  Overflow of the elements' own arithmetic and an allocation that fails are left out.
  No instruction makes a first tensor or a shape: `seed_tensor` appends them to
  the pools and hands out the handle, as `tests/cpp/vm_tensor_test.cpp:30-43` does.
- **A file** is a list of statements: an instruction with its operand words, a policy,
  a comment. An operand word is an integer of any size, one with something attached to
  it (`1.5`), two integers run together (`1-2`, which the text loader reads as two),
  something that is no number, or missing. Layout, comment text and spelling
  (case, `_`, `-`) are left out; aliases are kept. A JSON file may also lack its brackets
  or the brace of its last object. `IntMax` is the largest `int`: a longer tier makes
  `std::stoi` throw.
- **`state_hash`** is the tuple of what the hash mixes in, in its order: two states
  hash alike if their tuples are equal, and collisions are ignored.
- **History.** Two variables of `T81Host` have no counterpart in the code and no action's
  guard reads them: `file`, the file loaded last, and `unlogged`, the last fault a call
  returned without a trace entry (a refused load, a used-up budget) and how long the trace
  was then. `LoadedAsWritten`, `ExitCodeTells` and `LastTrapFollowsTrace` need them.
- **Conversions** of the command line (`--canonical-bigint` and its like) print their
  argument and exit with 0, with nothing loaded (`MainConverts`).
- **Getters** of the C interface read the state and change nothing; a null handle or
  path changes nothing either.

## 3. Abstract specification

`T81Control` leaves the instruction set out. Its state is the length of the
program, the next instruction, a stack of return addresses, a stop bit, an opaque
`work` and the list of outcomes. An instruction commits by advancing, stopping,
branching, entering or leaving; all but the first leave `work` alone. A fault adds
an outcome and changes nothing else. After a stop nothing commits or faults until a
restart. `T81Properties!ImplementsControl` instantiates it with `at <- pc`,
`stack <- call_stack`, `stopped <- halted`, `outcomes <-` the trace's outcomes, and
`work <-` flags, registers, tags, memory, `sp`, `heap_ptr`, frames and pools (the audit
log, the GC counter and the latch move with faults too, and are not part of it).
The refinement checks, for every handler, where it leads (the next instruction, the
call stack, the stop bit) and which kind of step it is. That a trap leaves registers,
memory and pools alone is how `trap` is written, from a reading of each handler: every
one tests what it may trap on before it writes, so this part of docs/architecture.md:38
(state transitions are committed atomically per instruction) is read off the source and
not put to the test. `T81Host` in turn implements `T81Vm` (section 6).

## 4. Runs

The runs over `MCT81Vm` use `Spec`: a fresh machine with any program of the run's set,
built as all programs up to a length over an alphabet plus a few longer ones picked
by shape: the eleven-instruction program that walks `sp` out of memory, one that takes
and gives back the whole stack twice, every constructor followed by two readers.

| Run | Instance | Shows |
|---|---|---|
| `instructions` | up to 4 of 10 control-flow instructions; up to 4 of 9 value instructions, each constructor before each pair of readers; up to 2 tensor instructions on 9 seeds; guarded instructions | types; the abstract control machine is implemented; the trace is a path; the call stack is the one the trace implies; handles resolve; a tensor has as many elements as its shape announces, and no loop leaves them |
| `memory` | up to 5 of 6 frame and word operations; up to 5 of 6 block operations; stores over every address; a forged handle, and tensors with negative, empty and overflowing shapes | words conserved; frames nest unless a `Pop` intervenes; only `Pop` with `StackFree` and `Push` leaves memory; live blocks tile the heap |
| `host` | two machines; traps, halts, values, guarded and logged instructions under three policies; tensors with negative, empty and overflowing shapes; register writes, further steps and reloads by the host | payload, audit log and GC ticks agree with the trace; the policy text of the program loaded last decides; handles resolve across reloads; a replay agrees with a fresh machine |
| `operands` | every scalar opcode on boundary words; operands out of range in every position | quotients, remainders and trits against their definitions; the trace's annotations rebuild the registers; what is accepted is safe, five opcodes aside |
| `session` | a C embedder and a C++ embedder over 8 files in any order, the command line over every file of up to 3 good statements and every pair with an odd one, in both formats, damaged and not; budgets 0, 1 and 3 | statuses, `last_trap` and the exit code tell the truth; the machine holds the program the last accepted file stands for; `run_to_halt` returns |

**Replay.** `ReplaysAgree` says what `state_hash` cannot say alone, because the hash
leaves out flags, tags, `sp`, the frames, the pools, the call stack and the audit log:
after any history, the reloaded machine agrees with the fresh one on those too. The
one difference it allows is the one `stale_write` shows: the trace entry of a trap
raised by the prologue carries the write latch, which `load_program` does not clear.
While the trace has such an entry the hashes may differ, and only then.

The remaining runs each find one statement of the repository's documents violated:

| Run | Document | What the code does |
|---|---|---|
| `accepted_defined` | SPEC.md:60, operand domains are validated | operand `b` of `Neg`, `I2F`, `F2I`, `I2Frac`, `Frac2I` is not |
| `rejected_runs` | SPEC.md:21, malformed bytecode is rejected before execution | the first `step` reports the verdict and disarms it, the second executes |
| `push_escapes` | SPEC.md:140, out-of-segment access traps | `sp` leaves the stack and `Push` writes the heap |
| `stale_write` | SPEC.md:20, identical inputs give identical results | a trace entry carries the previous program's write |
| `division_crash` | SPEC.md:24, no undefined arithmetic | the smallest word divided by -1 |
| `overflow` | README.md:5, overflow-safe arithmetic; SPEC.md:185, a trap for it | a sum, difference, product or negation overflows and completes with another word |
| `text_operands` | SPEC.md:82, an instruction line has three integers | a missing, malformed or too large operand is made up |

One more statement of the documents is visible in the model without a run:
SPEC.md:130 calls the code segment read-only and `Store` accepts its addresses.

**Bounds.** Two or three registers are enough to tell source from destination; segments of
one to four words let a frame fill, overflow and leave its segment;
`MaxTrace`, which stops a step once the trace is that long, is at least the length of
the programs of a run, so that every program can be executed, and in `instructions` and
`memory` longer, so that loops, calls and traps repeat. In `session` a call of
`run_to_halt` starts only if the trace has room for its whole budget (`RunCall`), so the
bound never cuts a run short. Handles, addresses and code positions all fit the small
words, whose width is chosen so that they do and so that `operands` reaches overflow;
`seed_tensor` makes at most as many tensors and shapes as there are registers, and
`MaxTraceAssumption` keeps `MaxTrace + RegCount` below `Half`, so that no handle of a
bounded run wraps (in the code a handle is 64 bits wide);
`IntMax = 20` lies between the tiers that are read and the one that is not, `Half = 32`
between the operands that fit and those that do not. `GcInterval = 2` ticks several
times in a run. Host writes and reloads are offered where a run is about them and
kept out of the others, whose programs would only be multiplied by them.

**Deadlock** is not checked: a halted machine, a trace at its bound, a process that
exited and an undefined access legitimately stop, and a host may always stop calling.

**Fairness.** `HostSpec` assumes weak fairness of `RunLoop`, the loop of `run_to_halt`,
and of nothing else. The loop runs in one thread, waits for nothing and calls nobody: as
long as an iteration is possible the thread makes it. What a host calls next, and
whether it ever calls again, is assumed nowhere. Under it `RunReturns` holds because the
budget is spent one step at a time, whatever the program does.

## 5. What the callers can rely on

The statuses need care, and `T81Host` states what survives:

- `HostCanTell`: the status 1 means both "halted" and `DecodeFault`; with `t81vm_halted`
  beside it the status is unambiguous after every call, in any order of calls. A run with
  budget 0 returns `TrapInstruction` even on a halted machine.
- `LastTrapFollowsTrace`: `last_trap` is not cleared by a step that succeeds. It is the
  trap of the last trace entry that trapped, whatever completed since; if a load was
  refused or a budget used up after that entry, it is what that call returned
  (`DecodeFault`, `TrapInstruction`), until the next trap or load; and 0 if there was
  neither.
- `ExitCodeTells`: 0 for a program that halted without a trap, or for a conversion, with
  nothing loaded; the payload line appears exactly when the last instruction trapped; a
  fault without it is a refused file or a used-up budget; 2 when no program was loaded.
- `LoadedAsWritten`: a file SPEC.md allows is loaded as the same program by both formats,
  and a load that is refused or throws leaves the machine with the program it had. Files
  that are not well written are where the formats part (`text_operands`): the text
  loader clamps and invents, the JSON loader refuses or throws; the last policy line counts
  in one, the first in the other.

## 6. Proofs

Every invariant and every refinement a passing run checks is also a theorem, for every
value of the constants (three of them under a hypothesis named below); only the liveness
property is not. Lemmas are not listed, the fold lemmas of `T81FoldProofs` among them.

| Theorem | Module | States |
|---|---|---|
| `TypeCorrect` | `T81TypeProofs` | `Spec => []TypeOK` |
| `HeapAlwaysTiled` | `T81SafetyProofs` | `Spec => []HeapTiled` |
| `FramesAlwaysNest` | `T81SafetyProofs` | `Spec => []FramesNest` |
| `AcceptedAlwaysSafe` | `T81SafetyProofs` | `Spec => []AcceptedIsSafe` |
| `PushAlwaysInMemory` | `T81SafetyProofs` | `Spec => []PushStaysInMemory` |
| `PreloadAlwaysArmed` | `T81TraceProofs` | `Spec => []PreloadArmed` |
| `PolicyAlwaysDecides` | `T81TraceProofs` | `Spec => []PolicyDecides` |
| `GcAlwaysFollows` | `T81TraceProofs` | `Spec => []GcFollowsTrace` |
| `LogAlwaysFollows` | `T81TraceProofs` | `Spec => []LogFollowsTrace` |
| `TraceAlwaysAPath` | `T81TraceProofs` | `Spec => []TraceIsAPath` |
| `PayloadAlwaysMatches` | `T81TraceProofs` | `Spec => []PayloadMatchesTrace` |
| `ControlRefined` | `T81ControlProofs` | `Spec => ImplementsControl` |
| `CallStackAlwaysMatches` | `T81ControlProofs` | `Spec => []CallStackMatchesTrace` |
| `StackAlwaysConserved` | `T81ControlProofs` | `Spec => []StackConservation` |
| `HandlesAlwaysResolve` | `T81ValueProofs` | `Spec => []HandlesResolve` |
| `TensorsAlwaysWellFormed` | `T81ValueProofs` | `Spec => []TensorsWellFormed` |
| `TraceAlwaysExplains` | `T81ValueProofs` | `Spec => []TraceExplainsRegisters` |
| `TritsAlwaysFold` | `T81ValueProofs` | `Spec => []TritsFold` |
| `QuotientsAlwaysTruncate` | `T81ValueProofs` | `Spec => []QuotientsTruncate` |
| `ReplayAlwaysAgrees` | `T81ReplayProofs` | `ReplaySpec /\ [][SameBuild]_both => []ReplaysAgree` |
| `HostImplementsVm` | `T81HostProofs` | `HostSpec => Spec` |
| `HostKeepsVm` | `T81HostProofs` | `HostSpec => [](TypeOK /\ HeapTiled)` |
| `HostAlwaysCanTell` | `T81HostProofs` | `HostSpec => []HostCanTell` |
| `LastTrapAlwaysFollows` | `T81HostProofs` | `HostSpec => []LastTrapFollowsTrace` |
| `ExitCodeAlwaysTells` | `T81HostProofs` | `HostSpec => []ExitCodeTells` |
| `LoadedAlwaysAsWritten` | `T81HostProofs` | `HostSpec => []LoadedAsWritten` |

**Assumptions.** The theorems hold for every set of programs and files, every segment size,
register count and word width, every host write, seed and reload. They rest on what the
modules name: sizes are positive (`IsaAssumption`); the trace bound with the register count,
and every program's memory, fit a word (`MaxTraceAssumption`, `ProgramsAssumption`); host
writes and seeds are well typed (`HostWritesAssumption`, `HostSeedsAssumption`); the files
are lists of statements, and the programs read from them are among the programs considered
(`FilesAssumption`). In the code these are constants, 64-bit sizes and C++ types. Three
theorems have a hypothesis of their own, stated in the property or beside it, because they
are false without it:

- `HandlesResolve` asks that the host does not tag a made-up word as a handle, and
  `TensorsWellFormed` that the tensors it provides have no negative dimension and as many
  elements as their shape announces, and that no product of two dimensions of its matrices
  overflows a `size_t`: nothing in the code checks any of these. The runs `host` and `memory` have seeds
  that break the second hypothesis, and reach the undefined reads that follow.
- `TraceExplainsRegisters` is about programs without `Inc`, `Dec` and `Pop`, which write
  registers the trace does not report, and hosts that write none.
- `ReplaysAgree` needs `SameBuild`: where a replayed instruction overflows, both machines
  leave the same registers and flags, or both die of it. The model leaves the outcome of an
  overflow open, separately for each machine; a build makes one choice. A program that
  overflows parts the machines of `ReplaySpec` otherwise, and does not under `SameBuild`.
  The programs of the run `host` do not overflow, so the run needs no hypothesis.

**Arguments.**

- `TypeOK` is inductive as it stands. The content is in the ranges the code relies on
  without checking: `pc` in `0 .. n` (a return address may be `n`, and the
  prologue catches it), `sp` never below the stack, so that `Push` and `StackAlloc`
  may subtract, memory exactly as large as the layout, so that `valid_mem` guards
  every access. The proof has one lemma per family, and below it the lemmas for the
  helpers all handlers end in.
- *Memory.* `HeapTiled`, `FramesNest` and `AcceptedIsSafe` are inductive relative to `TypeOK`.
  `StepKeeps` says once, over all actions, what can move `sp`, `heap_ptr` and the
  frames and how `undefined` can become `"register"`; `HeapMoveTiles` and
  `StackMoveNests` then treat the four moves; `AcceptedOperands` is the agreement between
  the validator's table and the interpreter's. `PushStaysInMemory` is not inductive: it
  needs `StackBelow`, which bounds `sp` by the end of the stack in a program that lacks one of
  `Pop` and `StackFree`, and the end of every frame too in one without `Pop`.
- *Observers.* `StepEnds` says how any step ends: an instruction completes, traps, is
  rejected by the prologue, or the program runs into undefined behaviour, and what each of
  these does to trace, payload, log, GC counter, `pc` and call stack. `NextCases` adds loads
  and host calls. Everything about the trace is proved by these few cases and not by the
  forty actions again. On top of them each property needs its own strengthening:
  `PreloadArmed` (the verdict is armed exactly while the trace is empty) tells the executed
  entries from the rejected one; `StepsCount` makes the step counter the number of executed
  entries, from which the ticks follow by division; `PolicyBound` says that the policy the
  machine holds is the tier of the program loaded last, which every load establishes and no
  other step touches, so that `PolicyDecides` is about the program's text; `LogFollowsTrace` numbers the entries to
  be reported by `ReportsUpTo`, a cardinality that grows by one; `PathInv` adds that every
  word on the call stack is behind an earlier call; `PayloadNamesLastTrap` names the last
  trap by its place in the trace where the property searches for it.
- *Control.* `ControlRefined` maps initial states to initial states and every step to a step
  of `T81Control` or a stutter, relative to `TypeOK`. One lemma for `Retire` and one for the
  faults carry the trace to the outcomes; one lemma per family then names the
  abstract step each handler is. `CallStackMatchesTrace` and `StackConservation` are folds
  over the trace and the frames.
- *Folds.* What a fold computes is data, and induction over it is not available as a rule.
  `T81FoldProofs` gets it from well-foundedness of the natural numbers without the rule that
  takes a predicate as a parameter: a sequence on which `FoldLeft` were not the function it
  unfolds to would have a prefix that is the shortest such, and it is not. The module has the
  operator and the base as constants: the call stack, the words of the frames, the shape's
  product and what the loaders keep of a file are six instances of it.
- *Values.* `HandleInv` carries the handles of registers and pools together: pools only
  grow, a handle is the position of the value appended with it, and every other register
  write copies a word with its tag or tags it `Int`. `PoolsCounted`, which bounds the
  pools by the length of the trace, keeps handles below `Half`. `TensorInv` adds to the
  number of elements that a matrix's dimensions are among those of the host's matrices
  (`HostDims`), without which products and transposes of sound tensors need not be sound;
  `SoundWithinBounds` draws from it that no loop leaves the elements. `LastComputed`
  remembers the operands of the last scalar instruction while its result register stands;
  the two properties of results then follow from arithmetic.
- *Replays.* `SameRun` and `SameTrace` say that two machines agree on everything but the
  latch and what the prologue's trap entries show of it. A lemma per family shows that both
  take the same step from there; that they take the same disjunct of it follows from the
  guards, because an opcode belongs to one family (`FamiliesDisjoint`) and the guards within
  a family exclude each other. `LoadsTogether` is the reload: everything is reset.
- *Callers.* `HostImplementsVm` maps every step of a caller to a call of the machine or to
  none, so that every theorem about `Spec` holds inside the C interface and the command
  line. `HostCanTell`, `LastTrapFollowsTrace` and `ExitCodeTells` follow from invariants that
  relate the status in flight to how `StepEnds` says the last step ended. `HandleKeeps` splits
  on `Fresh`, nothing has trapped since the fault no entry tells, in which case the handle
  holds that fault, and holds the trace's last trap otherwise; `MainInv` adds what `main`
  knows before it runs; `LoadedAsWritten` from `HoldsFile`, the file the machine holds, and from
  `KeepInsn`, `KeepTier` and `KeepWord`, which are folds over the statements of a file.

**Only model-checked:** `RunReturns`, liveness under fairness, which is out of the prover's
reach. The seven violations are TLC's counterexamples.

## 7. What is left

To model: an abstract stack of frames that `T81Memory` implements in programs without
`Pop`. To prove: that refinement; the safety half of `RunReturns`, a bound on the iterations
of `run_to_halt`; the properties of the machine inside its callers beyond the two that
`HostKeepsVm` names, which follow from `HostImplementsVm` in the same way.

**Not modelled**, for good:

- the element-wise floating-point arithmetic of tensors: no control or integer state
  depends on it;
- what the elements of a tensor become when their own arithmetic overflows, and an
  allocation that fails for a huge tensor: the first changes no other state, the second is
  where memory runs out;
- the text of snapshots and of the command line's output, and the options that choose
  between outputs of a run: wording, no state;
- the hash's bit mixing: a property of it would be one of collisions;
- how the loaders skip blanks, quotes and comments inside a line or an object: the model
  starts from statements;
- the scripts and the CI, which compare files and outputs and keep no state;
- exhaustion of memory by a program that loops without a budget: `MaxTrace` stands there.
