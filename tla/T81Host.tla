------------------------------ MODULE T81Host ------------------------------
(***************************************************************************)
(* The programs around the VM, each with a VM of its own: an embedder that   *)
(* goes through the C interface, an embedder in C++, and the command line.   *)
(* run_to_halt is taken apart into its iterations; the other calls return at *)
(* once.                                                                   *)
(***************************************************************************)
EXTENDS T81Properties, T81ProgramIo

CONSTANTS
  Files,          \* files the command line may be given
  EmbedderFiles,  \* files an embedder may load, again and again
  Budgets         \* values of max_steps

ASSUME FilesAssumption ==
  /\ NoProgram \in Programs
  /\ Files \subseteq ProgramFile
  /\ EmbedderFiles \subseteq Files
  /\ Budgets \subseteq Nat
  /\ \A f \in Files : Reading(f).verdict = "ok" => Reading(f).program \in Reloadable

VARIABLES
  caller,     \* "c", "cpp" or "main"
  phase,      \* "idle" between calls, "run" inside run_to_halt; "exited" and
              \* "terminated" end the process, "lost" is undefined behaviour
  remaining,  \* iterations left to run_to_halt
  returned,   \* the call that returned last, and its status
  last_trap,  \* of the C handle
  exit_code,  \* of main
  file,       \* history: the file loaded last
  unlogged    \* history: the last fault no trace entry tells, and how long the
              \* trace was when a call returned it

hostvars == <<caller, phase, remaining, returned, last_trap, exit_code, file, unlogged>>

Embedding == phase = "idle" /\ caller # "main"

NoFile == File(FALSE, FALSE, "none", <<>>)
Result(call, status) == [call |-> call, status |-> status]
Unlogged(status, at) == [status |-> status, at |-> at]

-----------------------------------------------------------------------------
(* Statuses.  kStatusHalted and DecodeFault share a number.                 *)

kStatusOk == 0
kStatusHalted == 1
kStatusParseFault == -2

TrapNumbers == <<"DecodeFault", "TypeFault", "BoundsFault", "StackFault", "DivisionFault",
                 "SecurityFault", "ShapeFault", "TrapInstruction">>
trap_to_status(code) ==
  IF code = NoTrap THEN 0 ELSE CHOOSE k \in DOMAIN TrapNumbers : TrapNumbers[k] = code

\* How the step that was made last ended.
Outcome == IF trace = <<>> THEN NoTrap ELSE Last(trace).trap

-----------------------------------------------------------------------------
HostInit ==
  /\ program = NoProgram /\ Loaded
  /\ caller \in {"c", "cpp", "main"}
  /\ phase = "idle" /\ remaining = 0
  /\ returned = Result("none", 0) /\ last_trap = 0 /\ exit_code = 0
  /\ file = NoFile /\ unlogged = Unlogged(0, 0)

\* t81vm_load_file, or the two loads of an embedder in C++.
LoadImage(f) ==
  /\ program' = Reading(f).program
  /\ load_program
  /\ file' = f /\ unlogged' = Unlogged(0, 0)

LoadAccepted ==
  /\ Embedding
  /\ \E f \in EmbedderFiles : Reading(f).verdict = "ok" /\ LoadImage(f)
  /\ returned' = Result("load", kStatusOk)
  /\ last_trap' = 0
  /\ UNCHANGED <<caller, phase, remaining, exit_code>>

\* The VM keeps the program it has.
LoadRefused ==
  /\ Embedding
  /\ \E f \in EmbedderFiles : Reading(f).verdict = "error"
  /\ returned' = Result("load", kStatusParseFault)
  /\ last_trap' = IF caller = "c" THEN trap_to_status("DecodeFault") ELSE last_trap
  /\ unlogged' = Unlogged(trap_to_status("DecodeFault"), Len(trace))
  /\ UNCHANGED <<vars, caller, phase, remaining, exit_code, file>>

\* An exception leaves the loader before anything has changed; an embedder that
\* does not catch it makes no further call.
LoadThrows ==
  /\ Embedding
  /\ \E f \in EmbedderFiles : Reading(f).verdict = "throw"
  /\ returned' = Result("throw", 0)
  /\ UNCHANGED <<vars, caller, phase, remaining, last_trap, exit_code, file, unlogged>>

\* set_register and what the tests put into the pools; not offered in C.
HostWrite ==
  /\ Embedding /\ caller = "cpp"
  /\ set_register \/ seed_tensor
  /\ UNCHANGED hostvars

-----------------------------------------------------------------------------
(* A call that has made a step, or stopped.                                *)

\* Mutant of Raise: the handle is told of a DecodeFault whatever the trap.
Raise_decode(call, code) ==
  /\ returned' = Result(call, trap_to_status(code))
  /\ last_trap' = IF caller = "c" THEN trap_to_status("DecodeFault") ELSE last_trap

Raise(call, code) ==
  /\ returned' = Result(call, trap_to_status(code))
  /\ last_trap' = IF caller = "c" THEN trap_to_status(code) ELSE last_trap

Quiet(call, status) == returned' = Result(call, status) /\ UNCHANGED last_trap

\* Mutant of StepResult: a halt is not told.
StepResult_silent(code, stopped) ==
  IF code # NoTrap THEN Raise("step", code) ELSE Quiet("step", kStatusOk)

\* What t81vm_step makes of the step's outcome.
StepResult(code, stopped) ==
  IF code # NoTrap THEN Raise("step", code)
  ELSE Quiet("step", IF stopped THEN kStatusHalted ELSE kStatusOk)

StepCall ==
  /\ Embedding
  /\ step
  /\ IF undefined' = "none"
     THEN StepResult(Outcome', halted') /\ UNCHANGED phase
     ELSE phase' = "lost" /\ UNCHANGED <<returned, last_trap>>
  /\ UNCHANGED <<caller, remaining, exit_code, file, unlogged>>

\* step() of a halted VM succeeds and does nothing.
StepHalted ==
  /\ Embedding /\ halted
  /\ StepResult(NoTrap, TRUE)
  /\ UNCHANGED <<vars, caller, phase, remaining, exit_code, file, unlogged>>

\* (Bound: the model's trace has room for the whole budget.)
RunCall ==
  /\ Embedding
  /\ remaining' \in {n \in Budgets : Len(trace) + n <= MaxTrace}
  /\ phase' = "run"
  /\ UNCHANGED <<vars, caller, returned, last_trap, exit_code, file, unlogged>>

-----------------------------------------------------------------------------
(* run_to_halt.                                                            *)

\* run_to_halt returns; the command line exits.
Return(code) ==
  /\ IF code = NoTrap THEN Quiet("run", kStatusOk) ELSE Raise("run", code)
  /\ IF caller = "main"
     THEN phase' = "exited" /\ exit_code' = IF code = NoTrap THEN 0 ELSE 1
     ELSE phase' = "idle" /\ UNCHANGED exit_code

\* Mutant of RunIteration: nothing is taken off the budget.
RunIteration_free ==
  /\ phase = "run" /\ remaining > 0
  /\ step
  /\ IF undefined' # "none"
     THEN phase' = "lost" /\ UNCHANGED <<returned, last_trap, exit_code>>
     ELSE IF Outcome' # NoTrap \/ halted' THEN Return(Outcome')
     ELSE UNCHANGED <<phase, returned, last_trap, exit_code>>
  /\ UNCHANGED <<caller, remaining, file, unlogged>>

\* Mutant of RunIteration: a halt is noticed in the next iteration.
RunIteration_late ==
  /\ phase = "run" /\ remaining > 0
  /\ step
  /\ remaining' = remaining - 1
  /\ IF undefined' # "none"
     THEN phase' = "lost" /\ UNCHANGED <<returned, last_trap, exit_code>>
     ELSE IF Outcome' # NoTrap THEN Return(Outcome')
     ELSE UNCHANGED <<phase, returned, last_trap, exit_code>>
  /\ UNCHANGED <<caller, file, unlogged>>

\* One iteration makes a step and looks at its outcome, then at the halted bit.
RunIteration ==
  /\ phase = "run" /\ remaining > 0
  /\ step
  /\ remaining' = remaining - 1
  /\ IF undefined' # "none"
     THEN phase' = "lost" /\ UNCHANGED <<returned, last_trap, exit_code>>
     ELSE IF Outcome' # NoTrap \/ halted' THEN Return(Outcome')
     ELSE UNCHANGED <<phase, returned, last_trap, exit_code>>
  /\ UNCHANGED <<caller, file, unlogged>>

\* The first iteration finds the VM halted already.
RunHalted ==
  /\ phase = "run" /\ remaining > 0 /\ halted
  /\ Return(NoTrap)
  /\ UNCHANGED <<vars, caller, remaining, file, unlogged>>

\* The loop ends; the error is returned without a trap in the machine.
RunExhausted ==
  /\ phase = "run" /\ remaining = 0
  /\ Return("TrapInstruction")
  /\ unlogged' = Unlogged(trap_to_status("TrapInstruction"), Len(trace))
  /\ UNCHANGED <<vars, caller, remaining, file>>

RunLoop == RunIteration \/ RunHalted \/ RunExhausted

-----------------------------------------------------------------------------
(* main, up to run_to_halt: options, file, load.                           *)

Exit(code) == phase' = "exited" /\ exit_code' = code

\* --canonical-bigint, -fraction or -tensor with a text: main prints the text and
\* runs nothing.
MainConverts ==
  /\ caller = "main" /\ phase = "idle"
  /\ Exit(0)
  /\ UNCHANGED <<vars, caller, remaining, returned, last_trap, file, unlogged>>

MainUsage ==
  /\ caller = "main" /\ phase = "idle"
  /\ Exit(2)
  /\ UNCHANGED <<vars, caller, remaining, returned, last_trap, file, unlogged>>

MainRefuses ==
  /\ caller = "main" /\ phase = "idle"
  /\ \E f \in Files : Reading(f).verdict = "error"
  /\ Exit(1)
  /\ UNCHANGED <<vars, caller, remaining, returned, last_trap, file, unlogged>>

\* Nothing catches the exception.
MainTerminates ==
  /\ caller = "main" /\ phase = "idle"
  /\ \E f \in Files : Reading(f).verdict = "throw"
  /\ phase' = "terminated"
  /\ UNCHANGED <<vars, caller, remaining, returned, last_trap, exit_code, file, unlogged>>

MainRuns ==
  /\ caller = "main" /\ phase = "idle"
  /\ \E f \in Files : Reading(f).verdict = "ok" /\ LoadImage(f)
  /\ remaining' \in Budgets \cap 1 .. MaxTrace
  /\ phase' = "run"
  /\ UNCHANGED <<caller, returned, last_trap, exit_code>>

-----------------------------------------------------------------------------
Embedder == LoadAccepted \/ LoadRefused \/ LoadThrows \/ HostWrite \/ StepCall
              \/ StepHalted \/ RunCall
Main == MainConverts \/ MainUsage \/ MainRefuses \/ MainTerminates \/ MainRuns

HostNext == Embedder \/ Main \/ RunLoop

\* run_to_halt is a loop in one thread: as long as it can go on, it does.  What
\* the host calls next, and whether it calls again, is its own affair.
HostSpec == HostInit /\ [][HostNext]_<<vars, hostvars>> /\ WF_<<vars, hostvars>>(RunLoop)

-----------------------------------------------------------------------------
(* What the callers can rely on.                                           *)

\* Status and halted together tell a host how the call that returned last ended,
\* although 1 means both "halted" and DecodeFault: a step's status is that of the
\* entry it added unless the VM is halted; run_to_halt succeeds only on a halted
\* VM, and otherwise returns the last entry's trap on a VM that is not halted, or
\* has used up its budget, told as TrapInstruction (a budget of 0 even when halted).
HostCanTell ==
  phase # "run" /\ undefined = "none" =>
    CASE returned.call = "step" ->
           returned.status = IF halted THEN kStatusHalted ELSE trap_to_status(Outcome)
      [] returned.call = "run" ->
           \/ returned.status = kStatusOk /\ halted
           \/ returned.status = trap_to_status(Outcome) /\ Outcome # NoTrap /\ ~halted
           \/ returned.status = trap_to_status("TrapInstruction") /\ remaining = 0
      [] returned.call = "load" /\ returned.status = kStatusOk -> trace = <<>> /\ ~halted
      [] OTHER -> TRUE

\* t81vm_last_trap outlives successful steps: between calls it is the trap of the
\* last entry that trapped since the load, whatever completed after it; or, if a
\* load was refused or a budget used up after that entry, what that call returned;
\* and 0 if neither has happened.
LastTrapFollowsTrace ==
  caller = "c" /\ phase = "idle" =>
    LET k == SelectLastInSeq(trace, LAMBDA e : ~Completed(e))
    IN  last_trap = IF unlogged.status # 0 /\ k <= unlogged.at THEN unlogged.status
                    ELSE IF k = 0 THEN 0
                    ELSE trap_to_status(trace[k].trap)

\* The exit code and the TRAP_PAYLOAD line of the command line tell what became
\* of the program: 0 for one that halted with no trap in its trace, and when a
\* conversion was asked for and nothing loaded; 1 with a payload for one whose last
\* instruction trapped, and no other; 1 without for a file that was refused and
\* for a budget used up; 2 when nothing was run.
ExitCodeTells ==
  phase = "exited" =>
    CASE exit_code = 0 ->
           /\ halted <=> file # NoFile
           /\ IF file = NoFile THEN trace = <<>> ELSE \A k \in DOMAIN trace : Completed(trace[k])
      [] exit_code = 1 /\ last_trap_payload # NoPayload ->
           /\ ~halted /\ last_trap_payload.trap = Outcome
           /\ \A k \in DOMAIN trace : Completed(trace[k]) = (k < Len(trace))
      [] exit_code = 1 /\ last_trap_payload = NoPayload ->
           ~halted /\ remaining = 0 /\ \A k \in DOMAIN trace : Completed(trace[k])
      [] exit_code = 2 -> trace = <<>> /\ file = NoFile

\* Both formats map to one program model: whatever loads were tried, refused or
\* broken off since, the VM holds the program the file loaded last stands for,
\* if that file is well written.
LoadedAsWritten ==
  file # NoFile /\ WellWritten(file) => program = Meaning(file)

\* The loader's smoke test wants accepted programs not to hang: run_to_halt
\* returns whatever program it was given, unless the program runs into
\* undefined behaviour.
RunReturns == phase = "run" ~> phase # "run"

-----------------------------------------------------------------------------
(* What the documents say and the code does not do.                        *)

\* SPEC.md, 3A.1: an instruction line is an opcode and three integers, so no text
\* program with any other line is accepted.
TextFollowsGrammar ==
  ~file.json => \A k \in DOMAIN Insns(file) : \A n \in 1 .. 3 : Clean(Insns(file)[k].operands[n])

=============================================================================
