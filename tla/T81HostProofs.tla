--------------------------- MODULE T81HostProofs ---------------------------
(***************************************************************************)
(* The programs around the VM use it through its own operations only, so     *)
(* what holds of the VM under any host holds of it inside the C interface    *)
(* and the command line; and what the callers read off it, statuses, the    *)
(* handle's last trap and the exit code, is what the trace says.            *)
(***************************************************************************)
EXTENDS T81Host, T81TraceProofs

\* What the loaders keep of a file, and of a line's words.
KeptInsns == INSTANCE T81FoldProofs WITH Op <- KeepInsn, Base <- <<>>
KeptTiers == INSTANCE T81FoldProofs WITH Op <- KeepTier, Base <- <<>>
KeptWords == INSTANCE T81FoldProofs WITH Op <- KeepWord, Base <- <<>>

\* An image is loaded by load_program, whatever file it comes from.
LEMMA LoadIsCall ==
  ASSUME NEW f, LoadImage(f)
  PROVE  Next
  BY DEF LoadImage, Next

\* Every step of an embedder, of the command line or of run_to_halt is one of the
\* calls a host may make, or leaves the VM alone.
LEMMA HostStepIsVmStep ==
  ASSUME [HostNext]_<<vars, hostvars>>
  PROVE  [Next]_vars
<1>1. CASE UNCHANGED <<vars, hostvars>>
  BY <1>1
<1>2. CASE Embedder
  <2>1. CASE LoadAccepted
    BY <2>1, LoadIsCall DEF LoadAccepted
  <2>2. CASE LoadRefused
    BY <2>2 DEF LoadRefused
  <2>3. CASE LoadThrows
    BY <2>3 DEF LoadThrows
  <2>4. CASE HostWrite
    BY <2>4 DEF HostWrite, Next
  <2>5. CASE StepCall
    BY <2>5 DEF StepCall, Next
  <2>6. CASE StepHalted
    BY <2>6 DEF StepHalted
  <2>7. CASE RunCall
    BY <2>7 DEF RunCall
  <2>8. QED
    BY <1>2, <2>1, <2>2, <2>3, <2>4, <2>5, <2>6, <2>7 DEF Embedder
<1>3. CASE Main
  <2>1. CASE MainUsage
    BY <2>1 DEF MainUsage
  <2>2. CASE MainRefuses
    BY <2>2 DEF MainRefuses
  <2>3. CASE MainTerminates
    BY <2>3 DEF MainTerminates
  <2>4. CASE MainRuns
    BY <2>4, LoadIsCall DEF MainRuns
  <2>5. CASE MainConverts
    BY <2>5 DEF MainConverts
  <2>6. QED
    BY <1>3, <2>1, <2>2, <2>3, <2>4, <2>5 DEF Main
<1>4. CASE RunLoop
  <2>1. CASE RunIteration
    BY <2>1 DEF RunIteration, Next
  <2>2. CASE RunHalted
    BY <2>2 DEF RunHalted
  <2>3. CASE RunExhausted
    BY <2>3 DEF RunExhausted
  <2>4. QED
    BY <1>4, <2>1, <2>2, <2>3 DEF RunLoop
<1>5. QED
  BY <1>1, <1>2, <1>3, <1>4 DEF HostNext

\* The C interface, the C++ embedder and the command line implement the VM under
\* an arbitrary host: every theorem about the VM holds of them too.
THEOREM HostImplementsVm == HostSpec => Spec
<1>1. HostInit => Init
  BY FilesAssumption DEF HostInit, Init
<1>2. [HostNext]_<<vars, hostvars>> => [Next]_vars
  BY HostStepIsVmStep
<1>3. QED
  BY <1>1, <1>2, PTL DEF HostSpec, Spec

\* Files, statuses and budgets included, the VM inside its callers stays well
\* typed and its heap tiled.
THEOREM HostKeepsVm == HostSpec => [](TypeOK /\ HeapTiled)
  BY HostImplementsVm, TypeCorrect, HeapAlwaysTiled, PTL

-----------------------------------------------------------------------------
(* What a caller finds after a step.                                       *)

AllCompleted == \A k \in DOMAIN trace : Completed(trace[k])

\* The step that added entry e completed, and halted the machine or left the
\* payload alone, or it trapped, and the payload names the trap.
Reports(e) ==
  /\ trace' = Append(trace, e) /\ Outcome' = e.trap
  /\ \/ /\ Completed(e)
        /\ \/ halted' /\ last_trap_payload' = NoPayload
           \/ ~halted' /\ last_trap_payload' = last_trap_payload
     \/ /\ e.trap \in TrapCode /\ ~Completed(e)
        /\ ~halted' /\ last_trap_payload'.trap = e.trap /\ last_trap_payload' # NoPayload

\* The new entry is the outcome.
LEMMA OutcomeIsLast ==
  ASSUME TypeOK, TypeOK', NEW e, trace' = Append(trace, e)
  PROVE  Outcome' = e.trap
<1>1. trace' # <<>> /\ Len(trace') = Len(trace) + 1 /\ trace'[Len(trace) + 1] = e
  BY TraceGrows
<1> QED
  BY <1>1 DEF Outcome, Last

LEMMA StepReports ==
  ASSUME TypeOK, TypeOK', step
  PROVE  /\ ~halted /\ undefined = "none"
         /\ undefined' = "none" => \E e : Reports(e)
<1>1. CASE Lost
  BY <1>1 DEF Lost, Stepping
<1>2. ASSUME NEW e, trace' = Append(trace, e), e.trap \in TrapCode, UNCHANGED halted, ~halted,
             last_trap_payload'.trap = e.trap
      PROVE  Reports(e)
  <2>1. ~Completed(e) /\ last_trap_payload' # NoPayload
    BY <1>2 DEF Completed, TrapCode, NoTrap, NoPayload, Payload
  <2> QED
    BY <1>2, <2>1, OutcomeIsLast DEF Reports
<1>3. ASSUME NEW code \in TrapCode, Faults(code)
      PROVE  ~halted /\ undefined = "none" /\ \E e : Reports(e)
  <2>1. /\ trace' = Append(trace, Ran(NoWrite, code)) /\ Ran(NoWrite, code).trap = code
        /\ last_trap_payload'.trap = code /\ UNCHANGED halted /\ ~halted /\ undefined = "none"
    BY <1>3 DEF Faults, Handled, Ran, Entry, Names, Fetched, Stepping
  <2> QED
    BY <1>2, <2>1
<1>4. ASSUME NEW code \in TrapCode, Rejects(code)
      PROVE  ~halted /\ undefined = "none" /\ \E e : Reports(e)
  <2>1. PICK op : trace' = Append(trace, Entry(pc, op, current_write, code))
    BY <1>4 DEF Rejects
  <2>2. /\ Entry(pc, op, current_write, code).trap = code
        /\ last_trap_payload'.trap = code /\ UNCHANGED halted /\ ~halted /\ undefined = "none"
    BY <1>4 DEF Rejects, Entry, Names, Stepping
  <2> QED
    BY <1>2, <2>1, <2>2
<1>5. ASSUME NEW w, Completes(w)
      PROVE  ~halted /\ undefined = "none" /\ \E e : Reports(e)
  <2>1. /\ trace' = Append(trace, Ran(w, NoTrap)) /\ Completed(Ran(w, NoTrap))
        /\ ~halted /\ undefined = "none"
        /\ \/ halted' = TRUE /\ last_trap_payload' = NoPayload
           \/ UNCHANGED <<halted, last_trap_payload>>
    BY <1>5 DEF Completes, Handled, Ran, Entry, Completed, Fetched, Stepping
  <2> QED
    BY <2>1, OutcomeIsLast DEF Reports
<1> QED
  BY <1>1, <1>3, <1>4, <1>5, StepEnds DEF Ends

\* Trap statuses are the numbers 1 to 8; no trap is 0.
LEMMA StatusOfTrap ==
  /\ trap_to_status(NoTrap) = 0
  /\ \A code \in TrapCode : trap_to_status(code) \in 1 .. 8
<1>1. trap_to_status(NoTrap) = 0
  BY DEF trap_to_status
<1>2. ASSUME NEW code \in TrapCode
      PROVE  trap_to_status(code) \in 1 .. 8
  <2>1. \E k \in DOMAIN TrapNumbers : TrapNumbers[k] = code
    BY DEF TrapNumbers, TrapCode
  <2>2. DOMAIN TrapNumbers = 1 .. 8 /\ code # NoTrap
    BY DEF TrapNumbers, TrapCode, NoTrap
  <2> QED
    BY <2>1, <2>2 DEF trap_to_status
<1> QED
  BY <1>1, <1>2

-----------------------------------------------------------------------------
(* Statuses.                                                               *)

\* Between calls, a caller of the C interface that has the status and the halted
\* bit knows how the call ended, after any mixture of steps, runs, refused loads
\* and host writes: although 1 is both "halted" and DecodeFault, a step that
\* trapped never leaves a halted VM, and a run that succeeds always does.
THEOREM HostAlwaysCanTell == HostSpec => []HostCanTell
<1>1. HostInit => HostCanTell
  BY DEF HostInit, HostCanTell, Result
<1>2. TypeOK /\ TypeOK' /\ HostCanTell /\ [HostNext]_<<vars, hostvars>> => HostCanTell'
  <2> SUFFICES ASSUME TypeOK, TypeOK', HostCanTell, [HostNext]_<<vars, hostvars>>
               PROVE  HostCanTell'
    OBVIOUS
  <2>1. ASSUME UNCHANGED <<halted, trace, undefined, returned, remaining>>, phase # "run"
        PROVE  HostCanTell'
    BY <2>1 DEF HostCanTell, Outcome
  <2>2. CASE UNCHANGED <<vars, hostvars>>
    BY <2>2 DEF vars, hostvars, HostCanTell, Outcome
  <2>3. CASE Embedder
    <3>1. CASE LoadAccepted
      <4>1. trace' = <<>> /\ halted' = FALSE /\ returned' = Result("load", kStatusOk)
        BY <3>1 DEF LoadAccepted, LoadImage, load_program
      <4> QED
        BY <4>1 DEF HostCanTell, Result
    <3>2. CASE LoadRefused \/ LoadThrows
      BY <3>2 DEF LoadRefused, LoadThrows, HostCanTell, Result, kStatusParseFault, kStatusOk
    <3>3. CASE HostWrite
      BY <2>1, <3>3 DEF HostWrite, Embedding, set_register, set_register_to, seed_tensor, hostvars
    <3>4. CASE StepCall
      <4> SUFFICES ASSUME undefined' = "none"
                   PROVE  HostCanTell'
        BY DEF HostCanTell
      <4>1. StepResult(Outcome', halted') /\ \E e : Reports(e)
        BY <3>4, StepReports DEF StepCall
      <4>2. Outcome' # NoTrap => ~halted'
        BY <4>1 DEF Reports, Completed
      <4>3. CASE Outcome' # NoTrap
        BY <4>1, <4>2, <4>3 DEF StepResult, Raise, HostCanTell, Result
      <4>4. CASE Outcome' = NoTrap
        BY <4>1, <4>4, StatusOfTrap DEF StepResult, Quiet, HostCanTell, Result, kStatusOk
      <4> QED
        BY <4>3, <4>4
    <3>5. CASE StepHalted
      BY <3>5 DEF StepHalted, StepResult, Quiet, HostCanTell, Result, vars
    <3>6. CASE RunCall
      BY <3>6 DEF RunCall, HostCanTell
    <3> QED
      BY <2>3, <3>1, <3>2, <3>3, <3>4, <3>5, <3>6 DEF Embedder
  <2>4. CASE Main
    <3>1. CASE MainConverts \/ MainUsage \/ MainRefuses \/ MainTerminates
      BY <2>1, <3>1 DEF MainConverts, MainUsage, MainRefuses, MainTerminates, vars
    <3>2. CASE MainRuns
      BY <3>2 DEF MainRuns, HostCanTell
    <3> QED
      BY <2>4, <3>1, <3>2 DEF Main
  <2>5. CASE RunLoop
    <3>1. CASE RunIteration
      <4> SUFFICES ASSUME undefined' = "none", phase' # "run"
                   PROVE  HostCanTell'
        BY DEF HostCanTell
      <4>1. (Outcome' # NoTrap \/ halted') /\ Return(Outcome') /\ \E e : Reports(e)
        BY <3>1, StepReports DEF RunIteration
      <4>2. Outcome' # NoTrap => ~halted'
        BY <4>1 DEF Reports, Completed
      <4>3. CASE Outcome' # NoTrap
        BY <4>1, <4>2, <4>3 DEF Return, Raise, HostCanTell, Result
      <4>4. CASE Outcome' = NoTrap
        BY <4>1, <4>4 DEF Return, Quiet, HostCanTell, Result
      <4> QED
        BY <4>3, <4>4
    <3>2. CASE RunHalted
      BY <3>2 DEF RunHalted, Return, Quiet, HostCanTell, Result, vars
    <3>3. CASE RunExhausted
      BY <3>3 DEF RunExhausted, Return, Raise, HostCanTell, Result, NoTrap
    <3> QED
      BY <2>5, <3>1, <3>2, <3>3 DEF RunLoop
  <2> QED
    BY <2>2, <2>3, <2>4, <2>5 DEF HostNext
<1>3. HostSpec => []TypeOK
  BY HostKeepsVm, PTL
<1> QED
  BY <1>1, <1>2, <1>3, PTL DEF HostSpec

-----------------------------------------------------------------------------
(* The exit code.                                                          *)

\* The command line loads once, before it runs, and runs until something stops.
MainInv ==
  /\ phase = "exited" => caller = "main"
  /\ caller = "main" /\ phase = "idle" =>
       /\ trace = <<>> /\ ~halted /\ remaining = 0 /\ last_trap_payload = NoPayload
       /\ file = NoFile
  /\ caller = "main" /\ phase = "run" =>
       ~halted /\ last_trap_payload = NoPayload /\ AllCompleted /\ file # NoFile
  /\ ExitCodeTells

\* An iteration leaves nothing but completed entries behind, or ends in a trap.
LEMMA OneMoreEntry ==
  ASSUME TypeOK, TypeOK', AllCompleted, NEW e, trace' = Append(trace, e)
  PROVE  /\ Completed(e) => AllCompleted'
         /\ ~Completed(e) =>
              \A k \in DOMAIN trace' : Completed(trace[k])' = (k < Len(trace'))
<1>0. PICK n : n = Len(trace)
  OBVIOUS
<1>1. /\ n \in Nat /\ DOMAIN trace = 1 .. n /\ DOMAIN trace' = 1 .. (n + 1) /\ Len(trace') = n + 1
      /\ trace'[n + 1] = e /\ \A k \in 1 .. n : trace'[k] = trace[k]
  BY <1>0, TraceGrows
<1>2. \A k \in 1 .. n : Completed(trace[k])'
  BY <1>1 DEF AllCompleted, Completed
<1>3. \A k \in 1 .. (n + 1) : (k \in 1 .. n /\ k < n + 1) \/ (k = n + 1 /\ ~(k < n + 1))
  BY <1>1
<1>4. Completed(trace[n + 1])' <=> Completed(e)
  BY <1>1 DEF Completed
<1>5. \A k : Completed(trace[k])' \in BOOLEAN
  BY DEF Completed
<1> QED
  BY <1>1, <1>2, <1>3, <1>4, <1>5 DEF AllCompleted

\* A script that starts the VM can trust the exit code together with the printed
\* payload: 0 only when the program halted and nothing ever trapped, or when a
\* conversion was asked for and nothing loaded; 1 with a payload only when the last
\* instruction, and no other, trapped; 1 without for a refused file or an exhausted
\* budget; 2 when no program was loaded.
THEOREM ExitCodeAlwaysTells == HostSpec => []ExitCodeTells
<1>1. HostInit => MainInv
  BY DEF HostInit, Loaded, MainInv, ExitCodeTells
<1>2. TypeOK /\ TypeOK' /\ MainInv /\ [HostNext]_<<vars, hostvars>> => MainInv'
  <2> SUFFICES ASSUME TypeOK, TypeOK', MainInv, [HostNext]_<<vars, hostvars>>
               PROVE  MainInv'
    OBVIOUS
  <2>1. CASE UNCHANGED <<vars, hostvars>>
    BY <2>1 DEF vars, hostvars, MainInv, ExitCodeTells, AllCompleted, Outcome
  <2>2. CASE Embedder
    <3>1. caller # "main" /\ phase = "idle" /\ caller' = caller /\ phase' # "exited"
      BY <2>2 DEF Embedder, LoadAccepted, LoadRefused, LoadThrows, HostWrite, StepCall, StepHalted,
                  RunCall, Embedding, hostvars
    <3> QED
      BY <3>1 DEF MainInv, ExitCodeTells
  <2>3. CASE Main
    <3>1. /\ caller = "main" /\ phase = "idle" /\ trace = <<>> /\ ~halted /\ remaining = 0
          /\ last_trap_payload = NoPayload /\ file = NoFile
      BY <2>3 DEF Main, MainConverts, MainUsage, MainRefuses, MainTerminates, MainRuns, MainInv
    <3>2. CASE MainUsage
      BY <3>1, <3>2 DEF MainUsage, Exit, vars, MainInv, ExitCodeTells
    <3>3. CASE MainRefuses
      BY <3>1, <3>3 DEF MainRefuses, Exit, vars, MainInv, ExitCodeTells
    <3>4. CASE MainTerminates
      BY <3>1, <3>4 DEF MainTerminates, vars, MainInv, ExitCodeTells
    <3>5. CASE MainRuns
      <4>1. PICK f \in Files : Reading(f).verdict = "ok" /\ LoadImage(f)
        BY <3>5 DEF MainRuns
      <4>2. file' = f /\ f # NoFile
        BY <4>1 DEF LoadImage, Reading, load_program_from_file, Failed, NoFile, File
      <4> QED
        BY <3>1, <3>5, <4>1, <4>2
           DEF MainRuns, LoadImage, load_program, MainInv, ExitCodeTells, AllCompleted
    <3>6. CASE MainConverts
      <4>1. /\ phase' = "exited" /\ exit_code' = 0 /\ caller' = "main"
            /\ UNCHANGED <<trace, halted, file>>
        BY <3>1, <3>6 DEF MainConverts, Exit, vars
      <4>2. halted' <=> file' # NoFile
        BY <3>1, <4>1
      <4> QED
        BY <3>1, <4>1, <4>2 DEF MainInv, ExitCodeTells
    <3> QED
      BY <2>3, <3>2, <3>3, <3>4, <3>5, <3>6 DEF Main
  <2>4. CASE RunLoop
    <3>0. phase = "run" /\ caller' = caller
      BY <2>4 DEF RunLoop, RunIteration, RunHalted, RunExhausted
    <3>1. CASE caller # "main"
      <4>1. phase' # "exited"
        BY <2>4, <3>0, <3>1 DEF RunLoop, RunIteration, RunHalted, RunExhausted, Return
      <4> QED
        BY <3>0, <3>1, <4>1 DEF MainInv, ExitCodeTells
    <3>2. CASE caller = "main"
      <4>1. ~halted /\ last_trap_payload = NoPayload /\ AllCompleted /\ file # NoFile /\ file' = file
        BY <2>4, <3>0, <3>2 DEF MainInv, RunLoop, RunIteration, RunHalted, RunExhausted
      <4>2. CASE RunIteration
        <5>1. CASE undefined' # "none"
          BY <3>2, <4>2, <5>1 DEF RunIteration, MainInv, ExitCodeTells
        <5>2. CASE undefined' = "none"
          <6>1. PICK e : Reports(e)
            BY <4>2, <5>2, StepReports DEF RunIteration
          <6>2. /\ Completed(e) => AllCompleted'
                /\ ~Completed(e) =>
                     \A k \in DOMAIN trace' : Completed(trace[k])' = (k < Len(trace'))
            BY <4>1, <6>1, OneMoreEntry DEF Reports
          <6>3. CASE Completed(e) /\ ~halted'
            <7>1. Outcome' = NoTrap /\ last_trap_payload' = NoPayload
              BY <4>1, <6>1, <6>3 DEF Reports, Completed
            <7>2. phase' = "run"
              BY <3>0, <4>2, <5>2, <6>3, <7>1 DEF RunIteration
            <7> QED
              BY <3>0, <3>2, <4>1, <6>2, <6>3, <7>1, <7>2 DEF MainInv, ExitCodeTells
          <6>4. CASE Completed(e) /\ halted'
            <7>1. Outcome' = NoTrap
              BY <6>1, <6>4 DEF Reports, Completed
            <7>2. phase' = "exited" /\ exit_code' = 0
              BY <3>2, <4>2, <5>2, <6>4, <7>1 DEF RunIteration, Return
            <7>3. halted' <=> file' # NoFile
              BY <4>1, <6>4
            <7> QED
              BY <3>0, <3>2, <4>1, <6>2, <6>4, <7>2, <7>3 DEF MainInv, ExitCodeTells, AllCompleted
          <6>5. CASE ~Completed(e)
            <7>1. /\ Outcome' = e.trap /\ e.trap # NoTrap /\ ~halted'
                  /\ last_trap_payload'.trap = Outcome' /\ last_trap_payload' # NoPayload
              BY <6>1, <6>5 DEF Reports, Completed
            <7>2. phase' = "exited" /\ exit_code' = 1
              BY <3>2, <4>2, <5>2, <7>1 DEF RunIteration, Return
            <7> QED
              BY <3>0, <3>2, <6>2, <6>5, <7>1, <7>2 DEF MainInv, ExitCodeTells
          <6> QED
            BY <6>3, <6>4, <6>5
        <5> QED
          BY <5>1, <5>2
      <4>3. CASE RunHalted
        BY <4>1, <4>3 DEF RunHalted
      <4>4. CASE RunExhausted
        <5>1. /\ phase' = "exited" /\ exit_code' = 1 /\ remaining' = 0
              /\ UNCHANGED <<trace, halted, last_trap_payload>>
          BY <3>2, <4>4 DEF RunExhausted, Return, NoTrap, vars
        <5> QED
          BY <3>0, <3>2, <4>1, <5>1 DEF MainInv, ExitCodeTells, AllCompleted, Completed
      <4> QED
        BY <2>4, <4>2, <4>3, <4>4 DEF RunLoop
    <3> QED
      BY <3>1, <3>2
  <2> QED
    BY <2>1, <2>2, <2>3, <2>4 DEF HostNext
<1>3. MainInv => ExitCodeTells
  BY DEF MainInv
<1>4. HostSpec => []TypeOK
  BY HostKeepsVm, PTL
<1> QED
  BY <1>1, <1>2, <1>3, <1>4, PTL DEF HostSpec

-----------------------------------------------------------------------------
(* The last trap of the C handle.                                          *)

\* n is the status of the last trap of the trace, or 0.
Logged(n) ==
  IF AllCompleted THEN n = 0
  ELSE \E k : LastTrap(k) /\ n = trap_to_status(trace[k].trap)

\* Nothing has trapped since the fault no trace entry tells was returned.
Fresh == unlogged.status # 0 /\ \A j \in DOMAIN trace : j > unlogged.at => Completed(trace[j])

\* What the handle holds.
Kept ==
  /\ unlogged.at \in 0 .. Len(trace)
  /\ IF Fresh THEN last_trap = unlogged.status ELSE Logged(last_trap)

HandleKeeps == caller = "c" /\ phase \in {"idle", "run"} => Kept

LEMMA LoggedFound ==
  ASSUME TypeOK, HandleKeeps
  PROVE  LastTrapFollowsTrace
<1> SUFFICES ASSUME caller = "c", phase = "idle"
             PROVE  LastTrapFollowsTrace
  BY DEF LastTrapFollowsTrace
<1> DEFINE Traps == {j \in 1 .. Len(trace) : ~Completed(trace[j])}
           found == SelectLastInSeq(trace, LAMBDA e : ~Completed(e))
<1>1. Len(trace) \in Nat /\ DOMAIN trace = 1 .. Len(trace) /\ Traps \subseteq Int
  BY DEF TypeOK, TraceOK
<1>2. found = IF Traps # {} THEN Max(Traps) ELSE 0
  BY DEF SelectLastInSeq
<1>3. Kept
  BY DEF HandleKeeps
<1>4. ASSUME NEW n, Logged(n)
      PROVE  n = IF found = 0 THEN 0 ELSE trap_to_status(trace[found].trap)
  <2>1. CASE AllCompleted
    <3>1. Traps = {}
      BY <1>1, <2>1 DEF AllCompleted
    <3> QED
      BY <1>2, <1>4, <2>1, <3>1 DEF Logged
  <2>2. CASE ~AllCompleted
    <3>1. PICK k : LastTrap(k) /\ n = trap_to_status(trace[k].trap)
      BY <1>4, <2>2 DEF Logged
    <3>2. k \in Traps /\ \A j \in Traps : k >= j
      BY <1>1, <3>1 DEF LastTrap
    <3>3. Max(Traps) = k
      BY <1>1, <3>2, MaxIs
    <3>4. found = k /\ k # 0
      BY <1>1, <1>2, <3>2, <3>3
    <3> HIDE DEF found
    <3> QED
      BY <3>1, <3>4
  <2> QED
    BY <2>1, <2>2
<1>5. found <= unlogged.at <=> \A j \in DOMAIN trace : j > unlogged.at => Completed(trace[j])
  <2>1. unlogged.at \in Nat
    BY <1>1, <1>3 DEF Kept
  <2>2. CASE Traps = {}
    BY <1>1, <1>2, <2>1, <2>2
  <2>3. CASE Traps # {}
    <3>1. PICK k \in Traps : \A j \in Traps : k >= j
      <4>1. Traps \subseteq 1 .. Len(trace)
        OBVIOUS
      <4>2. \E k \in Traps : \A j \in Traps : j <= k
        BY <1>1, <2>3, <4>1, KeptInsns!MaxInside
      <4> QED
        BY <1>1, <4>2
    <3>2. found = k
      BY <1>1, <1>2, <2>3, <3>1, MaxIs
    <3> HIDE DEF found
    <3> QED
      BY <1>1, <2>1, <3>1, <3>2
  <2> QED
    BY <2>2, <2>3
<1>6. last_trap = IF unlogged.status # 0 /\ found <= unlogged.at THEN unlogged.status
                  ELSE IF found = 0 THEN 0 ELSE trap_to_status(trace[found].trap)
  <2> HIDE DEF found
  <2> QED
    BY <1>3, <1>4, <1>5 DEF Kept, Fresh
<1> QED
  BY <1>6 DEF LastTrapFollowsTrace

\* A completed entry leaves the logged status; a trap is the logged status.
LEMMA LoggedGrows ==
  ASSUME TypeOK, TypeOK', NEW e, trace' = Append(trace, e)
  PROVE  /\ Completed(e) => \A n : Logged(n) => Logged(n)'
         /\ ~Completed(e) => \A n : n = trap_to_status(e.trap) => Logged(n)'
<1>0. PICK m : m = Len(trace)
  OBVIOUS
<1>1. /\ m \in Nat /\ DOMAIN trace = 1 .. m /\ DOMAIN trace' = 1 .. (m + 1)
      /\ trace'[m + 1] = e /\ \A k \in 1 .. m : trace'[k] = trace[k]
  BY <1>0, TraceGrows
<1>2. ASSUME Completed(e), NEW n, Logged(n)
      PROVE  Logged(n)'
  <2>1. AllCompleted' <=> AllCompleted
    BY <1>1, <1>2 DEF AllCompleted, Completed
  <2>2. \A k : LastTrap(k) => LastTrap(k)' /\ trace'[k] = trace[k]
    BY <1>1, <1>2 DEF LastTrap, Completed
  <2> QED
    BY <1>2, <2>1, <2>2 DEF Logged
<1>3. ASSUME ~Completed(e), NEW n, n = trap_to_status(e.trap)
      PROVE  Logged(n)'
  <2>1. PICK k : k = m + 1
    OBVIOUS
  <2>2. LastTrap(k)' /\ trace'[k] = e
    BY <1>1, <1>3, <2>1 DEF LastTrap, Completed
  <2>3. ~AllCompleted'
    BY <1>1, <1>3 DEF AllCompleted, Completed
  <2> QED
    BY <1>3, <2>2, <2>3 DEF Logged, LastTrap
<1> QED
  BY <1>2, <1>3

\* A step that is told as the C interface tells it.
LEMMA ToldIsKept ==
  ASSUME TypeOK, TypeOK', HandleKeeps, caller = "c", phase \in {"idle", "run"}, NEW e, Reports(e),
         unlogged' = unlogged, last_trap' = IF Outcome' = NoTrap THEN last_trap ELSE trap_to_status(Outcome')
  PROVE  Kept'
<1>0. PICK m : m = Len(trace)
  OBVIOUS
<1>1. trace' = Append(trace, e) /\ Outcome' = e.trap
  BY DEF Reports
<1>2. /\ m \in Nat /\ DOMAIN trace = 1 .. m /\ DOMAIN trace' = 1 .. (m + 1) /\ Len(trace') = m + 1
      /\ trace'[m + 1] = e /\ \A k \in 1 .. m : trace'[k] = trace[k]
  BY <1>0, <1>1, TraceGrows
<1>3. Kept /\ unlogged.at \in 0 .. m
  BY <1>0 DEF HandleKeeps, Kept
<1>4. unlogged'.at \in 0 .. Len(trace')
  BY <1>2, <1>3
<1>5. CASE Completed(e)
  <2>1. last_trap' = last_trap
    BY <1>1, <1>5 DEF Completed
  <2>2. Fresh' <=> Fresh
    BY <1>2, <1>3, <1>5 DEF Fresh, Completed
  <2>3. Logged(last_trap) => Logged(last_trap)'
    BY <1>1, <1>5, <2>1, LoggedGrows
  <2> QED
    BY <1>3, <1>4, <2>1, <2>2, <2>3 DEF Kept
<1>6. CASE ~Completed(e)
  <2>1. last_trap' = trap_to_status(e.trap)
    BY <1>1, <1>6 DEF Completed
  <2>2. ~Fresh'
    BY <1>2, <1>3, <1>6 DEF Fresh, Completed
  <2>3. Logged(last_trap)'
    BY <1>1, <1>6, <2>1, LoggedGrows
  <2> QED
    BY <1>4, <2>2, <2>3 DEF Kept
<1> QED
  BY <1>5, <1>6

\* A host in C that asks for the last trap between calls gets the last one the
\* trace shows, however many steps completed since and even after a halt, and 0
\* if there is none; or what a refused load or an exhausted budget returned, from
\* that call until the next trap or load and no longer.
THEOREM LastTrapAlwaysFollows == HostSpec => []LastTrapFollowsTrace
<1>0. trap_to_status("DecodeFault") # 0 /\ trap_to_status("TrapInstruction") # 0
      /\ "TrapInstruction" # NoTrap
  <2>1. {"DecodeFault", "TrapInstruction"} \subseteq TrapCode
    BY DEF TrapCode
  <2>2. trap_to_status("DecodeFault") \in 1 .. 8 /\ trap_to_status("TrapInstruction") \in 1 .. 8
    BY <2>1, StatusOfTrap
  <2> QED
    BY <2>2 DEF NoTrap
<1>1. HostInit => HandleKeeps
  BY DEF HostInit, Loaded, HandleKeeps, Logged, Kept, Fresh, Unlogged, AllCompleted
<1>2. TypeOK /\ TypeOK' /\ HandleKeeps /\ [HostNext]_<<vars, hostvars>> => HandleKeeps'
  <2> SUFFICES ASSUME TypeOK, TypeOK', HandleKeeps, [HostNext]_<<vars, hostvars>>,
                      caller' = "c", phase' \in {"idle", "run"}
               PROVE  Kept'
    BY DEF HandleKeeps
  <2>1. caller = "c" /\ (phase \in {"idle", "run"})
    BY DEF HostNext, Embedder, LoadAccepted, LoadRefused, LoadThrows, HostWrite, StepCall, StepHalted,
           RunCall, Main, MainConverts, MainUsage, MainRefuses, MainTerminates, MainRuns, RunLoop,
           RunIteration, RunHalted, RunExhausted, Embedding, hostvars
  <2>2. Kept /\ Len(trace) \in Nat /\ DOMAIN trace = 1 .. Len(trace)
    BY <2>1 DEF HandleKeeps, TypeOK, TraceOK
  <2>3. ASSUME UNCHANGED <<trace, last_trap, unlogged>>
        PROVE  Kept'
    BY <2>2, <2>3 DEF Kept, Fresh, Logged, AllCompleted, LastTrap, Completed
  <2>9. ASSUME NEW status, status # 0, last_trap' = status, unlogged' = Unlogged(status, Len(trace)),
               trace' = trace
        PROVE  Kept'
    BY <2>2, <2>9 DEF Kept, Fresh, Unlogged
  <2>4. CASE UNCHANGED <<vars, hostvars>>
    BY <2>3, <2>4 DEF vars, hostvars
  <2>5. CASE Embedder
    <3>1. CASE LoadAccepted
      <4>1. trace' = <<>> /\ last_trap' = 0 /\ unlogged' = Unlogged(0, 0)
        BY <3>1 DEF LoadAccepted, LoadImage, load_program
      <4> QED
        BY <4>1 DEF Logged, Kept, Fresh, Unlogged, AllCompleted
    <3>2. CASE LoadThrows \/ StepHalted \/ RunCall
      BY <2>3, <3>2 DEF LoadThrows, StepHalted, RunCall, StepResult, Quiet, vars
    <3>3. CASE HostWrite
      BY <2>1, <3>3 DEF HostWrite
    <3>5. CASE LoadRefused
      BY <1>0, <2>1, <2>9, <3>5 DEF LoadRefused, vars
    <3>4. CASE StepCall
      <4>1. undefined' = "none" /\ StepResult(Outcome', halted')
        BY <3>4 DEF StepCall
      <4>2. PICK e : Reports(e)
        BY <3>4, <4>1, StepReports DEF StepCall
      <4>3. /\ last_trap' = IF Outcome' = NoTrap THEN last_trap ELSE trap_to_status(Outcome')
            /\ unlogged' = unlogged
        BY <2>1, <3>4, <4>1 DEF StepCall, StepResult, Raise, Quiet
      <4> QED
        BY <2>1, <4>2, <4>3, ToldIsKept
    <3> QED
      BY <2>5, <3>1, <3>2, <3>3, <3>4, <3>5 DEF Embedder
  <2>6. CASE Main
    BY <2>1, <2>6 DEF Main, MainConverts, MainUsage, MainRefuses, MainTerminates, MainRuns
  <2>7. CASE RunLoop
    <3>1. CASE RunIteration
      <4>1. undefined' = "none"
        BY <3>1 DEF RunIteration
      <4>2. PICK e : Reports(e)
        BY <3>1, <4>1, StepReports DEF RunIteration
      <4>3. /\ last_trap' = IF Outcome' = NoTrap THEN last_trap ELSE trap_to_status(Outcome')
            /\ unlogged' = unlogged
        BY <2>1, <3>1, <4>1 DEF RunIteration, Return, Raise, Quiet
      <4> QED
        BY <2>1, <4>2, <4>3, ToldIsKept
    <3>2. CASE RunHalted
      BY <2>3, <3>2 DEF RunHalted, Return, Quiet, vars
    <3>3. CASE RunExhausted
      BY <1>0, <2>1, <2>9, <3>3 DEF RunExhausted, Return, Raise, vars
    <3> QED
      BY <2>7, <3>1, <3>2, <3>3 DEF RunLoop
  <2> QED
    BY <2>4, <2>5, <2>6, <2>7 DEF HostNext
<1>3. TypeOK /\ HandleKeeps => LastTrapFollowsTrace
  BY LoggedFound
<1>4. HostSpec => []TypeOK
  BY HostKeepsVm, PTL
<1> QED
  BY <1>1, <1>2, <1>3, <1>4, PTL DEF HostSpec

-----------------------------------------------------------------------------
(* Files.                                                                  *)

\* The instructions of a file.
InsnStatement == {s \in Statement : s.kind = "insn"}

LEMMA KeptType ==
  ASSUME NEW f \in ProgramFile
  PROVE  Insns(f) \in Seq(InsnStatement) /\ Tiers(f) \in Seq(Statement)
<1>1. f.statements \in Seq(Statement)
  BY DEF ProgramFile
<1>2. /\ <<>> \in Seq(InsnStatement)
      /\ \A kept \in Seq(InsnStatement) : \A s \in Statement : KeepInsn(kept, s) \in Seq(InsnStatement)
  BY DEF KeepInsn, InsnStatement
<1>3. /\ <<>> \in Seq(Statement)
      /\ \A kept \in Seq(Statement) : \A s \in Statement : KeepTier(kept, s) \in Seq(Statement)
  BY DEF KeepTier
<1>4. KeptInsns!Folded(f.statements) \in Seq(InsnStatement)
  BY <1>1, <1>2, KeptInsns!FoldType
<1>5. KeptTiers!Folded(f.statements) \in Seq(Statement)
  BY <1>1, <1>3, KeptTiers!FoldType
<1>6. Insns(f) = KeptInsns!Folded(f.statements)
  BY DEF Insns, KeptInsns!Folded, FoldLeft, KeptInsns!FoldLeft, MapThenFoldSet,
         KeptInsns!MapThenFoldSet, Max, KeptInsns!Max
<1>7. Tiers(f) = KeptTiers!Folded(f.statements)
  BY DEF Tiers, KeptTiers!Folded, FoldLeft, KeptTiers!FoldLeft, MapThenFoldSet,
         KeptTiers!MapThenFoldSet, Max, KeptTiers!Max
<1> QED
  BY <1>4, <1>5, <1>6, <1>7

\* A text line with three integers keeps its three words.
LEMMA WordsKept ==
  ASSUME NEW x \in Word, NEW y \in Word, NEW z \in Word, Clean(x), Clean(y), Clean(z)
  PROVE  FoldLeft(KeepWord, <<>>, <<x, y, z>>) = <<x, y, z>>
<1>1. /\ x.kind \notin {"missing", "glued"} /\ y.kind \notin {"missing", "glued"}
      /\ z.kind \notin {"missing", "glued"}
  BY DEF Clean
<1>2. /\ <<>> \in Seq(Word) /\ <<x>> \in Seq(Word) /\ <<x, y>> \in Seq(Word)
      /\ <<x>> = Append(<<>>, x) /\ <<x, y>> = Append(<<x>>, y) /\ <<x, y, z>> = Append(<<x, y>>, z)
  OBVIOUS
<1>3. KeptWords!Folded(<<>>) = <<>>
  BY KeptWords!EmptyUnfolds
<1>4. KeptWords!Folded(<<x>>) = <<x>>
  <2>1. KeptWords!Folded(Append(<<>>, x)) = KeepWord(KeptWords!Folded(<<>>), x)
    BY <1>2, KeptWords!FoldAppend
  <2> QED
    BY <1>1, <1>2, <1>3, <2>1 DEF KeepWord
<1>5. KeptWords!Folded(<<x, y>>) = <<x, y>>
  <2>1. KeptWords!Folded(Append(<<x>>, y)) = KeepWord(KeptWords!Folded(<<x>>), y)
    BY <1>2, KeptWords!FoldAppend
  <2> QED
    BY <1>1, <1>2, <1>4, <2>1 DEF KeepWord
<1>6. KeptWords!Folded(<<x, y, z>>) = <<x, y, z>>
  <2>1. KeptWords!Folded(Append(<<x, y>>, z)) = KeepWord(KeptWords!Folded(<<x, y>>), z)
    BY <1>2, KeptWords!FoldAppend
  <2> QED
    BY <1>1, <1>2, <1>5, <2>1 DEF KeepWord
<1>7. FoldLeft(KeepWord, <<>>, <<x, y, z>>) = KeptWords!Folded(<<x, y, z>>)
  BY DEF KeptWords!Folded, FoldLeft, KeptWords!FoldLeft, MapThenFoldSet,
         KeptWords!MapThenFoldSet, Max, KeptWords!Max
<1> QED
  BY <1>6, <1>7

\* Either loader reads an instruction with three integers as it is written.
LEMMA InsnAsWritten ==
  ASSUME NEW s \in InsnStatement, \A n \in 1 .. 3 : Clean(s.operands[n])
  PROVE  TextInsn(s) = JsonInsn(s)
<1>1. PICK x \in Word, y \in Word, z \in Word : s.operands = <<x, y, z>>
  BY DEF InsnStatement, Statement
<1>2. /\ Clean(x) /\ Clean(y) /\ Clean(z)
      /\ s.operands[1] = x /\ s.operands[2] = y /\ s.operands[3] = z
  BY <1>1
<1> DEFINE words == <<x, y, z>>
<1>3. FoldLeft(KeepWord, <<>>, s.operands) = words
  BY <1>1, <1>2, WordsKept
<1>4. /\ Len(words) = 3 /\ words[1] = x /\ words[2] = y /\ words[3] = z
      /\ \A j \in 1 .. 3 : Clean(words[j])
  BY <1>2
<1>5. ASSUME NEW k \in 1 .. 3
      PROVE  text_operand(words, k) = words[k].n
  <2>1. words[k].kind = "number" /\ words[k].n \in Int64
    BY <1>4 DEF Clean
  <2>2. Clamped(words[k].n) = words[k].n
    BY <2>1, IsaAssumption DEF Clamped, Int64
  <2>3. \A j \in 1 .. k - 1 : Clean(words[j])
    BY <1>4
  <2> HIDE DEF words
  <2> QED
    BY <1>4, <2>1, <2>2, <2>3 DEF text_operand
<1>6. text_operand(words, 1) = x.n /\ text_operand(words, 2) = y.n /\ text_operand(words, 3) = z.n
  BY <1>4, <1>5
<1> HIDE DEF words
<1> QED
  BY <1>2, <1>3, <1>6 DEF TextInsn, JsonInsn

LEMMA ReadingIsMeaning ==
  ASSUME NEW f \in ProgramFile, Reading(f).verdict = "ok", WellWritten(f)
  PROVE  Reading(f).program = Meaning(f)
<1> DEFINE written == [k \in DOMAIN Insns(f) |-> JsonInsn(Insns(f)[k])]
           tier == IF Tiers(f) = <<>> THEN NoPolicy ELSE Tiers(f)[1].tier
<1>1. Insns(f) \in Seq(InsnStatement) /\ Tiers(f) \in Seq(Statement)
  BY KeptType
<1>2. Meaning(f) = [insns |-> written, tier |-> tier]
  BY DEF Meaning, JsonInsn
<1>3. Reading(f) = load_program_from_file(f) /\ f.exists
  BY DEF Reading, load_program_from_file, Failed
<1>4. Tiers(f) # <<>> => Last(Tiers(f)) = Tiers(f)[1] /\ Head(Tiers(f)) = Tiers(f)[1]
  <2> SUFFICES ASSUME Tiers(f) # <<>>
               PROVE  Last(Tiers(f)) = Tiers(f)[1] /\ Head(Tiers(f)) = Tiers(f)[1]
    OBVIOUS
  <2>1. PICK n : n = Len(Tiers(f))
    OBVIOUS
  <2>2. n \in Nat /\ n # 0 /\ n <= 1
    BY <1>1, <2>1 DEF WellWritten
  <2>3. Len(Tiers(f)) = 1
    BY <2>1, <2>2
  <2> QED
    BY <1>1, <2>3 DEF Last
<1>5. CASE f.json
  <2>1. load_tisc_json_v1(f).verdict = "ok"
    BY <1>3, <1>5 DEF load_program_from_file
  <2>2. load_tisc_json_v1(f) =
          Read(written, IF Tiers(f) = <<>> THEN NoPolicy ELSE Head(Tiers(f)).tier)
    BY <2>1 DEF load_tisc_json_v1, Failed
  <2> QED
    BY <1>2, <1>3, <1>4, <1>5, <2>2 DEF load_program_from_file, Read
<1>6. CASE ~f.json
  <2> DEFINE read == [k \in DOMAIN Insns(f) |-> TextInsn(Insns(f)[k])]
  <2>1. read = written
    <3>1. \A k \in DOMAIN Insns(f) : TextInsn(Insns(f)[k]) = JsonInsn(Insns(f)[k])
      BY <1>1, InsnAsWritten DEF WellWritten
    <3> QED
      BY <3>1
  <2>2. load_text_v1(f).verdict = "ok"
    BY <1>3, <1>6 DEF load_program_from_file
  <2>3. load_text_v1(f) =
          Read(read, IF Tiers(f) = <<>> THEN NoPolicy ELSE Last(Tiers(f)).tier)
    BY <2>2 DEF load_text_v1, Failed
  <2> QED
    BY <1>2, <1>3, <1>4, <1>6, <2>1, <2>3 DEF load_program_from_file, Read
<1> QED
  BY <1>5, <1>6

\* The VM holds what the file loaded last was read as.
HoldsFile ==
  file # NoFile =>
    file \in ProgramFile /\ Reading(file).verdict = "ok" /\ program = Reading(file).program

\* Both program formats mean one program: whatever a caller loads, in text or in
\* JSON, and whatever loads are refused or broken off afterwards, the VM holds
\* the instructions and the policy written in the file loaded last, if each
\* instruction of it has its three integers.
THEOREM LoadedAlwaysAsWritten == HostSpec => []LoadedAsWritten
<1>1. HostInit => HoldsFile
  BY DEF HostInit, HoldsFile
<1>2. HoldsFile /\ [HostNext]_<<vars, hostvars>> => HoldsFile'
  <2> SUFFICES ASSUME HoldsFile, [HostNext]_<<vars, hostvars>>
               PROVE  HoldsFile'
    OBVIOUS
  <2>1. CASE UNCHANGED <<vars, hostvars>>
    BY <2>1 DEF vars, hostvars, HoldsFile
  <2>2. ASSUME NEW f \in Files, Reading(f).verdict = "ok", LoadImage(f)
        PROVE  HoldsFile'
    BY <2>2, FilesAssumption DEF LoadImage, HoldsFile
  <2>3. CASE LoadAccepted \/ MainRuns
    BY <2>2, <2>3, FilesAssumption DEF LoadAccepted, MainRuns
  <2>4. ASSUME UNCHANGED <<program, file>>
        PROVE  HoldsFile'
    BY <2>4 DEF HoldsFile
  <2>5. CASE step
    <3>1. program' = program
      BY <2>5, StepKeeps
    <3>2. file' = file \/ LoadAccepted \/ MainRuns
      BY DEF HostNext, Embedder, LoadRefused, LoadThrows, HostWrite, StepCall, StepHalted,
             RunCall, Main, MainConverts, MainUsage, MainRefuses, MainTerminates, RunLoop,
             RunIteration, RunHalted, RunExhausted, hostvars
    <3> QED
      BY <2>3, <2>4, <3>1, <3>2
  <2>6. CASE Embedder
    BY <2>3, <2>4, <2>5, <2>6 DEF Embedder, LoadRefused, LoadThrows, HostWrite, StepCall, StepHalted,
       RunCall, set_register, set_register_to, seed_tensor, vars, hostvars
  <2>7. CASE Main
    BY <2>3, <2>4, <2>7 DEF Main, MainConverts, MainUsage, MainRefuses, MainTerminates, vars
  <2>8. CASE RunLoop
    BY <2>4, <2>5, <2>8 DEF RunLoop, RunIteration, RunHalted, RunExhausted, vars
  <2> QED
    BY <2>1, <2>6, <2>7, <2>8 DEF HostNext
<1>3. HoldsFile => LoadedAsWritten
  BY ReadingIsMeaning DEF HoldsFile, LoadedAsWritten
<1> QED
  BY <1>1, <1>2, <1>3, PTL DEF HostSpec

=============================================================================
