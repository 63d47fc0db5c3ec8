----------------------------- MODULE T81Control -----------------------------
(***************************************************************************)
(* What the VM promises of control and of faults, with the instruction set  *)
(* left out: instructions commit one at a time, each either works on the    *)
(* data and moves on, or transfers control and leaves the data alone; a     *)
(* fault is precise, it changes nothing but the record of outcomes; nothing *)
(* commits or faults after a stop until the machine is restarted; and only  *)
(* calls and returns touch the call stack.                                 *)
(***************************************************************************)
EXTENDS Integers, Sequences, SequencesExt

VARIABLES
  size,       \* length of the program
  at,         \* the next instruction
  stack,      \* return addresses
  stopped,
  work,       \* everything instructions compute with, opaque here
  outcomes    \* TRUE for a commit, FALSE for a fault, in order

control == <<size, at, stack, stopped, work, outcomes>>

Init ==
  /\ size \in Nat /\ at = 0 /\ stack = <<>> /\ stopped = FALSE /\ outcomes = <<>>

-----------------------------------------------------------------------------
(* How an instruction may commit.                                          *)

Advance == at' = at + 1 /\ UNCHANGED <<stack, stopped>>
Stop    == at' = at + 1 /\ stopped' = TRUE /\ UNCHANGED <<stack, work>>
Branch  == at' \in 0 .. (size - 1) /\ UNCHANGED <<stack, stopped, work>>
Enter   == /\ at' \in 0 .. (size - 1)
           /\ stack' = Append(stack, at + 1)
           /\ UNCHANGED <<stopped, work>>
Leave   == /\ stack # <<>>
           /\ at' = Last(stack) /\ stack' = Front(stack)
           /\ UNCHANGED <<stopped, work>>

Commit ==
  /\ ~stopped /\ at < size
  /\ Advance \/ Stop \/ Branch \/ Enter \/ Leave
  /\ outcomes' = Append(outcomes, TRUE)
  /\ size' = size

Fault ==
  /\ ~stopped
  /\ outcomes' = Append(outcomes, FALSE)
  /\ UNCHANGED <<size, at, stack, stopped, work>>

\* The host, or an instruction without defined behaviour, writes data.
Patch == UNCHANGED <<size, at, stack, stopped, outcomes>>

Restart ==
  /\ size' \in Nat /\ at' = 0 /\ stack' = <<>> /\ stopped' = FALSE /\ outcomes' = <<>>

Next == Commit \/ Fault \/ Patch \/ Restart

Spec == Init /\ [][Next]_control

=============================================================================
