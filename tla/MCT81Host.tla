----------------------------- MODULE MCT81Host -----------------------------
(***************************************************************************)
(* The instance of the programs around the VM for TLC.                     *)
(***************************************************************************)
EXTENDS MCT81Vm, T81Host

-----------------------------------------------------------------------------
\* Files: everything a statement may have wrong with it, alone and next to a
\* good one, in both formats; policies repeated, overridden and too large.
Three(x, y, z) == <<x, y, z>>
Zeros == Three(Number(0), Number(0), Number(0))

GoodStatements ==
  {InsnLine("LoadImm", Three(Number(1), Number(-3), Number(0))), InsnLine("Halt", Zeros),
   InsnLine("JMP", Zeros), InsnLine("Trap", Zeros), InsnLine("LT", Zeros),
   InsnLine("AxRead", Zeros), PolicyLine(0), PolicyLine(2), CommentLine}
OddStatements ==
  {InsnLine("LoadImm", ops) : ops \in
     {Three(Number(0), Number(25), Missing), Three(Missing, Number(1), Number(1)),
      Three(Number(1), Attached(1), Number(1)), Three(Number(1), Number(1), Attached(1)),
      Three(Number(1), Junk, Number(1)), Three(Number(1), Number(40), Number(1)),
      Three(Number(1), Number(25), Number(1)), Three(Number(1), Number(-40), Number(0)),
      Three(Glued(1, -2), Missing, Missing), Three(Number(1), Number(40), Junk)}}
  \cup {InsnLine("Jmpp", Zeros), PolicyLine(30), PolicyLine(NoPolicy)}

Damages(json) == IF json THEN {"none", "array", "object"} ELSE {"none"}

Written(statements) ==
  UNION {{File(TRUE, json, damage, s) : s \in statements, damage \in Damages(json)}
           : json \in BOOLEAN}

AllFiles ==
  {NoFile} \cup Written(SeqOf(GoodStatements, 3))
           \cup Written({<<s, t>> : s \in GoodStatements \cup OddStatements, t \in OddStatements}
                          \cup {<<s>> : s \in OddStatements}
                          \cup {<<s, t>> : s \in OddStatements, t \in GoodStatements})

\* What an embedder loads: a program that computes, traps and halts, a loop, a
\* tensor opcode, an empty program, one the validator rejects, one it ought to
\* have rejected, and files that are refused or break the loader off.
Plain(json, insns) == File(TRUE, json, "none", insns)
FewFiles ==
  {NoFile,
   Plain(FALSE, <<InsnLine("Div", Three(Number(0), Number(0), Number(1))), InsnLine("Halt", Zeros)>>),
   Plain(TRUE, <<InsnLine("JMP", Zeros)>>),
   Plain(FALSE, <<InsnLine("TExp", Zeros), InsnLine("Trap", Zeros)>>),
   Plain(FALSE, <<>>),
   Plain(TRUE, <<InsnLine("Neg", Three(Number(9), Number(0), Number(0)))>>),
   Plain(FALSE, <<CommentLine, InsnLine("Neg", Three(Number(0), Number(9), Number(0)))>>),
   Plain(TRUE, <<PolicyLine(30), InsnLine("Halt", Zeros)>>)}

HostFiles == AllFiles \cup FewFiles

FilePrograms == {Reading(f).program : f \in {g \in HostFiles : Reading(g).verdict = "ok"}}
KnownPrograms == FilePrograms \cup {NoProgram}

\* A divisor, and a tensor handle the host made up.
EmbedderWrites == {[idx |-> 1, value |-> 2, tag |-> "Int"],
                   [idx |-> 0, value |-> 7, tag |-> "TensorHandle"]}
EmbedderSeeds == {Seed(0, "TensorHandle", <<2>>, 2)}

MaxSteps == {0, 1, 3}

=============================================================================
