---------------------------- MODULE T81ProgramIo ----------------------------
(***************************************************************************)
(* Program files and the two loaders that read them.  A file is what is     *)
(* written in it, statement by statement; layout, comments' text and the    *)
(* spelling of names in case, "_" and "-", which neither loader tells apart, *)
(* are left out.  Everything here is constant level.                       *)
(***************************************************************************)
EXTENDS T81Isa, SequencesExt

CONSTANT IntMax     \* largest int (2^31-1): what std::stoi reads

ASSUME IntMaxAssumption == IntMax \in Nat

\* What stands where an operand belongs: an integer of any size, one with
\* something attached to it (1.5, 12abc), two with no space between them (1-2,
\* 1+2), something else, or nothing.
Number(n)   == [kind |-> "number", n |-> n, rest |-> 0]
Attached(n) == [kind |-> "attached", n |-> n, rest |-> 0]
Glued(n, m) == [kind |-> "glued", n |-> n, rest |-> m]
Junk        == [kind |-> "junk", n |-> 0, rest |-> 0]
Missing     == [kind |-> "missing", n |-> 0, rest |-> 0]

\* An instruction, a policy text (the tier it names, or NoPolicy), a comment.
InsnLine(name, operands) ==
  [kind |-> "insn", name |-> name, operands |-> operands, tier |-> NoPolicy]
PolicyLine(tier) == [kind |-> "policy", name |-> "POLICY", operands |-> <<>>, tier |-> tier]
CommentLine == [kind |-> "comment", name |-> "#", operands |-> <<>>, tier |-> NoPolicy]

\* The statements are in either format; in JSON the brackets around them, or the
\* braces around the last object, may be missing.
File(exists, json, damage, statements) ==
  [exists |-> exists, json |-> json, damage |-> damage, statements |-> statements]

\* What may be written: an instruction has three places for operands.
Word == [kind : {"number", "attached", "glued", "junk", "missing"}, n : Int, rest : Int]
Statement ==
  [kind : {"insn"}, name : STRING, operands : Word \X Word \X Word, tier : Int]
    \cup [kind : {"policy", "comment"}, name : STRING, operands : {<<>>}, tier : Int]
ProgramFile == [exists : BOOLEAN, json : BOOLEAN, damage : {"none", "array", "object"},
                statements : Seq(Statement)]

KeepInsn(kept, s) == IF s.kind = "insn" THEN Append(kept, s) ELSE kept
KeepTier(kept, s) == IF s.kind = "policy" THEN Append(kept, s) ELSE kept

Insns(f) == FoldLeft(KeepInsn, <<>>, f.statements)
Tiers(f) == FoldLeft(KeepTier, <<>>, f.statements)

-----------------------------------------------------------------------------
(* Names.                                                                  *)

Aliases ==
  [JMP |-> "Jump", JZ |-> "JumpIfZero", JNZ |-> "JumpIfNotZero", JN |-> "JumpIfNegative",
   JP |-> "JumpIfPositive", LT |-> "Less", LE |-> "LessEqual", GT |-> "Greater",
   GE |-> "GreaterEqual", EQ |-> "Equal", NEQ |-> "NotEqual"]

Unknown == "unknown"     \* std::nullopt

opcode_from_string(name) ==
  IF name \in DOMAIN Aliases THEN Aliases[name]
  ELSE IF name \in Opcode THEN name ELSE Unknown

-----------------------------------------------------------------------------
(* What a loader answers: a program, a refusal, or an exception.           *)

Read(insns, tier) == [verdict |-> "ok", program |-> [insns |-> insns, tier |-> tier]]
Failed(verdict) == [verdict |-> verdict, program |-> [insns |-> <<>>, tier |-> NoPolicy]]

-----------------------------------------------------------------------------
(* Text: iss >> a >> b >> c over the words of the line.  An extraction      *)
(* clamps what is too large and stops behind the digits, where the next     *)
(* finds a sign or nothing it can read; once one has failed, those that     *)
(* follow leave 0.                                                         *)

\* Mutant of Clamped: the operand is read into an int.
Clamped_narrow(n) == IF n > IntMax THEN IntMax ELSE IF n < -IntMax - 1 THEN -IntMax - 1 ELSE n

Clamped(n) == IF n >= Half THEN Half - 1 ELSE IF n < -Half THEN -Half ELSE n

Clean(w) == w.kind = "number" /\ w.n \in Int64

text_operand(words, k) ==
  IF k <= Len(words) /\ (\A j \in 1 .. k - 1 : Clean(words[j])) /\ words[k].kind # "junk"
  THEN Clamped(words[k].n) ELSE 0

KeepWord(kept, w) ==
  CASE w.kind = "missing" -> kept
    [] w.kind = "glued"   -> kept \o <<Number(w.n), Number(w.rest)>>
    [] OTHER              -> Append(kept, w)

TextInsn(s) ==
  LET words == FoldLeft(KeepWord, <<>>, s.operands)
  IN  [opcode |-> opcode_from_string(s.name), a |-> text_operand(words, 1),
       b |-> text_operand(words, 2), c |-> text_operand(words, 3)]

\* The last policy line counts; a program may be empty.
load_text_v1(f) ==
  LET insns == [k \in DOMAIN Insns(f) |-> TextInsn(Insns(f)[k])]
  IN  IF \E k \in DOMAIN insns : insns[k].opcode = Unknown THEN Failed("error")
      ELSE Read(insns, IF Tiers(f) = <<>> THEN NoPolicy ELSE Last(Tiers(f)).tier)

-----------------------------------------------------------------------------
(* JSON: objects are read one by one until one is not an instruction; the   *)
(* integer at the start of a field is its value, and std::stoll throws when  *)
(* it is too large.                                                        *)

FieldVerdict(w) ==
  IF w.kind \notin {"number", "attached", "glued"} THEN "error"
  ELSE IF w.n \notin Int64 THEN "throw" ELSE "ok"

FirstFailure(verdicts) ==
  LET k == SelectInSeq(verdicts, LAMBDA v : v # "ok") IN IF k = 0 THEN "ok" ELSE verdicts[k]

ObjectVerdict(s) ==
  FirstFailure(<<IF opcode_from_string(s.name) = Unknown THEN "error" ELSE "ok">>
               \o [k \in 1 .. 3 |-> FieldVerdict(s.operands[k])])

\* The end of an object is found before anything in it is read; only the last may
\* be without one.
Unterminated(f, k) == f.damage = "object" /\ k = Len(Insns(f))

JsonInsn(s) == [opcode |-> opcode_from_string(s.name), a |-> s.operands[1].n,
                b |-> s.operands[2].n, c |-> s.operands[3].n]

\* The first policy text counts.
load_tisc_json_v1(f) ==
  LET verdict == FirstFailure([k \in DOMAIN Insns(f) |->
                   IF Unterminated(f, k) THEN "error" ELSE ObjectVerdict(Insns(f)[k])])
  IN  IF f.damage = "array" \/ Insns(f) = <<>> THEN Failed("error")
      ELSE IF verdict # "ok" THEN Failed(verdict)
      ELSE Read([k \in DOMAIN Insns(f) |-> JsonInsn(Insns(f)[k])],
                     IF Tiers(f) = <<>> THEN NoPolicy ELSE Head(Tiers(f)).tier)

-----------------------------------------------------------------------------
load_program_from_file(f) ==
  IF ~f.exists THEN Failed("error")
  ELSE IF f.json THEN load_tisc_json_v1(f) ELSE load_text_v1(f)

\* What becomes of a file handed to load_program as well: parse_policy throws
\* when the tier is not an int.
Reading(f) ==
  LET r == load_program_from_file(f)
  IN  IF r.verdict = "ok" /\ r.program.tier > IntMax THEN Failed("throw") ELSE r

-----------------------------------------------------------------------------
(* What the documents say a file means.                                    *)

\* SPEC.md, 3A: a program file in order: three integers per instruction, and one
\* policy text at most.
WellWritten(f) ==
  /\ \A k \in DOMAIN Insns(f) : \A n \in 1 .. 3 : Clean(Insns(f)[k].operands[n])
  /\ Len(Tiers(f)) <= 1

\* The program it stands for, in either format.
Meaning(f) ==
  [insns |-> [k \in DOMAIN Insns(f) |->
                LET s == Insns(f)[k]
                IN  [opcode |-> opcode_from_string(s.name), a |-> s.operands[1].n,
                     b |-> s.operands[2].n, c |-> s.operands[3].n]],
   tier |-> IF Tiers(f) = <<>> THEN NoPolicy ELSE Tiers(f)[1].tier]

=============================================================================
