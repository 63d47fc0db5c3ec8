----------------------------- MODULE T81Values -----------------------------
(***************************************************************************)
(* Option, result and enum values.  A value lives in a pool that only      *)
(* grows; a register holds its handle, the value's 1-based position in the *)
(* pool, under a tag that names the pool.                                  *)
(***************************************************************************)
EXTENDS T81Machine

otherPools == <<tensor_pool, shape_pool>>

\* A pool entry: whether it carries a payload (has_value, is_ok, has_payload),
\* the variant (enums only), and the payload with the tag it was stored under.
\* An Err also carries its payload.
Value(present, variant, tag, payload) ==
  [present |-> present, variant |-> variant, payload_tag |-> tag, payload |-> payload]

\* Mutant of NextHandle: handles count from zero.
NextHandle_fromZero(pool) == Wrap(Len(pool))

\* intern_*: the handle of the value appended next.
NextHandle(pool) == Wrap(Len(pool) + 1)

\* *_ptr: the handle names a value of the pool.
Resolves(pool, handle) == handle \in 1 .. Len(pool)

Source    == registers[insn.b]
SourceTag == register_tags[insn.b]

-----------------------------------------------------------------------------
MakeOption ==
  /\ Fetch({"MakeOptionSome", "MakeOptionNone"})
  /\ option_pool' = Append(option_pool,
       IF insn.opcode = "MakeOptionSome" THEN Value(TRUE, 0, SourceTag, Source)
                                         ELSE Value(FALSE, 0, "Int", 0))
  /\ Produce(NextHandle(option_pool), "OptionHandle")
  /\ UNCHANGED <<frames, result_pool, enum_pool, otherPools, axion_log>>

MakeResult ==
  /\ Fetch({"MakeResultOk", "MakeResultErr"})
  /\ result_pool' = Append(result_pool, Value(insn.opcode = "MakeResultOk", 0, SourceTag, Source))
  /\ Produce(NextHandle(result_pool), "ResultHandle")
  /\ UNCHANGED <<frames, option_pool, enum_pool, otherPools, axion_log>>

\* The variant is operand b of a bare variant and operand c of one with payload.
MakeEnum ==
  /\ Fetch({"MakeEnumVariant", "MakeEnumVariantPayload"})
  /\ insn.opcode = "MakeEnumVariantPayload" => insn.c >= 0
  /\ enum_pool' = Append(enum_pool,
       IF insn.opcode = "MakeEnumVariant" THEN Value(FALSE, insn.b, "Int", 0)
                                          ELSE Value(TRUE, insn.c, SourceTag, Source))
  /\ Produce(NextHandle(enum_pool), "EnumHandle")
  /\ UNCHANGED <<frames, option_pool, result_pool, otherPools, axion_log>>

MakeEnumFault ==
  /\ Fetch({"MakeEnumVariantPayload"})
  /\ insn.c < 0
  /\ QuietFault("DecodeFault", "unknown")

-----------------------------------------------------------------------------
(* The seven readers share one shape: the source register's tag, then its   *)
(* handle, then (for an unwrap) the value's variant decide.                *)

OptionReaders == {"OptionIsSome", "OptionUnwrap"}
ResultReaders == {"ResultIsOk", "ResultUnwrapOk", "ResultUnwrapErr"}

ReaderTag(opcode) ==
  IF opcode \in OptionReaders THEN "OptionHandle"
  ELSE IF opcode \in ResultReaders THEN "ResultHandle"
  ELSE "EnumHandle"

ReaderPool(opcode) ==
  IF opcode \in OptionReaders THEN option_pool
  ELSE IF opcode \in ResultReaders THEN result_pool
  ELSE enum_pool

Tests == {"OptionIsSome", "ResultIsOk", "EnumIsVariant"}

TestHolds(value) ==
  IF insn.opcode = "EnumIsVariant" THEN value.variant = insn.c ELSE value.present

\* The source handle names a value, and an unwrap finds the alternative it wants.
Wanted(value) ==
  \/ insn.opcode \in Tests
  \/ value.present = (insn.opcode # "ResultUnwrapErr")

Readable(pool) == Resolves(pool, Source) /\ Wanted(pool[Source])

ReaderTypeFault ==
  /\ Fetch(UnwrapOps)
  /\ SourceTag # ReaderTag(insn.opcode)
  /\ QuietFault("TypeFault", "unknown")

ReaderDecodeFault ==
  /\ Fetch(UnwrapOps)
  /\ SourceTag = ReaderTag(insn.opcode)
  /\ ~Readable(ReaderPool(insn.opcode))
  /\ QuietFault("DecodeFault", "unknown")

Test ==
  /\ Fetch(Tests)
  /\ SourceTag = ReaderTag(insn.opcode)
  /\ Readable(ReaderPool(insn.opcode))
  /\ Produce(IF TestHolds(ReaderPool(insn.opcode)[Source]) THEN 1 ELSE 0, "Int")
  /\ UNCHANGED <<frames, pools, axion_log>>

Unwrap ==
  /\ Fetch(UnwrapOps \ Tests)
  /\ SourceTag = ReaderTag(insn.opcode)
  /\ Readable(ReaderPool(insn.opcode))
  /\ LET value == ReaderPool(insn.opcode)[Source]
     IN  Produce(value.payload, value.payload_tag)
  /\ UNCHANGED <<frames, pools, axion_log>>

Values ==
  \/ MakeOption \/ MakeResult \/ MakeEnum \/ MakeEnumFault
  \/ ReaderTypeFault \/ ReaderDecodeFault \/ Test \/ Unwrap

=============================================================================
