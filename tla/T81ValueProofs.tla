--------------------------- MODULE T81ValueProofs ---------------------------
(***************************************************************************)
(* What registers and pools hold.  No instruction makes a handle up: a       *)
(* handle is the position of the value interned with it, pools only grow,    *)
(* and every other write of a register copies a word with its tag or tags    *)
(* it as an integer.  The trace's annotations rebuild the register file, and *)
(* the scalar instructions leave in it what their definitions say.           *)
(***************************************************************************)
EXTENDS T81TraceProofs

Sizes == INSTANCE T81FoldProofs WITH Op <- LAMBDA x, y : x * y, Base <- 1

-----------------------------------------------------------------------------
(* Pools.                                                                  *)

RegistersGood == \A r \in Regs : GoodHandle(register_tags[r], registers[r])

PayloadsGood == /\ GoodPool(option_pool, "OptionHandle")
                /\ GoodPool(result_pool, "ResultHandle")
                /\ GoodPool(enum_pool, "EnumHandle")

ValueCount  == Len(option_pool) + Len(result_pool) + Len(enum_pool)
TensorCount == Len(tensor_pool) + Len(shape_pool)

\* Every value was interned by an instruction, every tensor or shape by one or
\* by the host, so no handle wraps.
PoolsCounted ==
  undefined = "none" => ValueCount <= Len(trace) /\ TensorCount <= RegCount + Len(trace)

HandleInv == PoolsCounted /\ (HostForgesNoHandle => RegistersGood /\ PayloadsGood)

\* A step interns one value at most, and what was good stays good.
HandlesKept ==
  /\ ValueCount' <= ValueCount + 1 /\ TensorCount' <= TensorCount + 1
  /\ RegistersGood /\ PayloadsGood => RegistersGood' /\ PayloadsGood'

LEMMA PoolSizes ==
  ASSUME TypeOK
  PROVE  /\ Len(option_pool) \in Nat /\ Len(result_pool) \in Nat /\ Len(enum_pool) \in Nat
         /\ Len(tensor_pool) \in Nat /\ Len(shape_pool) \in Nat
  BY DEF TypeOK, PoolsOK

\* No pool shrinks.
PoolsGrow ==
  /\ Len(option_pool) <= Len(option_pool') /\ Len(result_pool) <= Len(result_pool')
  /\ Len(enum_pool) <= Len(enum_pool') /\ Len(tensor_pool) <= Len(tensor_pool')
  /\ Len(shape_pool) <= Len(shape_pool')

\* A handle stays good as long as the pools do not shrink.
LEMMA GoodHandleStays ==
  ASSUME TypeOK, TypeOK', PoolsGrow, NEW tag, NEW handle, GoodHandle(tag, handle)
  PROVE  GoodHandle(tag, handle)'
  BY PoolSizes DEF PoolsGrow, GoodHandle, TypeOK, PoolsOK

\* A pool is good after a value with a good payload is interned.
LEMMA PoolStaysGood ==
  ASSUME TypeOK, TypeOK', PoolsGrow, NEW pool \in Seq(PoolValue), NEW tag, NEW v \in PoolValue,
         GoodPool(pool, tag), GoodHandle(v.payload_tag, v.payload),
         v.payload_tag = tag => v.payload < Len(pool) + 1
  PROVE  GoodPool(Append(pool, v), tag)'
<1> DEFINE more == Append(pool, v)
<1>1. /\ Len(pool) \in Nat /\ DOMAIN pool = 1 .. Len(pool)
      /\ DOMAIN more = 1 .. (Len(pool) + 1) /\ more[Len(pool) + 1] = v
      /\ \A k \in 1 .. Len(pool) : more[k] = pool[k]
  OBVIOUS
<1> HIDE DEF more
<1>2. ASSUME NEW k \in DOMAIN more
      PROVE  /\ GoodHandle(more[k].payload_tag, more[k].payload)
             /\ more[k].payload_tag = tag => more[k].payload < k
  <2>1. CASE k \in 1 .. Len(pool)
    BY <1>1, <2>1 DEF GoodPool
  <2>2. CASE k = Len(pool) + 1
    BY <1>1, <2>2
  <2> QED
    BY <1>1, <1>2, <2>1, <2>2
<1>3. \A k \in DOMAIN more : GoodHandle(more[k].payload_tag, more[k].payload)'
  BY <1>2, GoodHandleStays
<1> QED
  BY <1>2, <1>3 DEF GoodPool, more

\* A pool that is left alone stays good.
LEMMA SamePoolGood ==
  ASSUME TypeOK, TypeOK', PoolsGrow, NEW pool, NEW tag, GoodPool(pool, tag)
  PROVE  GoodPool(pool, tag)'
<1>1. \A k \in DOMAIN pool : GoodHandle(pool[k].payload_tag, pool[k].payload)'
  BY GoodHandleStays DEF GoodPool
<1> QED
  BY <1>1 DEF GoodPool

\* The handle given out with a value is its position.
LEMMA HandleIsPosition ==
  ASSUME NEW S, NEW pool \in Seq(S), Len(pool) < RegCount + MaxTrace
  PROVE  NextHandle(pool) = Len(pool) + 1
<1>1. Len(pool) \in Nat /\ Half \in Nat /\ RegCount \in Nat /\ MaxTrace \in Nat
  BY IsaAssumption, MaxTraceAssumption
<1>2. Len(pool) + 1 \in Int64
  BY <1>1, MaxTraceAssumption DEF Int64
<1> QED
  BY <1>2, WrapOfWord DEF NextHandle

-----------------------------------------------------------------------------
(* Instructions.                                                           *)

\* An instruction that leaves the pools alone and writes registers with good
\* words only.
LEMMA WritesGood ==
  ASSUME TypeOK, TypeOK', UNCHANGED pools,
         RegistersGood /\ PayloadsGood =>
           \A r \in Regs : GoodHandle(register_tags'[r], registers'[r])
  PROVE  HandlesKept
<1>1. PoolsGrow /\ ValueCount' = ValueCount /\ TensorCount' = TensorCount
  BY PoolSizes DEF PoolsGrow, pools, ValueCount, TensorCount
<1>2. ValueCount \in Nat /\ TensorCount \in Nat
  BY PoolSizes DEF ValueCount, TensorCount
<1>3. ASSUME RegistersGood, PayloadsGood
      PROVE  RegistersGood' /\ PayloadsGood'
  <2>1. \A tag, handle : GoodHandle(tag, handle)' = GoodHandle(tag, handle)
    BY DEF GoodHandle, pools
  <2>2. RegistersGood'
    BY <1>3, <2>1 DEF RegistersGood
  <2>3. PayloadsGood'
    BY <1>3, <2>1 DEF PayloadsGood, GoodPool, pools
  <2> QED
    BY <2>2, <2>3
<1> QED
  BY <1>1, <1>2, <1>3 DEF HandlesKept

LEMMA SameRegistersGood ==
  ASSUME TypeOK, TypeOK', UNCHANGED pools, UNCHANGED regs
  PROVE  HandlesKept
  BY WritesGood DEF regs, RegistersGood

\* The word an instruction produces is good.
LEMMA ProduceGood ==
  ASSUME TypeOK, TypeOK', UNCHANGED pools, NEW v, NEW tag, NEW f, ProduceWith(v, tag, f),
         RegistersGood /\ PayloadsGood => GoodHandle(tag, v)
  PROVE  HandlesKept
<1>1. CASE insn.a \in Regs
  <2>1. \A r \in Regs : /\ registers'[r] = IF r = insn.a THEN v ELSE registers[r]
                        /\ register_tags'[r] = IF r = insn.a THEN tag ELSE register_tags[r]
    BY <1>1 DEF ProduceWith, TypeOK, RegsOK
  <2> QED
    BY <2>1, WritesGood DEF RegistersGood
<1>2. CASE insn.a \notin Regs
  BY <1>2, SameRegistersGood DEF ProduceWith
<1> QED
  BY <1>1, <1>2

\* Integers and weights handles name no pool.
LEMMA PlainGood ==
  ASSUME TypeOK, TypeOK', UNCHANGED pools, NEW v, NEW f, NEW tag \in {"Int", "WeightsTensorHandle"},
         ProduceWith(v, tag, f)
  PROVE  HandlesKept
<1>1. GoodHandle(tag, v)
  BY DEF GoodHandle
<1> QED
  BY <1>1, ProduceGood

\* Control flow, loads, stores, the stack, the allocators and traps leave
\* registers alone or put integers into them.
LEMMA FlowGood ==
  ASSUME TypeOK, TypeOK', Flow
  PROVE  HandlesKept
<1>1. UNCHANGED <<pools, regs>>
  BY DEF Flow, Nop, Halt, Jump, BranchTaken, BranchNotTaken, Call, CallOutside, Ret, RetEmpty,
         TrapInsn, FallThrough, JumpTo, QuietFault, Fault, trap, data
<1> QED
  BY <1>1, SameRegistersGood

\* A register the instruction writes behind set_register_value's back gets an integer.
LEMMA IntegerGood ==
  ASSUME TypeOK, TypeOK', UNCHANGED pools, NEW v, insn.a \in Regs,
         registers' = [registers EXCEPT ![insn.a] = v],
         register_tags' = [register_tags EXCEPT ![insn.a] = "Int"]
  PROVE  HandlesKept
<1>1. \A r \in Regs : /\ r # insn.a => registers'[r] = registers[r] /\ register_tags'[r] = register_tags[r]
                      /\ r = insn.a => register_tags'[r] = "Int"
  BY DEF TypeOK, RegsOK
<1>2. \A handle : GoodHandle("Int", handle)
  BY DEF GoodHandle
<1> QED
  BY <1>1, <1>2, WritesGood DEF RegistersGood

LEMMA ScalarGood ==
  ASSUME TypeOK, TypeOK', Scalar
  PROVE  HandlesKept
<1>1. UNCHANGED pools
  BY DEF Scalar, LoadImm, DivideByZero, Arithmetic, DivisionCrash, Mov, SetF, Neg, Inc, Dec, Bump,
         Cmp, Compare, TNot, TritLogic, QuietFault, Fault, trap, store
<1>2. CASE LoadImm \/ Arithmetic \/ SetF \/ Neg \/ Compare \/ TNot \/ TritLogic
  <2>1. \E v, f : ProduceWith(v, "Int", f)
    BY <1>2 DEF LoadImm, Arithmetic, SetF, Neg, Compare, TNot, TritLogic, Produce, ProduceOneOf
  <2> QED
    BY <1>1, <2>1, PlainGood
<1>3. CASE Mov
  <2>1. insn.b \in Regs
    BY <1>3 DEF Mov, Fetch, OperandsInRange, IndexesB, UsesB, ConvertOps
  <2>2. RegistersGood => GoodHandle(register_tags[insn.b], registers[insn.b])
    BY <2>1 DEF RegistersGood
  <2> QED
    BY <1>1, <1>3, <2>2, ProduceGood DEF Mov, Produce
<1>4. CASE Inc \/ Dec
  <2>1. insn.a \in Regs
    BY <1>4 DEF Inc, Dec, Fetch, OperandsInRange, IndexesA
  <2> QED
    BY <1>1, <1>4, <2>1, IntegerGood DEF Inc, Dec, Bump
<1>5. CASE Cmp \/ DivideByZero \/ DivisionCrash
  BY <1>1, <1>5, SameRegistersGood DEF Cmp, DivideByZero, DivisionCrash, QuietFault, Fault, trap
<1> QED
  BY <1>2, <1>3, <1>4, <1>5 DEF Scalar

LEMMA MemoryGood ==
  ASSUME TypeOK, TypeOK', Memory
  PROVE  HandlesKept
<1>1. UNCHANGED pools
  BY DEF Memory, Load, LoadOutside, Store, StoreOutside, Push, PushBeyondMemory, PushFull, Pop,
         PopEmpty, StackAlloc, StackAllocFault, StackFree, StackFreeFault, HeapAlloc,
         HeapAllocFault, HeapFree, HeapFreeFault, BoundsFault, QuietFault, Fault, trap
<1>2. CASE Load \/ StackAlloc \/ HeapAlloc
  <2>1. \E v, f : ProduceWith(v, "Int", f)
    BY <1>2 DEF Load, StackAlloc, HeapAlloc, Produce
  <2> QED
    BY <1>1, <2>1, PlainGood
<1>3. CASE Pop
  <2>1. insn.a \in Regs
    BY <1>3 DEF Pop, Fetch, OperandsInRange, IndexesA
  <2> QED
    BY <1>1, <1>3, <2>1, IntegerGood DEF Pop
<1>4. CASE \/ LoadOutside \/ Store \/ StoreOutside \/ Push \/ PushBeyondMemory \/ PushFull
           \/ PopEmpty \/ StackAllocFault \/ StackFree \/ StackFreeFault
           \/ HeapAllocFault \/ HeapFree \/ HeapFreeFault
  <2>1. UNCHANGED regs
    BY <1>4 DEF LoadOutside, Store, StoreOutside, Push, PushBeyondMemory, PushFull, PopEmpty,
                StackAllocFault, StackFree, StackFreeFault, HeapAllocFault, HeapFree,
                HeapFreeFault, BoundsFault, QuietFault, Fault, trap
  <2> QED
    BY <1>1, <2>1, SameRegistersGood
<1> QED
  BY <1>2, <1>3, <1>4 DEF Memory

LEMMA AxionGood ==
  ASSUME TypeOK, TypeOK', Axion
  PROVE  HandlesKept
<1>1. UNCHANGED pools
  BY DEF Axion, AxionDeny, AxRead, AxSet, AxVerify, WeightsLoad, Fault, trap
<1>2. CASE AxRead \/ AxVerify \/ WeightsLoad
  <2>1. \E v, f : ProduceWith(v, "Int", f) \/ ProduceWith(v, "WeightsTensorHandle", f)
    BY <1>2 DEF AxRead, AxVerify, WeightsLoad, Produce
  <2> QED
    BY <1>1, <2>1, PlainGood
<1>3. CASE AxionDeny \/ AxSet
  BY <1>1, <1>3, SameRegistersGood DEF AxionDeny, AxSet, Fault, trap
<1> QED
  BY <1>2, <1>3 DEF Axion

LEMMA PrologueGood ==
  ASSUME TypeOK, TypeOK', Prologue
  PROVE  HandlesKept
<1>1. UNCHANGED <<pools, regs>>
  BY DEF Prologue, PreloadTrap, FallOff, UnknownOpcode, UndefinedRead, PrologueTrap, QuietFault,
         Fault, trap
<1> QED
  BY <1>1, SameRegistersGood

-----------------------------------------------------------------------------
(* Instructions that intern a value.                                       *)

\* The register gets the handle of the value interned with it.
LEMMA InternedGood ==
  ASSUME TypeOK, TypeOK', PoolsGrow, NEW handle, NEW tag, Produce(handle, tag),
         GoodHandle(tag, handle)', RegistersGood
  PROVE  RegistersGood'
<1>1. \A r \in Regs : GoodHandle(register_tags[r], registers[r])'
  <2> SUFFICES ASSUME NEW r \in Regs
               PROVE  GoodHandle(register_tags[r], registers[r])'
    OBVIOUS
  <2>1. \/ registers'[r] = registers[r] /\ register_tags'[r] = register_tags[r]
        \/ registers'[r] = handle /\ register_tags'[r] = tag
    BY DEF Produce, ProduceWith, TypeOK, RegsOK, regs
  <2>2. GoodHandle(register_tags[r], registers[r])
    BY DEF RegistersGood
  <2>3. \A t, h : GoodHandle(t, h) => GoodHandle(t, h)'
    BY GoodHandleStays
  <2>4. \E t, h : registers'[r] = h /\ register_tags'[r] = t /\ GoodHandle(t, h)'
    BY <2>1, <2>2, <2>3
  <2> QED
    BY <2>4 DEF GoodHandle
<1> QED
  BY <1>1 DEF RegistersGood

\* The tag and the payload of a source register make a good payload.
LEMMA SourceGood ==
  ASSUME TypeOK, insn.b \in Regs
  PROVE  /\ Source \in Int64 /\ SourceTag \in ValueTag
         /\ RegistersGood => GoodHandle(SourceTag, Source)
  BY SourceType DEF RegistersGood, Source, SourceTag

\* Appending makes the pool one longer.
LEMMA PoolAppend ==
  ASSUME NEW S, NEW pool \in Seq(S), NEW v \in S
  PROVE  /\ Len(Append(pool, v)) = Len(pool) + 1 /\ Len(pool) \in Nat
         /\ Append(pool, v) \in Seq(S)
  OBVIOUS

\* Every pool has room for the handle of one more value.
LEMMA HandlesFit ==
  ASSUME TypeOK, PoolsCounted, Stepping
  PROVE  /\ Len(option_pool) < RegCount + MaxTrace /\ Len(result_pool) < RegCount + MaxTrace
         /\ Len(enum_pool) < RegCount + MaxTrace /\ Len(tensor_pool) < RegCount + MaxTrace
<1>1. Len(trace) \in Nat /\ Len(trace) < MaxTrace /\ RegCount \in Nat /\ MaxTrace \in Nat
      /\ undefined = "none"
  BY IsaAssumption, MaxTraceAssumption DEF TypeOK, TraceOK, Stepping
<1>2. ValueCount <= Len(trace) /\ TensorCount <= RegCount + Len(trace)
  BY <1>1 DEF PoolsCounted
<1> QED
  BY <1>1, <1>2, PoolSizes DEF ValueCount, TensorCount

LEMMA OptionGood ==
  ASSUME TypeOK, TypeOK', PoolsCounted, MakeOption
  PROVE  HandlesKept
<1> DEFINE v == IF insn.opcode = "MakeOptionSome" THEN Value(TRUE, 0, SourceTag, Source)
                                                  ELSE Value(FALSE, 0, "Int", 0)
<1>1. insn.opcode = "MakeOptionSome" => insn.b \in Regs
  BY DEF MakeOption, Fetch, OperandsInRange, IndexesB, UsesB, MakeOps
<1>2. 0 \in Int64 /\ "Int" \in ValueTag /\ TRUE \in BOOLEAN /\ FALSE \in BOOLEAN
  BY IsaAssumption DEF Int64, ValueTag
<1>3. v \in PoolValue
  BY <1>1, <1>2, SourceGood, ValueType
<1>4. RegistersGood => GoodHandle(v.payload_tag, v.payload)
  BY <1>1, SourceGood DEF Value, GoodHandle
<1>5. /\ option_pool' = Append(option_pool, v)
      /\ UNCHANGED <<result_pool, enum_pool, tensor_pool, shape_pool>>
      /\ Produce(NextHandle(option_pool), "OptionHandle")
      /\ Stepping
  BY DEF MakeOption, otherPools, Fetch, Fetched
<1> HIDE DEF v
<1>6. option_pool \in Seq(PoolValue)
  BY DEF TypeOK, PoolsOK
<1>7. Len(option_pool') = Len(option_pool) + 1
  BY <1>3, <1>5, <1>6, PoolAppend
<1>8. PoolsGrow /\ ValueCount' = ValueCount + 1 /\ TensorCount' = TensorCount
  BY <1>5, <1>7, PoolSizes DEF PoolsGrow, ValueCount, TensorCount
<1>9. PICK handle : handle = NextHandle(option_pool) /\ handle = Len(option_pool) + 1
  BY <1>5, <1>6, HandlesFit, HandleIsPosition
<1>10. GoodHandle("OptionHandle", handle)'
  BY <1>7, <1>9, PoolSizes DEF GoodHandle
<1>11. ASSUME RegistersGood, PayloadsGood
       PROVE  RegistersGood' /\ PayloadsGood'
  <2>1. RegistersGood'
    BY <1>5, <1>8, <1>9, <1>10, <1>11, InternedGood
  <2>2. GoodHandle(v.payload_tag, v.payload)
        /\ (v.payload_tag = "OptionHandle" => v.payload < Len(option_pool) + 1)
    BY <1>4, <1>11, PoolSizes DEF GoodHandle
  <2>3. GoodPool(option_pool, "OptionHandle")'
    BY <1>3, <1>5, <1>6, <1>8, <1>11, <2>2, PoolStaysGood DEF PayloadsGood
  <2> QED
    BY <1>5, <1>8, <1>11, <2>1, <2>3, SamePoolGood DEF PayloadsGood
<1> QED
  BY <1>8, <1>11, PoolSizes DEF HandlesKept, ValueCount, TensorCount

LEMMA ResultGood ==
  ASSUME TypeOK, TypeOK', PoolsCounted, MakeResult
  PROVE  HandlesKept
<1> DEFINE v == Value(insn.opcode = "MakeResultOk", 0, SourceTag, Source)
<1>1. insn.b \in Regs
  BY DEF MakeResult, Fetch, OperandsInRange, IndexesB, UsesB, MakeOps
<1>2. 0 \in Int64 /\ (insn.opcode = "MakeResultOk") \in BOOLEAN
  BY IsaAssumption DEF Int64
<1>3. v \in PoolValue
  BY <1>1, <1>2, SourceGood, ValueType
<1>4. RegistersGood => GoodHandle(v.payload_tag, v.payload)
  BY <1>1, SourceGood DEF Value, GoodHandle
<1>5. /\ result_pool' = Append(result_pool, v)
      /\ UNCHANGED <<option_pool, enum_pool, tensor_pool, shape_pool>>
      /\ Produce(NextHandle(result_pool), "ResultHandle")
      /\ Stepping
  BY DEF MakeResult, otherPools, Fetch, Fetched
<1> HIDE DEF v
<1>6. result_pool \in Seq(PoolValue)
  BY DEF TypeOK, PoolsOK
<1>7. Len(result_pool') = Len(result_pool) + 1
  BY <1>3, <1>5, <1>6, PoolAppend
<1>8. PoolsGrow /\ ValueCount' = ValueCount + 1 /\ TensorCount' = TensorCount
  BY <1>5, <1>7, PoolSizes DEF PoolsGrow, ValueCount, TensorCount
<1>9. PICK handle : handle = NextHandle(result_pool) /\ handle = Len(result_pool) + 1
  BY <1>5, <1>6, HandlesFit, HandleIsPosition
<1>10. GoodHandle("ResultHandle", handle)'
  BY <1>7, <1>9, PoolSizes DEF GoodHandle
<1>11. ASSUME RegistersGood, PayloadsGood
       PROVE  RegistersGood' /\ PayloadsGood'
  <2>1. RegistersGood'
    BY <1>5, <1>8, <1>9, <1>10, <1>11, InternedGood
  <2>2. GoodHandle(v.payload_tag, v.payload)
        /\ (v.payload_tag = "ResultHandle" => v.payload < Len(result_pool) + 1)
    BY <1>4, <1>11, PoolSizes DEF GoodHandle
  <2>3. GoodPool(result_pool, "ResultHandle")'
    BY <1>3, <1>5, <1>6, <1>8, <1>11, <2>2, PoolStaysGood DEF PayloadsGood
  <2> QED
    BY <1>5, <1>8, <1>11, <2>1, <2>3, SamePoolGood DEF PayloadsGood
<1> QED
  BY <1>8, <1>11, PoolSizes DEF HandlesKept, ValueCount, TensorCount

LEMMA EnumGood ==
  ASSUME TypeOK, TypeOK', PoolsCounted, MakeEnum
  PROVE  HandlesKept
<1> DEFINE v == IF insn.opcode = "MakeEnumVariant" THEN Value(FALSE, insn.b, "Int", 0)
                                                   ELSE Value(TRUE, insn.c, SourceTag, Source)
<1>1. /\ insn.opcode = "MakeEnumVariantPayload" => insn.b \in Regs
      /\ insn.opcode \in {"MakeEnumVariant", "MakeEnumVariantPayload"}
  BY DEF MakeEnum, Fetch, OperandsInRange, IndexesB, UsesB, MakeOps
<1>0. insn.b \in Int64 /\ insn.c \in Int64
  BY InsnType DEF MakeEnum, Fetch, TypeOK
<1>2. 0 \in Int64 /\ "Int" \in ValueTag /\ TRUE \in BOOLEAN /\ FALSE \in BOOLEAN
  BY IsaAssumption DEF Int64, ValueTag
<1>3. v \in PoolValue
  BY <1>0, <1>1, <1>2, SourceGood, ValueType
<1>4. RegistersGood => GoodHandle(v.payload_tag, v.payload)
  BY <1>1, SourceGood DEF Value, GoodHandle
<1>5. /\ enum_pool' = Append(enum_pool, v)
      /\ UNCHANGED <<result_pool, option_pool, tensor_pool, shape_pool>>
      /\ Produce(NextHandle(enum_pool), "EnumHandle")
      /\ Stepping
  BY DEF MakeEnum, otherPools, Fetch, Fetched
<1> HIDE DEF v
<1>6. enum_pool \in Seq(PoolValue)
  BY DEF TypeOK, PoolsOK
<1>7. Len(enum_pool') = Len(enum_pool) + 1
  BY <1>3, <1>5, <1>6, PoolAppend
<1>8. PoolsGrow /\ ValueCount' = ValueCount + 1 /\ TensorCount' = TensorCount
  BY <1>5, <1>7, PoolSizes DEF PoolsGrow, ValueCount, TensorCount
<1>9. PICK handle : handle = NextHandle(enum_pool) /\ handle = Len(enum_pool) + 1
  BY <1>5, <1>6, HandlesFit, HandleIsPosition
<1>10. GoodHandle("EnumHandle", handle)'
  BY <1>7, <1>9, PoolSizes DEF GoodHandle
<1>11. ASSUME RegistersGood, PayloadsGood
       PROVE  RegistersGood' /\ PayloadsGood'
  <2>1. RegistersGood'
    BY <1>5, <1>8, <1>9, <1>10, <1>11, InternedGood
  <2>2. GoodHandle(v.payload_tag, v.payload)
        /\ (v.payload_tag = "EnumHandle" => v.payload < Len(enum_pool) + 1)
    BY <1>4, <1>11, PoolSizes DEF GoodHandle
  <2>3. GoodPool(enum_pool, "EnumHandle")'
    BY <1>3, <1>5, <1>6, <1>8, <1>11, <2>2, PoolStaysGood DEF PayloadsGood
  <2> QED
    BY <1>5, <1>8, <1>11, <2>1, <2>3, SamePoolGood DEF PayloadsGood
<1> QED
  BY <1>8, <1>11, PoolSizes DEF HandlesKept, ValueCount, TensorCount

\* A tensor instruction interns what it makes; no payload is concerned.
LEMMA TensorGood ==
  ASSUME TypeOK, TypeOK', PoolsCounted, TensorStep
  PROVE  HandlesKept
<1>1. CASE TensorTypeFault \/ TensorDecodeFault \/ TensorShapeFault
  BY <1>1, SameRegistersGood DEF TensorTypeFault, TensorDecodeFault, TensorShapeFault, QuietFault,
                                 Fault, trap
<1>2. CASE ChkShape
  BY <1>2, PlainGood DEF ChkShape, Produce
<1>3. CASE MakeTensor
  <2>1. /\ tensor_pool' = Append(tensor_pool, Made)
        /\ UNCHANGED <<option_pool, result_pool, enum_pool, shape_pool>>
        /\ Produce(NextHandle(tensor_pool), "TensorHandle")
        /\ Stepping /\ tensor_pool \in Seq(TensorValue) /\ Made \in TensorValue
    BY <1>3, MadeType DEF MakeTensor, Fetch, Fetched, TypeOK, PoolsOK
  <2>2. Len(tensor_pool') = Len(tensor_pool) + 1
    BY <2>1, PoolAppend
  <2>3. PoolsGrow /\ ValueCount' = ValueCount /\ TensorCount' = TensorCount + 1
    BY <2>1, <2>2, PoolSizes DEF PoolsGrow, ValueCount, TensorCount
  <2>4. PICK handle : handle = NextHandle(tensor_pool) /\ handle = Len(tensor_pool) + 1
    BY <2>1, HandlesFit, HandleIsPosition
  <2>5. GoodHandle("TensorHandle", handle)'
    BY <2>2, <2>4, PoolSizes DEF GoodHandle
  <2>6. ASSUME RegistersGood, PayloadsGood
        PROVE  RegistersGood' /\ PayloadsGood'
    <3>1. RegistersGood'
      BY <2>1, <2>3, <2>4, <2>5, <2>6, InternedGood
    <3> QED
      BY <2>1, <2>3, <2>6, <3>1, SamePoolGood DEF PayloadsGood
  <2> QED
    BY <2>3, <2>6, PoolSizes DEF HandlesKept, ValueCount, TensorCount
<1>4. CASE TensorOverrun
  BY <1>4, SameRegistersGood DEF TensorOverrun
<1> QED
  BY <1>1, <1>2, <1>3, <1>4 DEF TensorStep

\* A reader copies a good payload, or answers with an integer.
LEMMA ValuesGood ==
  ASSUME TypeOK, TypeOK', PoolsCounted, Values
  PROVE  HandlesKept
<1>1. CASE MakeEnumFault \/ ReaderTypeFault \/ ReaderDecodeFault
  BY <1>1, SameRegistersGood DEF MakeEnumFault, ReaderTypeFault, ReaderDecodeFault, QuietFault,
                                 Fault, trap
<1>2. CASE Test
  BY <1>2, PlainGood DEF Test, Produce
<1>3. CASE Unwrap
  <2>1. PICK value : value = ReaderPool(insn.opcode)[Source]
                     /\ Produce(value.payload, value.payload_tag) /\ UNCHANGED pools
    BY <1>3 DEF Unwrap
  <2>2. Source \in 1 .. Len(ReaderPool(insn.opcode))
    BY <1>3 DEF Unwrap, Readable, Resolves
  <2>3. PayloadsGood => GoodHandle(value.payload_tag, value.payload)
    <3>1. ReaderPool(insn.opcode) \in {option_pool, result_pool, enum_pool}
      BY DEF ReaderPool
    <3>2. PayloadsGood => \A k \in 1 .. Len(ReaderPool(insn.opcode)) :
            GoodHandle(ReaderPool(insn.opcode)[k].payload_tag, ReaderPool(insn.opcode)[k].payload)
      BY <3>1 DEF PayloadsGood, GoodPool, TypeOK, PoolsOK
    <3> QED
      BY <2>1, <2>2, <3>2
  <2> QED
    BY <2>1, <2>3, ProduceGood DEF Produce
<1> QED
  BY <1>1, <1>2, <1>3, OptionGood, ResultGood, EnumGood DEF Values

LEMMA StepGood ==
  ASSUME TypeOK, TypeOK', PoolsCounted, step
  PROVE  HandlesKept
BY PrologueGood, FlowGood, ScalarGood, MemoryGood, ValuesGood, TensorGood, AxionGood DEF step

-----------------------------------------------------------------------------
(* The host, and the theorem.                                              *)

\* What the host provides before the first step has a handle of its own.
LEMMA SeedGood ==
  ASSUME TypeOK, TypeOK', PoolsCounted, seed_tensor
  PROVE  PoolsCounted' /\ (RegistersGood /\ PayloadsGood => RegistersGood' /\ PayloadsGood')
<1> DEFINE Handle(s) == NextHandle(IF s.tag = "TensorHandle" THEN tensor_pool ELSE shape_pool)
<1>1. PICK s \in HostSeeds :
        /\ tensor_pool' = IF s.tag = "TensorHandle" THEN Append(tensor_pool, s.tensor) ELSE tensor_pool
        /\ shape_pool' = IF s.tag = "ShapeHandle" THEN Append(shape_pool, s.tensor.shape) ELSE shape_pool
        /\ registers' = [registers EXCEPT ![s.idx] = Handle(s)]
        /\ register_tags' = [register_tags EXCEPT ![s.idx] = s.tag]
  BY DEF seed_tensor
<1>2. s.idx \in Regs /\ s.tag \in {"TensorHandle", "ShapeHandle"} /\ s.tensor \in TensorValue
      /\ s.tensor.shape \in Seq(Int64)
  BY HostSeedsAssumption DEF TensorValue
<1>3. tensor_pool \in Seq(TensorValue) /\ shape_pool \in Seq(Seq(Int64))
  BY DEF TypeOK, PoolsOK
<1>4. UNCHANGED <<option_pool, result_pool, enum_pool, trace, undefined>>
      /\ Len(tensor_pool) + Len(shape_pool) < RegCount /\ trace = <<>> /\ undefined = "none"
  BY DEF seed_tensor
<1>5. RegCount \in Nat /\ MaxTrace \in Nat
  BY IsaAssumption, MaxTraceAssumption
<1>6. PICK handle, pool : /\ handle = Handle(s) /\ handle = Len(pool) + 1
                          /\ pool = IF s.tag = "TensorHandle" THEN tensor_pool ELSE shape_pool
  <2>1. CASE s.tag = "TensorHandle"
    BY <1>3, <1>4, <1>5, <2>1, PoolSizes, HandleIsPosition
  <2>2. CASE s.tag = "ShapeHandle"
    BY <1>3, <1>4, <1>5, <2>2, PoolSizes, HandleIsPosition
  <2> QED
    BY <1>2, <2>1, <2>2
<1> HIDE DEF Handle
<1>7. /\ Len(tensor_pool') = IF s.tag = "TensorHandle" THEN Len(tensor_pool) + 1 ELSE Len(tensor_pool)
      /\ Len(shape_pool') = IF s.tag = "ShapeHandle" THEN Len(shape_pool) + 1 ELSE Len(shape_pool)
  BY <1>1, <1>2, <1>3, PoolAppend
<1>8. PoolsGrow /\ ValueCount' = ValueCount /\ TensorCount' = TensorCount + 1
  <2>1. \/ Len(tensor_pool') = Len(tensor_pool) + 1 /\ Len(shape_pool') = Len(shape_pool)
        \/ Len(tensor_pool') = Len(tensor_pool) /\ Len(shape_pool') = Len(shape_pool) + 1
    BY <1>2, <1>7
  <2>2. PoolsGrow
    BY <1>4, <2>1, PoolSizes DEF PoolsGrow
  <2> QED
    BY <1>4, <2>1, <2>2, PoolSizes DEF ValueCount, TensorCount
<1>9. PoolsCounted'
  <2>1. Len(trace) = 0 /\ Len(trace') = 0
    BY <1>4
  <2>2. ValueCount <= 0 /\ TensorCount < RegCount
    BY <1>4, <2>1 DEF PoolsCounted, TensorCount
  <2> QED
    BY <1>5, <1>8, <2>1, <2>2, PoolSizes DEF PoolsCounted, TensorCount
<1>10. GoodHandle(s.tag, handle)'
  BY <1>2, <1>6, <1>7, PoolSizes DEF GoodHandle
<1>11. ASSUME RegistersGood, PayloadsGood
       PROVE  RegistersGood' /\ PayloadsGood'
  <2>1. \A r \in Regs : \/ registers'[r] = registers[r] /\ register_tags'[r] = register_tags[r]
                        \/ registers'[r] = handle /\ register_tags'[r] = s.tag
    BY <1>1, <1>6 DEF TypeOK, RegsOK
  <2>2. \A t, h : GoodHandle(t, h) => GoodHandle(t, h)'
    BY <1>8, GoodHandleStays
  <2>3. \A r \in Regs : \E t, h : registers'[r] = h /\ register_tags'[r] = t /\ GoodHandle(t, h)'
    BY <1>10, <1>11, <2>1, <2>2 DEF RegistersGood
  <2>4. RegistersGood'
    BY <2>3 DEF RegistersGood, GoodHandle
  <2> QED
    BY <1>4, <1>8, <1>11, <2>4, SamePoolGood DEF PayloadsGood
<1> QED
  BY <1>9, <1>11

\* An honest host writes integers and weights handles.
LEMMA HonestGood ==
  ASSUME TypeOK, TypeOK', HandleInv, set_register
  PROVE  HandleInv'
<1>1. PICK w \in HostWrites : set_register_to(w)
  BY DEF set_register
<1>2. UNCHANGED <<pools, trace, undefined>>
  BY <1>1 DEF set_register_to
<1>3. ASSUME HostForgesNoHandle
      PROVE  RegistersGood' /\ PayloadsGood'
  <2>1. w.tag \in {"Int", "WeightsTensorHandle"}
    BY <1>3 DEF HostForgesNoHandle
  <2>2. \A r \in Regs : \/ registers'[r] = registers[r] /\ register_tags'[r] = register_tags[r]
                        \/ register_tags'[r] = w.tag
    BY <1>1 DEF set_register_to, TypeOK, RegsOK
  <2>3. \A r \in Regs : GoodHandle(register_tags'[r], registers'[r])
    BY <1>3, <2>1, <2>2 DEF HandleInv, RegistersGood, GoodHandle
  <2> QED
    BY <1>2, <1>3, <2>3, WritesGood DEF HandlesKept, HandleInv
<1> QED
  BY <1>2, <1>3 DEF HandleInv, PoolsCounted, ValueCount, TensorCount, pools

\* Registers and payloads never name a value that is not there, through any
\* number of moves, arithmetic, pushes, unwraps, reloads and host writes that
\* forge none, and option in option, result in result and enum in enum nest
\* well-foundedly.
THEOREM HandlesAlwaysResolve == Spec => []HandlesResolve
<1>1. Init => HandleInv
  <2> SUFFICES ASSUME Init
               PROVE  HandleInv
    OBVIOUS
  <2>1. ValueCount = 0 /\ TensorCount = 0 /\ Len(trace) = 0 /\ RegCount \in Nat
    BY IsaAssumption DEF Init, Loaded, ValueCount, TensorCount
  <2>2. RegistersGood
    BY DEF Init, Loaded, RegistersGood, GoodHandle
  <2> QED
    BY <2>1, <2>2 DEF Init, Loaded, HandleInv, PoolsCounted, PayloadsGood, GoodPool
<1>2. TypeOK /\ TypeOK' /\ HandleInv /\ [Next]_vars => HandleInv'
  <2> SUFFICES ASSUME TypeOK, TypeOK', HandleInv, [Next]_vars
               PROVE  HandleInv'
    OBVIOUS
  <2>1. CASE step
    <3>1. HandlesKept
      BY <2>1, StepGood DEF HandleInv
    <3>2. undefined' = "none" => undefined = "none" /\ Len(trace') = Len(trace) + 1
      <4>1. CASE Lost
        BY <4>1 DEF Lost
      <4>2. ASSUME NEW e, trace' = Append(trace, e), undefined' = undefined
            PROVE  undefined' = "none" => undefined = "none" /\ Len(trace') = Len(trace) + 1
        BY <4>2, TraceGrows
      <4> QED
        BY <2>1, <4>1, <4>2, StepEnds DEF Ends, Faults, Completes, Handled, Rejects
    <3>3. PoolsCounted'
      <4> SUFFICES ASSUME undefined' = "none"
                   PROVE  ValueCount' <= Len(trace') /\ TensorCount' <= RegCount + Len(trace')
        BY DEF PoolsCounted
      <4>1. /\ ValueCount' <= ValueCount + 1 /\ TensorCount' <= TensorCount + 1
            /\ ValueCount <= Len(trace) /\ TensorCount <= RegCount + Len(trace)
            /\ Len(trace') = Len(trace) + 1
        BY <3>1, <3>2 DEF HandlesKept, HandleInv, PoolsCounted
      <4>2. /\ ValueCount \in Nat /\ TensorCount \in Nat /\ ValueCount' \in Nat /\ TensorCount' \in Nat
            /\ Len(trace) \in Nat /\ RegCount \in Nat
        BY PoolSizes, IsaAssumption DEF ValueCount, TensorCount, TypeOK, TraceOK, PoolsOK
      <4> QED
        BY <4>1, <4>2
    <3> QED
      BY <3>1, <3>3 DEF HandleInv, HandlesKept
  <2>2. CASE load_program
    <3>1. /\ trace' = <<>> /\ option_pool' = <<>> /\ result_pool' = <<>> /\ enum_pool' = <<>>
          /\ tensor_pool' = <<>> /\ shape_pool' = <<>> /\ register_tags' = [r \in Regs |-> "Int"]
      BY <2>2 DEF load_program
    <3>2. ValueCount' = 0 /\ TensorCount' = 0 /\ Len(trace') = 0 /\ RegCount \in Nat
      BY <3>1, IsaAssumption DEF ValueCount, TensorCount
    <3>3. RegistersGood'
      BY <3>1 DEF RegistersGood, GoodHandle
    <3> QED
      BY <3>1, <3>2, <3>3 DEF HandleInv, PoolsCounted, PayloadsGood, GoodPool
  <2>3. CASE set_register
    BY <2>3, HonestGood
  <2>4. CASE seed_tensor
    BY <2>4, SeedGood DEF HandleInv
  <2>5. CASE UNCHANGED vars
    BY <2>5 DEF vars, pools, regs, HandleInv, PoolsCounted, ValueCount, TensorCount, RegistersGood,
                PayloadsGood, GoodPool, GoodHandle
  <2> QED
    BY <2>1, <2>2, <2>3, <2>4, <2>5 DEF Next
<1>3. HandleInv => HandlesResolve
  BY DEF HandleInv, RegistersGood, PayloadsGood, HandlesResolve
<1> QED
  BY <1>1, <1>2, <1>3, TypeCorrect, PTL DEF Spec

-----------------------------------------------------------------------------
(* Tensors.                                                                *)

\* The elements a shape announces are a fold.
LEMMA AnnouncedIsFold ==
  ASSUME NEW shape
  PROVE  Announced(shape) = Sizes!Folded(shape)
BY DEF Announced, Sizes!Folded, FoldLeft, Sizes!FoldLeft, MapThenFoldSet, Sizes!MapThenFoldSet,
       Max, Sizes!Max

\* A vector announces its dimension, a matrix the product of both.
LEMMA MatrixAnnounces ==
  ASSUME NEW a \in Int, NEW b \in Int
  PROVE  /\ Announced(<<a>>) = a /\ Announced(<<a, b>>) = a * b
         /\ a \in Nat /\ b \in Nat => <<a>> \in Seq(Nat) /\ <<a, b>> \in Seq(Nat)
<1>1. Sizes!Folded(<<>>) = 1
  BY Sizes!EmptyUnfolds
<1>2. <<>> \in Seq(Int) /\ <<a>> \in Seq(Int) /\ <<a>> = Append(<<>>, a) /\ <<a, b>> = Append(<<a>>, b)
  OBVIOUS
<1>3. Sizes!Folded(Append(<<>>, a)) = Sizes!Folded(<<>>) * a
  BY <1>2, Sizes!FoldAppend
<1>4. Sizes!Folded(Append(<<a>>, b)) = Sizes!Folded(<<a>>) * b
  BY <1>2, Sizes!FoldAppend
<1>5. Sizes!Folded(<<a>>) = a
  BY <1>1, <1>2, <1>3
<1>6. a \in Nat /\ b \in Nat => <<a>> \in Seq(Nat) /\ <<a, b>> \in Seq(Nat)
  OBVIOUS
<1> QED
  BY <1>2, <1>4, <1>5, <1>6, AnnouncedIsFold

\* A sound tensor has the elements its shape announces; a matrix has dimensions
\* the host gave its matrices, whose products do not wrap.
SoundTensor(t) ==
  /\ WellFormed(t)
  /\ Len(t.shape) = 2 => t.shape[1] \in HostDims /\ t.shape[2] \in HostDims

TensorInv ==
  HostTensorsSound =>
    /\ undefined # "tensor"
    /\ \A k \in DOMAIN tensor_pool : SoundTensor(tensor_pool[k])

\* Products of the host's dimensions are what they should be.
LEMMA ElementsExact ==
  ASSUME HostTensorsSound, NEW a \in HostDims, NEW b \in HostDims
  PROVE  Elements(a, b) = a * b /\ a \in Nat /\ b \in Nat /\ ~WrapsAround(a, b)
<1>1. \A d \in HostDims : d \in Nat /\ d < Half
  <2> SUFFICES ASSUME NEW d \in HostDims
               PROVE  d \in Nat /\ d < Half
    OBVIOUS
  <2>1. PICK h \in HostSeeds : d \in Range(h.tensor.shape)
    BY DEF HostDims
  <2>2. h.tensor.shape \in Seq(Int64)
    BY HostSeedsAssumption DEF TensorValue
  <2>3. h.tensor.shape \in Seq(Nat)
    BY DEF HostTensorsSound, WellFormed
  <2> QED
    BY <2>1, <2>2, <2>3, IsaAssumption DEF Range, Int64
<1>2. PICK n : n = a * b /\ n \in 0 .. (2 * Half - 1)
  BY DEF HostTensorsSound
<1>3. n % (2 * Half) = n /\ ~(n >= 2 * Half)
  BY <1>2, IsaAssumption
<1>4. a % (2 * Half) = a /\ b % (2 * Half) = b
  BY <1>1, IsaAssumption
<1> QED
  BY <1>1, <1>2, <1>3, <1>4 DEF Elements, WrapsAround, Dim

\* What a tensor instruction makes of sound tensors is sound.
LEMMA MadeSound ==
  ASSUME TypeOK, HostTensorsSound, Fits, Left \in TensorValue,
         insn.opcode = "TMatMul" => Right \in TensorValue,
         SoundTensor(Left), insn.opcode = "TMatMul" => SoundTensor(Right)
  PROVE  SoundTensor(Made)
<1>1. CASE insn.opcode = "TMatMul"
  <2>1. Len(Left.shape) = 2 /\ Len(Right.shape) = 2
    BY <1>1 DEF Fits, IsMatrix
  <2>2. PICK a, b : a = Left.shape[1] /\ b = Right.shape[2] /\ a \in HostDims /\ b \in HostDims
    BY <1>1, <2>1 DEF SoundTensor
  <2>0. Elements(a, b) = a * b /\ a \in Nat /\ b \in Nat /\ a \in Int /\ b \in Int
    BY <2>2, ElementsExact
  <2>3. Elements(a, b) = a * b /\ Announced(<<a, b>>) = a * b /\ <<a, b>> \in Seq(Nat)
    BY <2>0, MatrixAnnounces
  <2>4. Made = [shape |-> <<a, b>>, size |-> Elements(a, b)]
    BY <1>1, <2>2 DEF Made, Tensor
  <2>5. Made.shape = <<a, b>> /\ Made.size = Announced(Made.shape) /\ Made.shape \in Seq(Nat)
    BY <2>3, <2>4
  <2> QED
    <3>1. Len(Made.shape) = 2 /\ Made.shape[1] = a /\ Made.shape[2] = b
      BY <2>5
    <3> QED
      BY <2>2, <2>5, <3>1 DEF SoundTensor, WellFormed
<1>2. CASE insn.opcode = "TTenDot"
  <2>1. Announced(<<1>>) = 1 /\ Announced(<<1, 1>>) = 1 * 1 /\ <<1>> \in Seq(Nat)
    BY MatrixAnnounces
  <2>2. Made = [shape |-> <<1>>, size |-> 1]
    BY <1>2 DEF Made, Tensor
  <2>3. Made.shape = <<1>> /\ Made.size = Announced(Made.shape) /\ Made.shape \in Seq(Nat)
    BY <2>1, <2>2
  <2> QED
    <3>1. Len(Made.shape) = 1
      BY <2>3
    <3> QED
      BY <2>3, <3>1 DEF SoundTensor, WellFormed
<1>3. CASE insn.opcode = "TTranspose"
  <2>1. Len(Left.shape) = 2 /\ Left.size = Elements(Left.shape[1], Left.shape[2])
    BY <1>3 DEF Fits, IsMatrix
  <2>2. PICK a, b : a = Left.shape[1] /\ b = Left.shape[2] /\ a \in HostDims /\ b \in HostDims
    BY <2>1 DEF SoundTensor
  <2>0. Elements(a, b) = a * b /\ a \in Nat /\ b \in Nat /\ a \in Int /\ b \in Int
    BY <2>2, ElementsExact
  <2>3. Left.size = a * b /\ Announced(<<b, a>>) = b * a /\ <<b, a>> \in Seq(Nat)
    BY <2>0, <2>1, <2>2, MatrixAnnounces
  <2>4. Made = [shape |-> <<b, a>>, size |-> Left.size]
    BY <1>3, <2>2 DEF Made, Tensor
  <2>5. Made.shape = <<b, a>> /\ Made.size = a * b /\ Made.shape \in Seq(Nat)
    BY <2>3, <2>4
  <2>6. Made.size = Announced(Made.shape)
    <3>1. a * b = b * a
      BY <2>0
    <3> QED
      BY <2>3, <2>5, <3>1
  <2> QED
    <3>1. Len(Made.shape) = 2 /\ Made.shape[1] = b /\ Made.shape[2] = a
      BY <2>5
    <3> QED
      BY <2>2, <2>5, <2>6, <3>1 DEF SoundTensor, WellFormed
<1>4. CASE insn.opcode \notin {"TMatMul", "TTenDot", "TTranspose"}
  BY <1>4 DEF Made
<1> QED
  BY <1>1, <1>2, <1>3, <1>4

\* The loops over sound tensors that fit stay within their elements.
LEMMA SoundWithinBounds ==
  ASSUME HostTensorsSound, Fits, SoundTensor(Left), insn.opcode = "TMatMul" => SoundTensor(Right)
  PROVE  ~Overruns
<1>1. CASE insn.opcode = "TMatMul"
  <2>1. Len(Left.shape) = 2 /\ Len(Right.shape) = 2
    BY <1>1 DEF Fits, IsMatrix
  <2>2. Left.shape[1] \in HostDims /\ Left.shape[2] \in HostDims /\ Right.shape[2] \in HostDims
    BY <1>1, <2>1 DEF SoundTensor
  <2> QED
    BY <1>1, <2>2, ElementsExact DEF Overruns
<1>2. CASE insn.opcode = "TTranspose"
  <2>1. Len(Left.shape) = 2
    BY <1>2 DEF Fits, IsMatrix
  <2>2. Left.shape[1] \in HostDims /\ Left.shape[2] \in HostDims
    BY <2>1 DEF SoundTensor
  <2> QED
    BY <1>2, <2>2, ElementsExact DEF Overruns
<1>3. CASE insn.opcode \notin {"TMatMul", "TTranspose"}
  BY <1>3 DEF Overruns
<1> QED
  BY <1>1, <1>2, <1>3

\* A pool of sound tensors is one after a sound tensor is interned.
LEMMA InternSound ==
  ASSUME TypeOK, TensorInv, NEW t \in TensorValue, HostTensorsSound => SoundTensor(t),
         tensor_pool' = Append(tensor_pool, t), undefined' # "tensor"
  PROVE  TensorInv'
<1>1. tensor_pool \in Seq(TensorValue)
  BY DEF TypeOK, PoolsOK
<1>2. \A k \in DOMAIN tensor_pool' : (k \in DOMAIN tensor_pool /\ tensor_pool'[k] = tensor_pool[k])
                                     \/ tensor_pool'[k] = t
  BY <1>1
<1> QED
  BY <1>2 DEF TensorInv

\* What C++ gives no meaning to outside the tensor loops.
OtherwiseUndefined == undefined' \in {"none", "register", "memory", "division"}

\* No other instruction touches the tensors or overruns one.
LEMMA TensorsUntouched ==
  ASSUME step
  PROVE  MakeTensor \/ TensorOverrun \/ UNCHANGED tensor_pool
<1>1. CASE Prologue
  BY <1>1 DEF Prologue, PreloadTrap, FallOff, UnknownOpcode, UndefinedRead, PrologueTrap,
              QuietFault, Fault, trap, pools
<1>2. CASE Flow
  BY <1>2 DEF Flow, Nop, Halt, Jump, BranchTaken, BranchNotTaken, Call, CallOutside, Ret, RetEmpty,
              TrapInsn, FallThrough, JumpTo, QuietFault, Fault, trap, data, pools
<1>3. CASE Scalar
  BY <1>3 DEF Scalar, LoadImm, DivideByZero, Arithmetic, DivisionCrash, Mov, SetF, Neg, Inc, Dec,
              Bump, Cmp, Compare, TNot, TritLogic, QuietFault, Fault, trap, store, pools
<1>4. CASE Memory
  BY <1>4 DEF Memory, Load, LoadOutside, Store, StoreOutside, Push, PushBeyondMemory, PushFull,
              Pop, PopEmpty, StackAlloc, StackAllocFault, StackFree, StackFreeFault, HeapAlloc,
              HeapAllocFault, HeapFree, HeapFreeFault, BoundsFault, QuietFault, Fault, trap, pools
<1>5. CASE Values
  BY <1>5 DEF Values, MakeOption, MakeResult, MakeEnum, MakeEnumFault, ReaderTypeFault,
              ReaderDecodeFault, Test, Unwrap, QuietFault, Fault, trap, otherPools, pools
<1>6. CASE Axion
  BY <1>6 DEF Axion, AxionDeny, AxRead, AxSet, AxVerify, WeightsLoad, Fault, trap, pools
<1>7. CASE TensorStep
  BY <1>7 DEF TensorStep, TensorTypeFault, TensorDecodeFault, TensorShapeFault, ChkShape,
              QuietFault, Fault, trap, pools
<1> QED
  BY <1>1, <1>2, <1>3, <1>4, <1>5, <1>6, <1>7 DEF step

LEMMA ElsewhereUndefined ==
  ASSUME step
  PROVE  TensorOverrun \/ OtherwiseUndefined
<1> USE DEF OtherwiseUndefined, Stepping, Fetched, Fetch, ProduceWith, Produce, Complete, Retire, trap,
            Fault, QuietFault
<1>1. CASE Prologue
  BY <1>1 DEF Prologue, PreloadTrap, FallOff, UnknownOpcode, UndefinedRead, PrologueTrap
<1>2. CASE Flow
  BY <1>2 DEF Flow, Nop, Halt, Jump, BranchTaken, BranchNotTaken, Call, CallOutside, Ret, RetEmpty,
              TrapInsn, FallThrough, JumpTo
<1>3. CASE Scalar
  BY <1>3 DEF Scalar, LoadImm, DivideByZero, Arithmetic, DivisionCrash, Mov, SetF, Neg, Inc, Dec,
              Bump, Cmp, Compare, TNot, TritLogic, ProduceOneOf
<1>4. CASE Memory
  BY <1>4 DEF Memory, Load, LoadOutside, Store, StoreOutside, Push, PushBeyondMemory, PushFull,
              Pop, PopEmpty, StackAlloc, StackAllocFault, StackFree, StackFreeFault, HeapAlloc,
              HeapAllocFault, HeapFree, HeapFreeFault, BoundsFault
<1>5. CASE Values
  BY <1>5 DEF Values, MakeOption, MakeResult, MakeEnum, MakeEnumFault, ReaderTypeFault,
              ReaderDecodeFault, Test, Unwrap
<1>6. CASE Axion
  BY <1>6 DEF Axion, AxionDeny, AxRead, AxSet, AxVerify, WeightsLoad
<1>7. CASE TensorStep
  BY <1>7 DEF TensorStep, TensorTypeFault, TensorDecodeFault, TensorShapeFault, MakeTensor, ChkShape
<1> QED
  BY <1>1, <1>2, <1>3, <1>4, <1>5, <1>6, <1>7 DEF step

\* A tensor instruction that resolves its operands reads tensors of the pool;
\* if they are sound, its loops end within them and it makes a sound one.
LEMMA MakeTensorSound ==
  ASSUME TypeOK, TensorInv, HostTensorsSound, Stepping, Fits, Resolved
  PROVE  SoundTensor(Left) /\ Left \in TensorValue /\ ~Overruns
         /\ (insn.opcode = "TMatMul" => SoundTensor(Right) /\ Right \in TensorValue)
<1>1. tensor_pool \in Seq(TensorValue)
  BY DEF TypeOK, PoolsOK
<1>2. Source \in DOMAIN tensor_pool /\ Left = tensor_pool[Source]
  BY DEF Resolved, Resolves, Left
<1>3. ASSUME insn.opcode = "TMatMul"
      PROVE  registers[insn.c] \in DOMAIN tensor_pool /\ Right = tensor_pool[registers[insn.c]]
  BY <1>3 DEF Resolved, Resolves, Right, RightPool, TensorPairOps
<1>4. Left \in TensorValue /\ SoundTensor(Left)
  BY <1>1, <1>2 DEF TensorInv
<1>5. insn.opcode = "TMatMul" => Right \in TensorValue /\ SoundTensor(Right)
  BY <1>1, <1>3 DEF TensorInv
<1> QED
  BY <1>4, <1>5, SoundWithinBounds

\* Sound tensors of the host give rise to well-formed tensors only: the shape
\* checks of a matrix product and the sizes the element-wise loops run over are
\* those of the data, through any chain of tensor instructions.
THEOREM TensorsAlwaysWellFormed == Spec => []TensorsWellFormed
<1>1. Init => TensorInv
  BY DEF Init, Loaded, TensorInv
<1>2. TypeOK /\ TensorInv /\ [Next]_vars => TensorInv'
  <2> SUFFICES ASSUME TypeOK, TensorInv, [Next]_vars, HostTensorsSound
               PROVE  TensorInv'
    BY DEF TensorInv
  <2>1. CASE step
    <3>1. CASE MakeTensor
      <4>1. /\ tensor_pool' = Append(tensor_pool, Made) /\ Stepping /\ Fits /\ Resolved
            /\ Made \in TensorValue /\ undefined' # "tensor"
        BY <3>1, MadeType DEF MakeTensor, Fetch, Fetched, Stepping, Produce, ProduceWith, Complete, Retire
      <4>2. SoundTensor(Made)
        BY <4>1, MakeTensorSound, MadeSound
      <4> QED
        BY <4>1, <4>2, InternSound
    <3>2. CASE TensorOverrun
      BY <3>2, MakeTensorSound DEF TensorOverrun, Fetch, Fetched
    <3>3. CASE UNCHANGED tensor_pool /\ OtherwiseUndefined
      BY <3>3 DEF TensorInv, OtherwiseUndefined
    <3>4. CASE ~MakeTensor /\ ~TensorOverrun
      BY <2>1, <3>3, <3>4, TensorsUntouched, ElsewhereUndefined
    <3> QED
      BY <3>1, <3>2, <3>4
  <2>2. CASE load_program
    BY <2>2 DEF load_program, TensorInv
  <2>3. CASE set_register
    BY <2>3 DEF set_register, set_register_to, pools, TensorInv
  <2>4. CASE seed_tensor
    <3>1. PICK s \in HostSeeds :
            tensor_pool' = IF s.tag = "TensorHandle" THEN Append(tensor_pool, s.tensor) ELSE tensor_pool
      BY <2>4 DEF seed_tensor
    <3>2. s.tensor \in TensorValue /\ s.tensor.shape \in Seq(Int64)
      BY HostSeedsAssumption DEF TensorValue
    <3>3. HostTensorsSound => SoundTensor(s.tensor)
      <4> SUFFICES ASSUME HostTensorsSound, Len(s.tensor.shape) = 2
                   PROVE  s.tensor.shape[1] \in HostDims /\ s.tensor.shape[2] \in HostDims
        BY DEF HostTensorsSound, SoundTensor
      <4>1. s.tensor.shape[1] \in Range(s.tensor.shape) /\ s.tensor.shape[2] \in Range(s.tensor.shape)
        BY <3>2 DEF Range
      <4> QED
        BY <4>1 DEF HostDims
    <3> QED
      BY <2>4, <3>1, <3>2, <3>3, InternSound DEF seed_tensor, TensorInv
  <2>5. CASE UNCHANGED vars
    BY <2>5 DEF vars, pools, TensorInv
  <2> QED
    BY <2>1, <2>2, <2>3, <2>4, <2>5 DEF Next
<1>3. TensorInv => TensorsWellFormed
  BY DEF TensorInv, SoundTensor, TensorsWellFormed
<1> QED
  BY <1>1, <1>2, <1>3, TypeCorrect, PTL DEF Spec


-----------------------------------------------------------------------------
(* The write annotations.                                                  *)

\* Nothing but annotated instructions writes registers.
Annotated ==
  /\ HostWrites = {} /\ HostSeeds = {} /\ Reloadable = {}
  /\ UnannotatedOps \cap Opcodes(program) = {}

Shows(write, r) == registers[r] = write.value /\ register_tags[r] = write.tag

\* Entry k is the last to annotate a write of register r.
LastWrite(r, k) ==
  /\ k \in DOMAIN trace /\ trace[k].write.reg = r
  /\ \A j \in DOMAIN trace : j > k => trace[j].write.reg # r

Explained(r) ==
  \/ /\ \A k \in DOMAIN trace : trace[k].write.reg # r
     /\ registers[r] = 0 /\ register_tags[r] = "Int"
  \/ \E k : LastWrite(r, k) /\ Shows(trace[k].write, r)

\* The latch too shows what its register holds: the entry of a prologue trap
\* repeats it.
LatchInv ==
  Annotated =>
    /\ \A r \in Regs : Explained(r)
    /\ current_write.reg \in Regs => Shows(current_write, current_write.reg)

LEMMA LastWriteFound ==
  ASSUME TypeOK, LatchInv
  PROVE  TraceExplainsRegisters
<1> SUFFICES ASSUME Annotated, NEW r \in Regs
             PROVE  LET k == SelectLastInSeq(trace, LAMBDA e : e.write.reg = r)
                    IN  <<registers[r], register_tags[r]>> =
                          IF k = 0 THEN <<0, "Int">> ELSE <<trace[k].write.value, trace[k].write.tag>>
  BY DEF TraceExplainsRegisters, Annotated
<1> DEFINE Hits == {j \in 1 .. Len(trace) : trace[j].write.reg = r}
<1>1. Len(trace) \in Nat /\ DOMAIN trace = 1 .. Len(trace) /\ Hits \subseteq Int
  BY DEF TypeOK, TraceOK
<1>2. SelectLastInSeq(trace, LAMBDA e : e.write.reg = r) = IF Hits # {} THEN Max(Hits) ELSE 0
  BY DEF SelectLastInSeq
<1>3. CASE /\ \A k \in DOMAIN trace : trace[k].write.reg # r
           /\ registers[r] = 0 /\ register_tags[r] = "Int"
  <2>1. Hits = {}
    BY <1>1, <1>3
  <2> QED
    BY <1>2, <1>3, <2>1
<1>4. CASE \E k : LastWrite(r, k) /\ Shows(trace[k].write, r)
  <2>1. PICK k : LastWrite(r, k) /\ Shows(trace[k].write, r)
    BY <1>4
  <2>2. k \in Hits /\ \A y \in Hits : k >= y
    BY <1>1, <2>1 DEF LastWrite
  <2>3. Hits # {} /\ k # 0
    BY <1>1, <2>2
  <2>4. Max(Hits) = k
    BY <1>1, <2>2, MaxIs
  <2>5. SelectLastInSeq(trace, LAMBDA e : e.write.reg = r) = k
    BY <1>2, <2>3, <2>4
  <2>6. <<registers[r], register_tags[r]>> = <<trace[k].write.value, trace[k].write.tag>>
    BY <2>1 DEF Shows
  <2> QED
    BY <2>3, <2>5, <2>6
<1> QED
  BY <1>3, <1>4 DEF LatchInv, Explained

\* A new entry explains the register it annotates and leaves the others explained.
LEMMA EntryExplains ==
  ASSUME TypeOK, TypeOK', NEW e, trace' = Append(trace, e), NEW r \in Regs,
         IF e.write.reg = r THEN registers'[r] = e.write.value /\ register_tags'[r] = e.write.tag
         ELSE Explained(r) /\ registers'[r] = registers[r] /\ register_tags'[r] = register_tags[r]
  PROVE  Explained(r)'
<1>1. /\ Len(trace) \in Nat /\ DOMAIN trace = 1 .. Len(trace)
      /\ DOMAIN trace' = 1 .. (Len(trace) + 1) /\ trace'[Len(trace) + 1] = e
      /\ \A k \in 1 .. Len(trace) : trace'[k] = trace[k]
  BY TraceGrows
<1>2. CASE e.write.reg = r
  <2>1. PICK k : k = Len(trace) + 1
    OBVIOUS
  <2>2. LastWrite(r, k)' /\ trace'[k] = e
    BY <1>1, <1>2, <2>1 DEF LastWrite
  <2> QED
    BY <1>2, <2>2 DEF Explained, LastWrite, Shows
<1>3. CASE e.write.reg # r
  <2>1. CASE \E k : LastWrite(r, k) /\ Shows(trace[k].write, r)
    <3>1. PICK k : LastWrite(r, k) /\ Shows(trace[k].write, r)
      BY <2>1
    <3>2. LastWrite(r, k)' /\ trace'[k] = trace[k]
      BY <1>1, <1>3, <3>1 DEF LastWrite
    <3> QED
      BY <1>3, <3>1, <3>2 DEF Explained, LastWrite, Shows
  <2>2. CASE /\ \A k \in DOMAIN trace : trace[k].write.reg # r
             /\ registers[r] = 0 /\ register_tags[r] = "Int"
    BY <1>1, <1>3, <2>2 DEF Explained
  <2> QED
    BY <1>3, <2>1, <2>2 DEF Explained
<1> QED
  BY <1>2, <1>3

LEMMA LatchStep ==
  ASSUME TypeOK, TypeOK', LatchInv, [Next]_vars, Annotated'
  PROVE  /\ \A r \in Regs : Explained(r)'
         /\ current_write'.reg \in Regs
              => /\ registers'[current_write'.reg] = current_write'.value
                 /\ register_tags'[current_write'.reg] = current_write'.tag
<1>1. ~load_program /\ ~set_register /\ ~seed_tensor
  BY DEF Annotated, load_program, set_register, seed_tensor
<1>2. program' = program
  BY <1>1, NextCases DEF Lost, Faults, Completes, Rejects, Handled, HostActs
<1>3. Annotated /\ (\A r \in Regs : Explained(r))
      /\ (current_write.reg \in Regs => Shows(current_write, current_write.reg))
  BY <1>2 DEF Annotated, LatchInv
<1>4. NoWrite.reg \notin Regs
  BY IsaAssumption DEF NoWrite, Write, Regs
<1>5. CASE Lost \/ UNCHANGED vars
  <2>1. UNCHANGED <<registers, register_tags, trace, current_write>>
    BY <1>5 DEF Lost, vars, regs
  <2> QED
    BY <1>3, <2>1 DEF Explained, LastWrite, Shows
<1>6. ASSUME NEW code, Rejects(code)
      PROVE  /\ \A r \in Regs : Explained(r)'
             /\ current_write'.reg \in Regs
                  => /\ registers'[current_write'.reg] = current_write'.value
                     /\ register_tags'[current_write'.reg] = current_write'.tag
  <2>1. PICK op : trace' = Append(trace, Entry(pc, op, current_write, code))
    BY <1>6 DEF Rejects
  <2>2. UNCHANGED <<registers, register_tags, current_write>>
    BY <1>6 DEF Rejects, regs
  <2>3. Entry(pc, op, current_write, code).write = current_write
    BY DEF Entry
  <2> QED
    BY <1>3, <2>1, <2>2, <2>3, EntryExplains DEF Shows
<1>7. ASSUME NEW code, Handled(NoWrite, code), UNCHANGED <<registers, register_tags>>
      PROVE  /\ \A r \in Regs : Explained(r)'
             /\ current_write'.reg \notin Regs
  <2>1. trace' = Append(trace, Ran(NoWrite, code)) /\ Ran(NoWrite, code).write = NoWrite
        /\ current_write' = NoWrite
    BY <1>7 DEF Handled, Ran, Entry
  <2> QED
    BY <1>3, <1>4, <1>7, <2>1, EntryExplains
<1>8. ASSUME NEW w, Completes(w)
      PROVE  /\ \A r \in Regs : Explained(r)'
             /\ current_write'.reg \in Regs
                  => /\ registers'[current_write'.reg] = current_write'.value
                     /\ register_tags'[current_write'.reg] = current_write'.tag
  <2>1. CASE w = NoWrite /\ (UNCHANGED regs \/ insn.opcode \in UnannotatedOps)
    <3>1. insn.opcode \notin UnannotatedOps
      BY <1>3, <1>8, FetchedOpcode DEF Completes, Handled, Annotated
    <3> QED
      BY <1>7, <1>8, <2>1, <3>1 DEF Completes, regs
  <2>2. ASSUME NEW v \in Int64, NEW t \in ValueTag, insn.a \in Regs, w = Write(insn.a, v, t),
               registers' = [registers EXCEPT ![insn.a] = v],
               register_tags' = [register_tags EXCEPT ![insn.a] = t]
        PROVE  /\ \A r \in Regs : Explained(r)'
               /\ current_write'.reg \in Regs
                    => /\ registers'[current_write'.reg] = current_write'.value
                       /\ register_tags'[current_write'.reg] = current_write'.tag
    <3>1. trace' = Append(trace, Ran(w, NoTrap)) /\ Ran(w, NoTrap).write = w /\ current_write' = w
          /\ w.reg = insn.a /\ w.value = v /\ w.tag = t
      BY <1>8, <2>2 DEF Completes, Handled, Ran, Entry, Write
    <3>2. \A r \in Regs : /\ registers'[r] = IF r = insn.a THEN v ELSE registers[r]
                          /\ register_tags'[r] = IF r = insn.a THEN t ELSE register_tags[r]
      BY <2>2 DEF TypeOK, RegsOK
    <3> QED
      BY <1>3, <2>2, <3>1, <3>2, EntryExplains
  <2> QED
    BY <1>8, <2>1, <2>2 DEF Completes, Writes
<1> QED
  BY <1>1, <1>5, <1>6, <1>7, <1>8, NextCases DEF Faults, HostActs, regs

\* In a program of annotated instructions that runs undisturbed, a reader of the
\* trace knows every register and its tag: the last annotation of the register
\* is what it holds, also when a prologue trap has repeated a stale one.
THEOREM TraceAlwaysExplains == Spec => []TraceExplainsRegisters
<1>1. Init => LatchInv
  <2> SUFFICES ASSUME Init
               PROVE  LatchInv
    OBVIOUS
  <2>1. current_write.reg \notin Regs /\ trace = <<>>
    BY IsaAssumption DEF Init, Loaded, NoWrite, Write, Regs
  <2> QED
    BY <2>1 DEF Init, Loaded, LatchInv, Explained
<1>2. TypeOK /\ TypeOK' /\ LatchInv /\ [Next]_vars => LatchInv'
  BY LatchStep DEF LatchInv, Shows
<1>3. TypeOK /\ LatchInv => TraceExplainsRegisters
  BY LastWriteFound
<1> QED
  BY <1>1, <1>2, <1>3, TypeCorrect, PTL DEF Spec

-----------------------------------------------------------------------------
(* Results.                                                                *)

ResultOps == ArithOps \cup TritOps \cup {"Neg", "TNot"}

\* Only one handler completes an instruction of these.
LEMMA ResultRan ==
  ASSUME TypeOK, TypeOK', step, NEW w, Completes(w), insn.opcode \in ResultOps
  PROVE  Arithmetic \/ Neg \/ TNot \/ TritLogic
<1>1. /\ Fetched /\ preload_trap = NoTrap /\ pc < Len(program.insns) /\ pc \in Nat
      /\ Len(program.insns) \in Nat
  BY DEF Completes, Handled, Fetched, TypeOK, ControlOK, Program
<1>2. /\ trace' # trace
      /\ \A op, write, code : trace' = Append(trace, Entry(pc, op, write, code)) => code = NoTrap
  <2>1. trace' = Append(trace, Ran(w, NoTrap))
    BY DEF Completes, Handled
  <2>2. trace'[Len(trace) + 1] = Ran(w, NoTrap) /\ Len(trace') = Len(trace) + 1
        /\ Len(trace) \in Nat
    BY <2>1, TraceGrows
  <2>3. ASSUME NEW op, NEW write, NEW code, trace' = Append(trace, Entry(pc, op, write, code))
        PROVE  code = NoTrap
    <3>1. trace'[Len(trace) + 1] = Entry(pc, op, write, code)
      BY <2>3, TraceGrows
    <3> QED
      BY <2>2, <3>1 DEF Ran, Entry
  <2> QED
    BY <2>2, <2>3
<1>3. ~Prologue
  BY <1>1, <1>2 DEF Prologue, PreloadTrap, FallOff, UnknownOpcode, UndefinedRead, ResultOps,
     IllegalOpcode, ArithOps, AddOps, SubOps, MulOps, DivOps, TritOps
<1>4. /\ ~Flow /\ ~Memory /\ ~Values /\ ~TensorStep /\ ~Axion
  <2> USE DEF Fetch, ResultOps, ArithOps, AddOps, SubOps, MulOps, DivOps, TritOps
  <2>1. ~Flow
    BY DEF Flow, Nop, Halt, Jump, BranchTaken, BranchNotTaken, Call, CallOutside, Ret, RetEmpty,
           TrapInsn, BranchOps
  <2>2. ~Memory
    BY DEF Memory, Load, LoadOutside, Store, StoreOutside, Push, PushBeyondMemory, PushFull, Pop,
           PopEmpty, StackAlloc, StackAllocFault, StackFree, StackFreeFault, HeapAlloc,
           HeapAllocFault, HeapFree, HeapFreeFault
  <2>3. ~Values
    BY DEF Values, MakeOption, MakeResult, MakeEnum, MakeEnumFault, ReaderTypeFault,
           ReaderDecodeFault, Test, Unwrap, UnwrapOps, Tests
  <2>4. ~TensorStep
    BY DEF TensorStep, TensorTypeFault, TensorDecodeFault, TensorShapeFault, TensorOverrun,
           MakeTensor, ChkShape, TensorOps, TensorPairOps, TensorUnaryOps
  <2>5. ~Axion
    BY DEF Axion, AxionDeny, AxRead, AxSet, AxVerify, WeightsLoad, AxionOps
  <2> QED
    BY <2>1, <2>2, <2>3, <2>4, <2>5
<1>5. ~DivideByZero /\ ~DivisionCrash
  <2>1. "DivisionFault" # NoTrap
    BY DEF NoTrap
  <2> QED
    BY <1>2, <2>1 DEF DivideByZero, DivisionCrash, QuietFault, Fault, trap
<1>6. ~(LoadImm \/ Mov \/ SetF \/ Inc \/ Dec \/ Cmp \/ Compare)
  BY DEF Fetch, ResultOps, ArithOps, AddOps, SubOps, MulOps, DivOps, TritOps, LoadImm, Mov, SetF,
         Inc, Dec, Cmp, Compare, ConvertOps, CompareOps
<1> QED
  BY <1>3, <1>4, <1>5, <1>6 DEF step, Scalar

\* The result of an instruction that completed last, from its operands: exact
\* wherever C++ says what it is.
Computes(opcode, x, y, z) ==
  /\ opcode \in ArithOps =>
       /\ Divides(opcode) => y # 0
       /\ Arith(opcode, x, y) \in Int64 /\ ~(Divides(opcode) /\ x = -Half /\ y = -1)
            => z = Arith(opcode, x, y)
  /\ opcode = "Neg" => (-x \in Int64 => z = -x)
  /\ opcode = "TNot" => z = -clamp_trit(x)
  /\ opcode \in TritOps => z = TritOp(opcode, clamp_trit(x), clamp_trit(y))

\* The last instruction, if it computed a result and its operands still stand,
\* left what Computes says of them.
LastComputed ==
  JustRan(ResultOps) =>
    LET x == registers[LastInsn.b]
        y == registers[LastInsn.c]
        z == registers[LastInsn.a]
    IN  /\ x \in Int64
        /\ LastInsn.opcode \in ArithOps \cup TritOps => y \in Int64
        /\ Last(trace).opcode = LastInsn.opcode
        /\ Computes(LastInsn.opcode, x, y, z)

LEMMA ResultComputed ==
  ASSUME TypeOK, TypeOK', step, NEW w, Completes(w), insn.opcode \in ResultOps,
         insn.a \notin {insn.b, insn.c}
  PROVE  /\ registers'[insn.b] \in Int64
         /\ insn.opcode \in ArithOps \cup TritOps => registers'[insn.c] \in Int64
         /\ Computes(insn.opcode, registers'[insn.b], registers'[insn.c], registers'[insn.a])
<1>1. Arithmetic \/ Neg \/ TNot \/ TritLogic
  BY ResultRan
<1>2. /\ insn.b \in Regs
      /\ insn.opcode \in ArithOps \cup TritOps => insn.c \in Regs
  BY <1>1 DEF Arithmetic, Neg, TNot, TritLogic, Fetch, OperandsInRange, IndexesB, IndexesC, UsesB,
     UsesC, ArithOps, AddOps, SubOps, MulOps, DivOps, TritOps, TensorPairOps
<1>3. ASSUME NEW v, NEW tag, NEW f, ProduceWith(v, tag, f)
      PROVE  insn.a \in Regs /\ registers' = [registers EXCEPT ![insn.a] = v]
  <2>1. trace' # trace
    BY TraceGrows DEF Completes, Handled
  <2> QED
    BY <1>3, <2>1 DEF ProduceWith
<1>4. ASSUME NEW v, insn.a \in Regs, registers' = [registers EXCEPT ![insn.a] = v]
      PROVE  /\ registers'[insn.a] = v /\ registers'[insn.b] = registers[insn.b]
             /\ insn.c \in Regs => registers'[insn.c] = registers[insn.c]
             /\ registers[insn.b] \in Int64
             /\ insn.c \in Regs => registers[insn.c] \in Int64
  BY <1>2, <1>4 DEF TypeOK, RegsOK
<1>5. CASE Arithmetic
  <2>1. insn.opcode \in ArithOps
        /\ insn.opcode \notin TritOps \cup {"Neg", "TNot"}
        /\ (Divides(insn.opcode) => registers[insn.c] # 0)
    BY <1>5 DEF Arithmetic, Fetch, ArithOps, AddOps, SubOps, MulOps, DivOps, TritOps
  <2>2. PICK z : /\ \E f : ProduceWith(z, "Int", f)
                 /\ Arith(insn.opcode, registers[insn.b], registers[insn.c]) \in Int64 /\ ~QuotientOverflows
                      => z = Arith(insn.opcode, registers[insn.b], registers[insn.c])
    BY <1>5 DEF Arithmetic, ProduceOneOf, Words
  <2> QED
    BY <1>2, <1>3, <1>4, <2>1, <2>2 DEF Computes, QuotientOverflows
<1>6. CASE Neg
  <2>1. insn.opcode = "Neg" /\ insn.opcode \notin ArithOps \cup TritOps
    BY <1>6 DEF Neg, Fetch, ArithOps, AddOps, SubOps, MulOps, DivOps, TritOps
  <2>2. PICK z : /\ \E f : ProduceWith(z, "Int", f)
                 /\ -registers[insn.b] \in Int64 => z = -registers[insn.b]
    BY <1>6 DEF Neg, ProduceOneOf, Words
  <2> QED
    BY <1>2, <1>3, <1>4, <2>1, <2>2 DEF Computes
<1>7. CASE TNot
  <2>1. insn.opcode = "TNot" /\ insn.opcode \notin ArithOps \cup TritOps
    BY <1>7 DEF TNot, Fetch, ArithOps, AddOps, SubOps, MulOps, DivOps, TritOps
  <2>2. \E f : ProduceWith(-clamp_trit(registers[insn.b]), "Int", f)
    BY <1>7 DEF TNot, Produce
  <2> QED
    BY <1>2, <1>3, <1>4, <2>1, <2>2 DEF Computes
<1>8. CASE TritLogic
  <2>1. insn.opcode \in TritOps /\ insn.opcode \notin ArithOps \cup {"Neg", "TNot"}
    BY <1>8 DEF TritLogic, Fetch, ArithOps, AddOps, SubOps, MulOps, DivOps, TritOps
  <2>2. \E f : ProduceWith(TritOp(insn.opcode, clamp_trit(registers[insn.b]),
                                 clamp_trit(registers[insn.c])), "Int", f)
    BY <1>8 DEF TritLogic, Produce
  <2> QED
    BY <1>2, <1>3, <1>4, <2>1, <2>2 DEF Computes
<1> QED
  BY <1>1, <1>5, <1>6, <1>7, <1>8

LEMMA LastComputedStep ==
  ASSUME TypeOK, TypeOK', LastComputed, [Next]_vars
  PROVE  LastComputed'
<1>1. ASSUME UNCHANGED <<program, registers, trace>>
      PROVE  LastComputed'
  <2>1. UNCHANGED <<LastInsn, JustRan(ResultOps)>>
    BY <1>1 DEF LastInsn, JustRan, Completed, Last
  <2> QED
    BY <1>1, <2>1 DEF LastComputed, Last
<1>2. ASSUME NEW e, trace' = Append(trace, e), ~Completed(e)
      PROVE  LastComputed'
  <2>1. Last(trace') = e
    BY <1>2, TraceGrows DEF Last
  <2> QED
    BY <1>2, <2>1 DEF LastComputed, JustRan, Completed
<1>3. CASE load_program \/ set_register \/ seed_tensor \/ UNCHANGED vars
  <2>1. CASE load_program
    BY <2>1 DEF load_program, LastComputed, JustRan
  <2>2. CASE set_register
    BY <2>2 DEF set_register, LastComputed, JustRan
  <2>3. CASE seed_tensor
    BY <2>3 DEF seed_tensor, LastComputed, JustRan
  <2>4. CASE UNCHANGED vars
    BY <1>1, <2>4 DEF vars, regs
  <2> QED
    BY <1>3, <2>1, <2>2, <2>3, <2>4
<1>4. CASE Lost
  BY <1>1, <1>4 DEF Lost, regs
<1>5. ASSUME NEW code \in TrapCode, Faults(code) \/ Rejects(code)
      PROVE  LastComputed'
  <2>1. PICK op, write : trace' = Append(trace, Entry(pc, op, write, code))
    BY <1>5 DEF Faults, Handled, Ran, Rejects
  <2>2. ~Completed(Entry(pc, op, write, code))
    BY DEF Completed, Entry, TrapCode, NoTrap
  <2> QED
    BY <1>2, <2>1, <2>2
<1>6. ASSUME step, NEW w, Completes(w)
      PROVE  LastComputed'
  <2>1. /\ trace' = Append(trace, Ran(w, NoTrap)) /\ program' = program
        /\ Ran(w, NoTrap).pc = pc /\ Ran(w, NoTrap).opcode = insn.opcode
    BY <1>6 DEF Completes, Handled, Ran, Entry
  <2>2. Last(trace') = Ran(w, NoTrap)
    BY <2>1, TraceGrows DEF Last
  <2>3. LastInsn' = insn
    BY <2>1, <2>2 DEF LastInsn, insn
  <2>4. JustRan(ResultOps)' => insn.opcode \in ResultOps /\ insn.a \notin {insn.b, insn.c}
    BY <2>1, <2>2, <2>3 DEF JustRan, ResultOps
  <2> QED
    BY <1>6, <2>1, <2>2, <2>3, <2>4, ResultComputed DEF LastComputed
<1> QED
  BY <1>3, <1>4, <1>5, <1>6, StepEnds DEF Next, Ends

\* Whatever happened before, the word an arithmetic, division or trit
\* instruction has just left is its function of the operands it read, unless
\* that overflows.
THEOREM LastAlwaysComputed == Spec => [](TypeOK /\ LastComputed)
<1>1. Init => LastComputed
  BY DEF Init, Loaded, LastComputed, JustRan
<1>2. TypeOK /\ TypeOK' /\ LastComputed /\ [Next]_vars => LastComputed'
  BY LastComputedStep
<1> QED
  BY <1>1, <1>2, TypeCorrect, PTL DEF Spec

\* Trit logic is balanced-ternary logic on the signs of its operands, for every
\* word size and whatever else the program did.
THEOREM TritsAlwaysFold == Spec => []TritsFold
<1>1. TypeOK /\ LastComputed => TritsFold
  <2> SUFFICES ASSUME LastComputed, JustRan(TritOps \cup {"TNot"})
               PROVE  TritsFold
    BY DEF TritsFold
  <2> DEFINE op == LastInsn.opcode
             x == clamp_trit(registers[LastInsn.b])
             y == clamp_trit(registers[LastInsn.c])
             z == registers[LastInsn.a]
  <2>1. JustRan(ResultOps) /\ op \in TritOps \cup {"TNot"}
    BY DEF JustRan, ResultOps, LastComputed
  <2>2. /\ registers[LastInsn.b] \in Int
        /\ op \in TritOps => registers[LastInsn.c] \in Int /\ z = TritOp(op, x, y)
        /\ op = "TNot" => z = -x
    BY <2>1 DEF LastComputed, Computes, Int64
  <2>3. x \in -1 .. 1 /\ (op \in TritOps => y \in -1 .. 1)
    BY <2>2 DEF clamp_trit
  <2> HIDE DEF x, y, z, op
  <2>4. op = "TNot" => z \in -1 .. 1 /\ z + x = 0
    BY <2>2, <2>3
  <2>5. op = "TAnd" => z \in -1 .. 1 /\ z \in {x, y} /\ z <= x /\ z <= y
    BY <2>2, <2>3 DEF TritOp, TritOps
  <2>6. op = "TOr" => z \in -1 .. 1 /\ z \in {x, y} /\ z >= x /\ z >= y
    BY <2>2, <2>3 DEF TritOp, TritOps
  <2>7. op = "TXor" => z \in -1 .. 1 /\ (z - (x - y)) % 3 = 0
    BY <2>2, <2>3 DEF TritOp, TritXor, TritOps
  <2> QED
    BY <2>1, <2>4, <2>5, <2>6, <2>7 DEF TritsFold, x, y, z, op, TritOps
<1> QED
  BY <1>1, LastAlwaysComputed, PTL

-----------------------------------------------------------------------------
(* Quotients.                                                            *)

\* Euclidean division.
LEMMA DivMod ==
  ASSUME NEW m \in Int, NEW n \in Nat \ {0}
  PROVE  /\ m \div n \in Int /\ m % n \in 0 .. (n - 1)
         /\ m = (m \div n) * n + (m % n)
OBVIOUS

LEMMA Distributes ==
  ASSUME NEW q \in Int, NEW d \in Int, NEW n \in Int
  PROVE  (q - d) * n = q * n - d * n /\ (-q) * n = -(q * n) /\ q * n \in Int
<1>1. \A k, j \in Int : (k - j) * n = k * n - j * n
  OBVIOUS
<1>2. (0 - q) * n = 0 * n - q * n /\ q * n \in Int
  BY <1>1
<1>3. -q = 0 - q /\ 0 * n = 0
  OBVIOUS
<1>4. (-q) * n = -(q * n)
  BY <1>2, <1>3
<1> QED
  BY <1>1, <1>2, <1>4

\* Whole multiples leave no remainder.
LEMMA MultipleMod ==
  ASSUME NEW q \in Int, NEW n \in Nat \ {0}
  PROVE  (q * n) % n = 0
<1>0. PICK m \in Int : m = q * n
  BY Distributes
<1>1. PICK d \in Int, r \in 0 .. (n - 1) : m = d * n + r /\ r = m % n
  BY DivMod
<1>2. (q - d) * n = r
  <2>1. d \in Int /\ n \in Int
    OBVIOUS
  <2>2. (q - d) * n = q * n - d * n /\ d * n \in Int
    BY <2>1, Distributes
  <2>3. PICK p \in Int : p = d * n
    BY <2>2
  <2>4. (q - d) * n = m - p
    BY <1>0, <2>2, <2>3, Zenon
  <2>5. m = p + r
    BY <1>1, <2>3, Zenon
  <2>6. m - p = r
    BY <2>5
  <2> QED
    BY <2>4, <2>6, Zenon
<1>3. PICK k \in Int : k = q - d
  OBVIOUS
<1>4. k * n = r
  BY <1>2, <1>3
<1>5. k >= 1 => k * n >= n
  BY <1>3
<1>6. k <= -1 => k * n <= -n
  BY <1>3
<1>7. k = 0
  BY <1>1, <1>3, <1>4, <1>5, <1>6
<1> QED
  BY <1>0, <1>1, <1>4, <1>7

\* The quotient of naturals, and what it leaves.
LEMMA NaturalQuotient ==
  ASSUME NEW m \in Nat, NEW n \in Nat \ {0}
  PROVE  /\ m \div n \in Nat /\ m \div n <= m
         /\ m - (m \div n) * n \in 0 .. (n - 1)
         /\ m \div n = m => m = 0 \/ n = 1
<1>1. m \div n \in Int /\ m % n \in 0 .. (n - 1) /\ m = (m \div n) * n + (m % n)
  BY DivMod
<1> DEFINE q == m \div n
<1>2. q \in Nat
  OBVIOUS
<1>3. m - q * n = m % n
  <2>1. m = q * n + (m % n) /\ m % n \in Int /\ q * n \in Int
    BY <1>1, <1>2
  <2> HIDE DEF q
  <2> QED
    BY <2>1
<1>4. q <= q * n
  BY <1>2
<1>5. q <= m
  BY <1>1, <1>2, <1>4
<1>6. q = m => m = 0 \/ n = 1
  <2>1. m = q * n + (m % n) /\ m % n >= 0 /\ q * n \in Int
    BY <1>1, <1>2
  <2> HIDE DEF q
  <2>2. q >= 1 /\ n >= 2 => q * n >= q + q
    BY <1>2
  <2> QED
    BY <1>2, <2>1, <2>2
<1> QED
  BY <1>1, <1>2, <1>3, <1>5, <1>6

\* TruncDiv rounds the quotient of the magnitudes, and takes the sign afterwards.
LEMMA Truncation ==
  ASSUME NEW x \in Int, NEW y \in Int \ {0}
  PROVE  LET q == TruncDiv(x, y)
             r == x - q * y
         IN  /\ q \in Int /\ r \in Int /\ TruncMod(x, y) = r
             /\ Magnitude(r) < Magnitude(y)
             /\ (x - r) % Magnitude(y) = 0
             /\ r # 0 => (r < 0) = (x < 0)
             /\ Magnitude(q) <= Magnitude(x)
             /\ Magnitude(q) = Magnitude(x) => x = 0 \/ Magnitude(y) = 1
<1> DEFINE q == TruncDiv(x, y)
           r == x - q * y
<1>1. PICK m \in Nat, n \in Nat \ {0} : m = Magnitude(x) /\ n = Magnitude(y)
  BY DEF Magnitude
<1>2. PICK k \in Nat, l \in 0 .. (n - 1) : k = m \div n /\ l = m - k * n
  BY <1>1, NaturalQuotient
<1>3. k <= m /\ (k = m => m = 0 \/ n = 1)
  BY <1>1, <1>2, NaturalQuotient
<1>4. PICK p \in Nat : p = k * n
  BY <1>1, <1>2
<1>5. l = m - p
  BY <1>2, <1>4
<1>6. q = IF (x < 0) = (y < 0) THEN k ELSE -k
  BY <1>1, <1>2 DEF TruncDiv
<1>7. q * y = IF x < 0 THEN -p ELSE p
  <2>1. CASE x < 0 /\ y < 0
    <3>1. q = k /\ y = -n
      BY <1>1, <1>6, <2>1 DEF Magnitude
    <3>2. k * (-n) = -(k * n)
      BY <1>1, <1>2
    <3> QED
      BY <1>4, <2>1, <3>1, <3>2
  <2>2. CASE x < 0 /\ ~(y < 0)
    <3>1. q = -k /\ y = n
      BY <1>1, <1>6, <2>2 DEF Magnitude
    <3>2. (-k) * n = -(k * n)
      BY <1>1, <1>2, Distributes
    <3> QED
      BY <1>4, <2>2, <3>1, <3>2
  <2>3. CASE ~(x < 0) /\ y < 0
    <3>1. q = -k /\ y = -n
      BY <1>1, <1>6, <2>3 DEF Magnitude
    <3>2. (-k) * (-n) = k * n
      BY <1>1, <1>2
    <3> QED
      BY <1>4, <2>3, <3>1, <3>2
  <2>4. CASE ~(x < 0) /\ ~(y < 0)
    BY <1>1, <1>4, <1>6, <2>4 DEF Magnitude
  <2> QED
    BY <2>1, <2>2, <2>3, <2>4
<1>8. r = IF x < 0 THEN -l ELSE l
  BY <1>1, <1>4, <1>5, <1>7 DEF Magnitude
<1>9. q \in Int /\ Magnitude(q) = k
  BY <1>2, <1>6 DEF Magnitude
<1>10. (x - r) % n = 0
  <2>1. x - r = IF x < 0 THEN -p ELSE p
    BY <1>1, <1>4, <1>5, <1>8 DEF Magnitude
  <2>2. p % n = 0 /\ (-p) % n = 0
    <3>1. (-k) * n = -(k * n)
      BY <1>1, <1>2, Distributes
    <3>2. k \in Int /\ -k \in Int
      BY <1>2
    <3>3. (k * n) % n = 0 /\ ((-k) * n) % n = 0
      BY <1>1, <3>2, MultipleMod
    <3> QED
      BY <1>4, <3>1, <3>3
  <2> QED
    BY <2>1, <2>2
<1>11. TruncMod(x, y) = r
  <2>1. y * q = q * y
    BY <1>9
  <2> QED
    BY <2>1 DEF TruncMod
<1>12. r \in Int /\ Magnitude(r) = l /\ (r # 0 => (r < 0) = (x < 0))
  BY <1>1, <1>2, <1>8 DEF Magnitude
<1> HIDE DEF q, r
<1>13. /\ q \in Int /\ r \in Int /\ TruncMod(x, y) = r
       /\ Magnitude(r) < Magnitude(y)
       /\ (x - r) % Magnitude(y) = 0
       /\ r # 0 => (r < 0) = (x < 0)
       /\ Magnitude(q) <= Magnitude(x)
       /\ Magnitude(q) = Magnitude(x) => x = 0 \/ Magnitude(y) = 1
  <2>1. Magnitude(r) < n /\ Magnitude(q) <= m /\ (Magnitude(q) = m => m = 0 \/ n = 1)
    BY <1>1, <1>2, <1>3, <1>9, <1>12
  <2>2. m = 0 => x = 0
    BY <1>1 DEF Magnitude
  <2> QED
    BY <1>1, <1>9, <1>10, <1>11, <1>12, <2>1, <2>2
<1> QED
  BY <1>13 DEF q, r

\* Of two words, the one quotient that is no word is INT64_MIN / -1.
LEMMA QuotientFits ==
  ASSUME NEW x \in Int64, NEW y \in Int64 \ {0}, ~(x = -Half /\ y = -1)
  PROVE  TruncDiv(x, y) \in Int64 /\ TruncMod(x, y) \in Int64
<1>1. x \in Int /\ y \in Int \ {0} /\ Half \in Nat \ {0, 1}
      /\ Magnitude(x) \in 0 .. Half /\ Magnitude(y) \in 1 .. Half
  BY IsaAssumption DEF Int64, Magnitude
<1>2. PICK q, r : q = TruncDiv(x, y) /\ r = x - q * y
  OBVIOUS
<1>3. /\ q \in Int /\ r \in Int /\ TruncMod(x, y) = r
      /\ Magnitude(r) < Magnitude(y) /\ Magnitude(q) <= Magnitude(x)
      /\ Magnitude(q) = Magnitude(x) => x = 0 \/ Magnitude(y) = 1
  BY <1>1, <1>2, Truncation
<1>4. r \in Int64
  BY <1>1, <1>3 DEF Magnitude, Int64
<1>5. q \in Int64
  <2>1. CASE Magnitude(q) < Half
    BY <1>1, <1>3, <2>1 DEF Magnitude, Int64
  <2>2. CASE ~(Magnitude(q) < Half)
    <3>1. Magnitude(q) = Magnitude(x) /\ Magnitude(x) = Half
      BY <1>1, <1>3, <2>2 DEF Magnitude
    <3>2. x = -Half /\ y = 1
      BY <1>1, <1>3, <3>1 DEF Magnitude, Int64
    <3>3. x < 0 /\ ~(y < 0)
      BY <1>1, <3>2
    <3>4. q = -(Magnitude(x) \div Magnitude(y))
      BY <1>2, <3>3 DEF TruncDiv
    <3>5. q <= 0
      <4>1. Magnitude(x) \in Nat /\ Magnitude(y) \in Nat \ {0}
        BY <1>1
      <4>2. Magnitude(x) \div Magnitude(y) \in Nat
        BY <4>1, NaturalQuotient
      <4> QED
        BY <3>4, <4>2
    <3> QED
      BY <1>1, <1>3, <3>1, <3>5 DEF Magnitude, Int64
  <2> QED
    BY <2>1, <2>2
<1> QED
  BY <1>2, <1>3, <1>4, <1>5

\* Division truncates for every pair of operands of every word size, the one
\* pair that overflows aside: the remainder is smaller than the divisor and has
\* the sign of the dividend, and the quotient accounts for the rest.
THEOREM QuotientsAlwaysTruncate == Spec => []QuotientsTruncate
<1>1. TypeOK /\ LastComputed => QuotientsTruncate
  <2> SUFFICES ASSUME LastComputed, JustRan(DivOps \cup {"Mod"}),
                      ~(registers[LastInsn.b] = -Half /\ registers[LastInsn.c] = -1)
               PROVE  LET x == registers[LastInsn.b]
                          y == registers[LastInsn.c]
                          z == registers[LastInsn.a]
                          r == IF LastInsn.opcode = "Mod" THEN z ELSE x - z * y
                      IN  /\ Magnitude(r) < Magnitude(y)
                          /\ (x - r) % Magnitude(y) = 0
                          /\ r # 0 => (r < 0) = (x < 0)
    BY DEF QuotientsTruncate
  <2> DEFINE op == LastInsn.opcode
             x == registers[LastInsn.b]
             y == registers[LastInsn.c]
             z == registers[LastInsn.a]
             r == IF op = "Mod" THEN z ELSE x - z * y
  <2>1. JustRan(ResultOps) /\ op \in DivOps \cup {"Mod"} /\ op \in ArithOps
    BY DEF JustRan, ResultOps, ArithOps, LastComputed
  <2>2. x \in Int64 /\ y \in Int64 \ {0} /\ (Arith(op, x, y) \in Int64 => z = Arith(op, x, y))
    BY <2>1 DEF LastComputed, Computes, Divides
  <2>3. Arith(op, x, y) = IF op = "Mod" THEN TruncMod(x, y) ELSE TruncDiv(x, y)
    BY <2>1 DEF Arith, AddOps, SubOps, MulOps, DivOps
  <2>4. z = IF op = "Mod" THEN TruncMod(x, y) ELSE TruncDiv(x, y)
    BY <2>2, <2>3, QuotientFits
  <2>5. x \in Int /\ y \in Int \ {0}
    BY <2>2 DEF Int64
  <2>6. r = x - TruncDiv(x, y) * y
    BY <2>4, <2>5, Truncation
  <2> HIDE DEF x, y, z, op
  <2>7. /\ Magnitude(r) < Magnitude(y)
        /\ (x - r) % Magnitude(y) = 0
        /\ r # 0 => (r < 0) = (x < 0)
    BY <2>5, <2>6, Truncation
  <2> QED
    BY <2>7 DEF x, y, z, op
<1> QED
  BY <1>1, LastAlwaysComputed, PTL

=============================================================================
