----------------------------- MODULE EmitterProofs -----------------------------
(***************************************************************************)
(* What the switch of RaijitEvalFrame emits, for every opcode and operand: *)
(* a sequence of instructions of which only those of the jump opcodes have *)
(* a rel32 operand.                                                        *)
(***************************************************************************)
EXTENDS Emitter, SequenceTheorems, TLAPS

RegisterNames == {"rax", "rdi", "rsi", "rdx", "r12", "r13", "rsp", "rbp"}

\* The C functions the generated code calls.
FnNames ==
  {oprand_to_func[n] : n \in DOMAIN oprand_to_func} \cup
  {"PyNumber_Power", "PyNumber_Negative", "PyNumber_Invert", "PyNumber_Positive",
   "PyObject_Not", "Py_Is", "PySequence_Contains", "PyObject_RichCompare", "PyObject_GetItem",
   "PyObject_GetAttr", "PyObject_GetIter", "PyIter_Next", "PyObject_CallNoArgs",
   "PyObject_CallOneArg", "PyList_New", "PyList_SetItem", "PyTuple_New", "PyTuple_SetItem",
   "PyTuple_GetItem", "PyDict_New", "PyDict_SetItem",
   "PyLongAdd", "PyLongSub", "ConvertToPyBool", "IsPyTrue"}

Immediates ==
  {FnAddr(f) : f \in FnNames} \cup {LocalAddr(i) : i \in Nat} \cup {ConstObj(i) : i \in Nat}
    \cup {NameObj(i) : i \in Nat} \cup {GlobalObj(i, v) : i \in Nat, v \in Nat}
    \cup {RawInt(n) : n \in Int} \cup {PyNone}

\* The instructions without a rel32 operand.
Straight ==
  [ins : {"push", "pop"}, reg : RegisterNames]
    \cup [ins : {"movimm"}, reg : RegisterNames, imm : Immediates]
    \cup [ins : {"movreg"}, dst : RegisterNames, src : RegisterNames]
    \cup [ins : {"loadstack"}, off : Int]
    \cup [ins : {"cmp"}, imm : Int]
    \cup [ins : {"loadptr", "storeptr", "endbr64", "nop", "leave", "ret", "callrax"}]

Jumps == [ins : {"jz", "jnz", "jmp"}]

Instructions == Straight \cup Jumps

-----------------------------------------------------------------------------
\* The Write* functions.

LEMMA StraightHasNoJump == \A i \in Straight : ~IsJump(i)
  BY DEF Straight, IsJump

\* Every Write* function advances the pointer, a jump by enough for its rel32.
LEMMA InsLenType ==
  ASSUME NEW i
  PROVE  InsLen(i) \in 1 .. 15 /\ (IsJump(i) => InsLen(i) \in {5, 6})
<1>1. CASE i.ins \in {"push", "pop"}
  BY <1>1 DEF InsLen, IsJump
<1>2. CASE i.ins \notin {"push", "pop"}
  BY <1>2 DEF InsLen, IsJump
<1> QED BY <1>1, <1>2

LEMMA MovImmStraight ==
  ASSUME NEW r \in RegisterNames, NEW w \in Immediates
  PROVE  MovImm(r, w) \in Straight
  BY DEF MovImm, Straight

LEMMA ImmediateWords ==
  /\ \A f \in FnNames : FnAddr(f) \in Immediates
  /\ \A i \in Nat : LocalAddr(i) \in Immediates /\ ConstObj(i) \in Immediates
                      /\ NameObj(i) \in Immediates
  /\ \A i, v \in Nat : GlobalObj(i, v) \in Immediates
  /\ \A n \in Int : RawInt(n) \in Immediates
  /\ PyNone \in Immediates
  BY DEF Immediates

\* The Write* functions without a parameter.
LEMMA FixedStraight ==
  /\ WritePushRbp \in Straight /\ WritePushRax \in Straight /\ WritePushRdi \in Straight
  /\ WritePushR12 \in Straight /\ WritePopRax \in Straight /\ WritePopRsi \in Straight
  /\ WritePopRdx \in Straight /\ WritePopRdi \in Straight /\ WritePopR13 \in Straight
  /\ WritePop1stArg \in Straight /\ WritePop2ndArg \in Straight /\ WritePop3rdArg \in Straight
  /\ WritePush1stArg \in Straight /\ WriteMovRspToRbp \in Straight
  /\ WriteMovTo2ndArgFromRet \in Straight /\ WriteMovTo1stArgFromR12 \in Straight
  /\ WriteMovToR12FromRet \in Straight /\ WriteMovTo1stArgFromR13 \in Straight
  /\ WriteMovToRaxFromPtrRdi \in Straight /\ WriteMovToPtrRaxFromRdi \in Straight
  /\ WriteEndbr64 \in Straight /\ WriteNop \in Straight /\ WriteLeave \in Straight
  /\ WriteRet \in Straight /\ WriteCallRax \in Straight
<1>1. \A r \in RegisterNames : Push(r) \in Straight /\ Pop(r) \in Straight
  BY DEF Push, Pop, Straight
<1>2. \A d, r \in RegisterNames : MovReg(d, r) \in Straight
  BY DEF MovReg, Straight
<1>3. /\ WritePushRbp \in Straight /\ WritePushRax \in Straight /\ WritePushRdi \in Straight
      /\ WritePushR12 \in Straight /\ WritePopRax \in Straight /\ WritePopRsi \in Straight
      /\ WritePopRdx \in Straight /\ WritePopRdi \in Straight /\ WritePopR13 \in Straight
  BY <1>1 DEF WritePushRbp, WritePushRax, WritePushRdi, WritePushR12, WritePopRax, WritePopRsi,
    WritePopRdx, WritePopRdi, WritePopR13, RegisterNames
<1>4. /\ WriteMovRspToRbp \in Straight /\ WriteMovTo2ndArgFromRet \in Straight
      /\ WriteMovTo1stArgFromR12 \in Straight /\ WriteMovToR12FromRet \in Straight
      /\ WriteMovTo1stArgFromR13 \in Straight
  BY <1>2 DEF WriteMovRspToRbp, WriteMovTo2ndArgFromRet, WriteMovTo1stArgFromR12,
    WriteMovToR12FromRet, WriteMovTo1stArgFromR13, RegisterNames
<1>5. /\ WriteMovToRaxFromPtrRdi \in Straight /\ WriteMovToPtrRaxFromRdi \in Straight
      /\ WriteEndbr64 \in Straight /\ WriteNop \in Straight /\ WriteLeave \in Straight
      /\ WriteRet \in Straight /\ WriteCallRax \in Straight
  BY DEF WriteMovToRaxFromPtrRdi, WriteMovToPtrRaxFromRdi, WriteEndbr64, WriteNop, WriteLeave,
    WriteRet, WriteCallRax, Straight
<1> QED BY <1>3, <1>4, <1>5 DEF WritePop1stArg, WritePop2ndArg, WritePop3rdArg, WritePush1stArg

\* The Write* functions with an immediate.
LEMMA MovsStraight ==
  ASSUME NEW w \in Immediates
  PROVE  /\ WriteMovRax(w) \in Straight /\ WriteMovRdi(w) \in Straight
         /\ WriteMovTo1stArgFromImm(w) \in Straight /\ WriteMovTo2ndArgFromImm(w) \in Straight
         /\ WriteMovTo3rdArgFromImm(w) \in Straight
  BY MovImmStraight DEF WriteMovRax, WriteMovRdi, WriteMovTo1stArgFromImm,
    WriteMovTo2ndArgFromImm, WriteMovTo3rdArgFromImm, RegisterNames

LEMMA OthersStraight ==
  /\ \A n \in Int : WriteMovToRdiFromQwordPtrRspOffset(n) \in Straight
  /\ WriteCmpRaxImm8(0) \in Straight
  BY DEF WriteMovToRdiFromQwordPtrRspOffset, WriteCmpRaxImm8, Straight

\* Some straight instructions.
Block == Seq(Straight) \ {<<>>}

LEMMA Blocks ==
  /\ \A a \in Straight : <<a>> \in Block
  /\ \A a, b \in Straight : <<a, b>> \in Block
  /\ \A a, b, c \in Straight : <<a, b, c>> \in Block
  /\ \A a, b, c, d \in Straight : <<a, b, c, d>> \in Block
  /\ \A s, t \in Block : s \o t \in Block
  /\ \A s \in Block, t \in Seq(Straight) : s \o t \in Block
  BY DEF Block

LEMMA CallFnType ==
  ASSUME NEW f \in FnNames
  PROVE  CallFn(f) \in Block /\ CallFnPush(f) \in Block
<1>1. WriteMovRax(FnAddr(f)) \in Straight
  BY MovsStraight, ImmediateWords
<1>2. CallFn(f) \in Block
  BY <1>1, Blocks, FixedStraight DEF CallFn
<1>3. CallFnPush(f) \in Block
  BY <1>2, Blocks, FixedStraight DEF CallFnPush
<1> QED BY <1>2, <1>3

-----------------------------------------------------------------------------
\* The opcodes.

LEMMA MoveBlocks ==
  ASSUME NEW oprand \in Nat
  PROVE  /\ RESUME \in Block /\ CACHE \in Block /\ POP_TOP \in Block /\ SWAP \in Block
         /\ LOAD_CONST(oprand) \in Block /\ LOAD_FAST(oprand) \in Block
         /\ STORE_FAST(oprand) \in Block /\ COPY(oprand) \in Block
         /\ END_FOR \in Block /\ RETURN_VALUE \in Block /\ RETURN_CONST(oprand) \in Block
<1>1. /\ WriteMovRax(ConstObj(oprand)) \in Straight /\ WriteMovRdi(LocalAddr(oprand)) \in Straight
      /\ WriteMovRax(LocalAddr(oprand)) \in Straight
      /\ WriteMovToRdiFromQwordPtrRspOffset(-oprand) \in Straight
  BY MovsStraight, ImmediateWords, OthersStraight
<1> QED BY <1>1, FixedStraight, Blocks DEF RESUME, CACHE, POP_TOP, SWAP, LOAD_CONST, LOAD_FAST,
      STORE_FAST, COPY, END_FOR, RETURN_VALUE, RETURN_CONST

LEMMA LoadGlobalBlock ==
  ASSUME NEW oprand \in Nat, NEW glob, glob[oprand \div 2] \in Nat
  PROVE  LOAD_GLOBAL(oprand, glob) \in Block
<1>1. oprand \div 2 \in Nat
  OBVIOUS
<1>2. WriteMovRax(GlobalObj(oprand \div 2, glob[oprand \div 2])) \in Straight
  BY <1>1, MovsStraight, ImmediateWords
<1> QED BY <1>2, FixedStraight, Blocks DEF LOAD_GLOBAL

\* Instructions and then a call of a C function.
LEMMA CallBlock ==
  ASSUME NEW s \in Block, NEW f \in FnNames
  PROVE  s \o CallFn(f) \in Block /\ s \o CallFnPush(f) \in Block
  BY CallFnType, Blocks

LEMMA PopBlocks ==
  /\ <<WritePopRdi>> \in Block /\ <<WritePop1stArg>> \in Block
  /\ <<WritePopRsi, WritePopRdi>> \in Block /\ <<WritePop1stArg, WritePop2ndArg>> \in Block
  /\ <<WritePop2ndArg, WritePop1stArg>> \in Block
  BY FixedStraight DEF Block

LEMMA UnaryBlocks ==
  /\ UNARY_NEGATIVE \in Block /\ UNARY_INVERT \in Block /\ CALL_INTRINSIC_1 \in Block
  /\ GET_ITER \in Block
  BY CallBlock, PopBlocks DEF UNARY_NEGATIVE, UNARY_INVERT, CALL_INTRINSIC_1, GET_ITER, FnNames

LEMMA BinaryBlocks ==
  /\ BINARY_SUBSCR \in Block /\ BINARY_OP_ADD_INT \in Block
  /\ BINARY_OP_SUBTRACT_INT \in Block
  BY CallBlock, PopBlocks DEF BINARY_SUBSCR, BINARY_OP_ADD_INT, BINARY_OP_SUBTRACT_INT, FnNames

\* The cases that make a bool of a C int.
LEMMA BoolBlocks ==
  UNARY_NOT \in Block /\ IS_OP \in Block /\ CONTAINS_OP \in Block
<1>1. ASSUME NEW s \in Block, NEW f \in FnNames
      PROVE  s \o CallFnPush(f) \o <<WritePop1stArg>> \o CallFnPush("ConvertToPyBool") \in Block
  <2>1. s \o CallFnPush(f) \in Block
    BY CallBlock
  <2>2. s \o CallFnPush(f) \o <<WritePop1stArg>> \in Block
    BY <2>1, PopBlocks, Blocks
  <2> QED BY <2>2, CallBlock DEF FnNames
<1> QED BY <1>1, PopBlocks DEF UNARY_NOT, IS_OP, CONTAINS_OP, FnNames

LEMMA StoreSubscrBlock == STORE_SUBSCR \in Block
<1>1. <<WritePop2ndArg, WritePop1stArg, WritePop3rdArg, WritePush1stArg>> \in Block
  BY FixedStraight DEF Block
<1> QED BY <1>1, CallBlock DEF STORE_SUBSCR, FnNames

LEMMA BinaryOpBlock ==
  ASSUME NEW oprand \in DOMAIN oprand_to_func \cup {NB_POWER}
  PROVE  BINARY_OP(oprand) \in Block
<1>1. CASE oprand = NB_POWER
  <2>1. <<WriteMovTo3rdArgFromImm(PyNone)>> \in Block
    BY MovsStraight, ImmediateWords DEF Block
  <2>2. <<WriteMovTo3rdArgFromImm(PyNone)>> \o CallFnPush("PyNumber_Power") \in Block
    BY <2>1, CallBlock DEF FnNames
  <2> QED BY <1>1, <2>2, PopBlocks, Blocks DEF BINARY_OP
<1>2. CASE oprand # NB_POWER
  <2>1. oprand_to_func[oprand] \in FnNames
    BY <1>2 DEF FnNames
  <2> QED BY <1>2, <2>1, PopBlocks, CallBlock DEF BINARY_OP
<1> QED BY <1>1, <1>2

LEMMA ArgumentBlocks ==
  ASSUME NEW oprand \in Nat
  PROVE  COMPARE_OP(oprand) \in Block /\ LOAD_ATTR(oprand) \in Block /\ CALL(oprand) \in Block
<1>1. oprand \div 16 \in Int /\ oprand \div 2 \in Nat
  OBVIOUS
<1>2. /\ WriteMovTo3rdArgFromImm(RawInt(oprand \div 16)) \in Straight
      /\ WriteMovTo2ndArgFromImm(NameObj(oprand \div 2)) \in Straight
  BY <1>1, MovsStraight, ImmediateWords
<1>3. <<WritePop2ndArg, WritePop1stArg, WriteMovTo3rdArgFromImm(RawInt(oprand \div 16))>> \in Block
  BY <1>2, FixedStraight DEF Block
<1>4. <<WritePop1stArg, WriteMovTo2ndArgFromImm(NameObj(oprand \div 2))>> \in Block
  BY <1>2, FixedStraight DEF Block
<1>5. COMPARE_OP(oprand) \in Block
  BY <1>3, CallBlock DEF COMPARE_OP, FnNames
<1>6. LOAD_ATTR(oprand) \in Block
  BY <1>4, CallBlock DEF LOAD_ATTR, FnNames
<1>7. CALL(oprand) \in Block
  BY PopBlocks, CallBlock DEF CALL, FnNames
<1> QED BY <1>5, <1>6, <1>7

\* What the loops of the BUILD_* cases emit: rounds of equal length.
LEMMA RoundsBlock ==
  ASSUME NEW n \in Nat, NEW width \in Nat \ {0}, NEW rounds,
         \A i \in 0 .. n - 1 : rounds[i] \in Block /\ Len(rounds[i]) = width
  PROVE  Rounds(n, width, rounds) \in Seq(Straight)
<1>1. n * width \in Nat
  OBVIOUS
<1>2. ASSUME NEW k \in 1 .. n * width
      PROVE  rounds[(k - 1) \div width][((k - 1) % width) + 1] \in Straight
  <2> DEFINE q == (k - 1) \div width
             r == (k - 1) % width
  <2>1. q \in Int /\ r \in 0 .. width - 1 /\ k - 1 = q * width + r
    OBVIOUS
  <2>2. q >= 0 /\ q < n
    <3>1. k - 1 >= 0 /\ k - 1 < n * width
      BY <1>1
    <3>2. ASSUME q < 0 PROVE FALSE
      <4>1. q + 1 <= 0
        BY <2>1, <3>2
      <4>2. (q + 1) * width <= 0
        BY <2>1, <4>1
      <4>3. (q + 1) * width = q * width + width
        BY <2>1
      <4> QED BY <2>1, <3>1, <4>2, <4>3
    <3>3. ASSUME q >= n PROVE FALSE
      <4>1. q * width >= n * width
        BY <2>1, <3>3
      <4> QED BY <2>1, <3>1, <4>1
    <3> QED BY <2>1, <3>2, <3>3
  <2>3. rounds[q] \in Block /\ Len(rounds[q]) = width
    BY <2>1, <2>2
  <2> QED BY <2>1, <2>3 DEF Block
<1> QED BY <1>1, <1>2 DEF Block, Rounds

\* A round: instructions that prepare the arguments, then CallFn.
LEMMA RoundShape ==
  ASSUME NEW s \in Block, NEW f \in FnNames
  PROVE  s \o CallFn(f) \in Block /\ Len(s \o CallFn(f)) = Len(s) + 2
<1>1. Len(CallFn(f)) = 2 /\ CallFn(f) \in Block
  BY CallFnType DEF CallFn
<1>2. s \o CallFn(f) \in Block
  BY <1>1, Blocks
<1>3. s \in Seq(Straight) /\ CallFn(f) \in Seq(Straight)
  BY <1>1 DEF Block
<1>4. Len(s \o CallFn(f)) = Len(s) + Len(CallFn(f))
  BY <1>3, ConcatProperties, Zenon
<1> QED BY <1>1, <1>2, <1>4

LEMMA BuildSequenceBlock ==
  ASSUME NEW oprand \in Nat, NEW new \in FnNames, NEW setitem \in FnNames
  PROVE  BuildSequence(oprand, new, setitem) \in Block
<1> DEFINE rounds == [i \in 0 .. oprand - 1 |-> SetItemRound(oprand, setitem, i)]
<1>1. ASSUME NEW i \in 0 .. oprand - 1
      PROVE  rounds[i] \in Block /\ Len(rounds[i]) = 5
  <2> DEFINE s == <<WriteMovTo1stArgFromR12, WriteMovTo2ndArgFromImm(RawInt(oprand - i - 1)),
                    WritePop3rdArg>>
  <2>1. WriteMovTo2ndArgFromImm(RawInt(oprand - i - 1)) \in Straight
    BY MovsStraight, ImmediateWords
  <2>2. s \in Block /\ Len(s) = 3
    BY <2>1, FixedStraight DEF Block
  <2>3. s \o CallFn(setitem) \in Block /\ Len(s \o CallFn(setitem)) = 5
    <3>1. s \o CallFn(setitem) \in Block /\ Len(s \o CallFn(setitem)) = Len(s) + 2
      <4> HIDE DEF s
      <4> QED BY <2>2, RoundShape
    <3> HIDE DEF s
    <3> QED BY <2>2, <3>1
  <2> QED BY <2>3 DEF SetItemRound
<1>2. Rounds(oprand, 5, rounds) \in Seq(Straight)
  <2>1. 5 \in Nat \ {0}
    OBVIOUS
  <2> HIDE DEF rounds
  <2> QED BY <1>1, <2>1, RoundsBlock, Zenon
<1>3. <<WriteMovTo1stArgFromImm(RawInt(oprand))>> \in Block
  BY MovsStraight, ImmediateWords DEF Block
<1>4. <<WriteMovToR12FromRet>> \in Block /\ <<WritePushR12>> \in Block
  BY FixedStraight DEF Block
<1>5. <<WriteMovTo1stArgFromImm(RawInt(oprand))>> \o CallFn(new) \in Block
  BY <1>3, CallBlock
<1>6. <<WriteMovTo1stArgFromImm(RawInt(oprand))>> \o CallFn(new) \o <<WriteMovToR12FromRet>>
        \in Block
  BY <1>4, <1>5, Blocks
<1>7. <<WriteMovTo1stArgFromImm(RawInt(oprand))>> \o CallFn(new) \o <<WriteMovToR12FromRet>>
        \o Rounds(oprand, 5, rounds) \in Block
  BY <1>2, <1>6, Blocks
<1> QED BY <1>4, <1>7, Blocks DEF BuildSequence

LEMMA BuildMapBlock ==
  ASSUME NEW oprand \in Nat
  PROVE  BUILD_MAP(oprand) \in Block
<1> DEFINE rounds == [i \in 0 .. oprand - 1 |-> MapRound]
<1>1. MapRound \in Block /\ Len(MapRound) = 6
  <2> DEFINE s == <<WritePop1stArg, WritePop3rdArg, WritePop2ndArg, WritePush1stArg>>
  <2>1. s \in Block /\ Len(s) = 4
    BY FixedStraight DEF Block
  <2>2. s \o CallFn("PyDict_SetItem") \in Block /\ Len(s \o CallFn("PyDict_SetItem")) = 6
    <3>1. s \o CallFn("PyDict_SetItem") \in Block /\ Len(s \o CallFn("PyDict_SetItem")) = Len(s) + 2
      <4> HIDE DEF s
      <4> QED BY <2>1, RoundShape DEF FnNames
    <3> HIDE DEF s
    <3> QED BY <2>1, <3>1
  <2> QED BY <2>2 DEF MapRound
<1>2. Rounds(oprand, 6, rounds) \in Seq(Straight)
  <2>1. \A i \in 0 .. oprand - 1 : rounds[i] \in Block /\ Len(rounds[i]) = 6
    BY <1>1
  <2>2. 6 \in Nat \ {0}
    OBVIOUS
  <2> HIDE DEF rounds
  <2> QED BY <2>1, <2>2, RoundsBlock, Zenon
<1>3. CallFnPush("PyDict_New") \in Block
  BY CallFnType DEF FnNames
<1> QED BY <1>2, <1>3, Blocks DEF BUILD_MAP

LEMMA BuildConstKeyMapBlock ==
  ASSUME NEW oprand \in Nat
  PROVE  BUILD_CONST_KEY_MAP(oprand) \in Block
<1> DEFINE rounds == [i \in 0 .. oprand - 1 |-> ConstKeyRound(oprand, i)]
<1>1. ASSUME NEW i \in 0 .. oprand - 1
      PROVE  rounds[i] \in Block /\ Len(rounds[i]) = 10
  <2> DEFINE s == <<WriteNop, WriteMovRax(FnAddr("PyTuple_GetItem")), WriteMovTo1stArgFromR13,
                    WriteMovTo2ndArgFromImm(RawInt(oprand - 1 - i)), WriteCallRax,
                    WriteMovTo2ndArgFromRet, WriteMovTo1stArgFromR12, WritePop3rdArg>>
  <2>1. WriteMovTo2ndArgFromImm(RawInt(oprand - 1 - i)) \in Straight
    BY MovsStraight, ImmediateWords
  <2>2. WriteMovRax(FnAddr("PyTuple_GetItem")) \in Straight
    BY MovsStraight, ImmediateWords DEF FnNames
  <2>3. s \in Block /\ Len(s) = 8
    BY <2>1, <2>2, FixedStraight DEF Block
  <2>4. s \o CallFn("PyDict_SetItem") \in Block /\ Len(s \o CallFn("PyDict_SetItem")) = 10
    <3>1. s \o CallFn("PyDict_SetItem") \in Block /\ Len(s \o CallFn("PyDict_SetItem")) = Len(s) + 2
      <4> HIDE DEF s
      <4> QED BY <2>3, RoundShape DEF FnNames
    <3> HIDE DEF s
    <3> QED BY <2>3, <3>1
  <2> QED BY <2>4 DEF ConstKeyRound
<1>2. Rounds(oprand, 10, rounds) \in Seq(Straight)
  <2>1. 10 \in Nat \ {0}
    OBVIOUS
  <2> HIDE DEF rounds
  <2> QED BY <1>1, <2>1, RoundsBlock, Zenon
<1>3. <<WriteMovToR12FromRet, WritePopR13>> \in Block /\ <<WritePushR12>> \in Block
  BY FixedStraight DEF Block
<1>4. CallFn("PyDict_New") \in Block
  BY CallFnType DEF FnNames
<1>5. CallFn("PyDict_New") \o <<WriteMovToR12FromRet, WritePopR13>> \in Block
  BY <1>3, <1>4, Blocks
<1>6. CallFn("PyDict_New") \o <<WriteMovToR12FromRet, WritePopR13>>
        \o Rounds(oprand, 10, rounds) \in Block
  BY <1>2, <1>5, Blocks
<1> QED BY <1>3, <1>6, Blocks DEF BUILD_CONST_KEY_MAP

-----------------------------------------------------------------------------
\* The jumps, and the switch.

\* Some instructions.
Code == Seq(Instructions) \ {<<>>}

LEMMA JumpTemplates ==
  /\ WriteJzRel32 \in Jumps /\ WriteJnzRel32 \in Jumps
  /\ FOR_ITER \in Code /\ JUMP_BACKWARD \in Code
  /\ POP_JUMP_IF(WriteJzRel32) \in Code
  /\ POP_JUMP_IF(WriteJnzRel32) \in Code
<1>1. WriteJzRel32 \in Jumps /\ WriteJnzRel32 \in Jumps /\ WriteJmpRel32 \in Jumps
  BY DEF WriteJzRel32, WriteJnzRel32, WriteJmpRel32, Jumps
<1>2. \A j \in Jumps : <<WriteCmpRaxImm8(0), j>> \in Code
  BY OthersStraight DEF Instructions, Code
<1>3. \A s \in Block : s \in Code
  BY DEF Block, Code, Instructions
<1>4. \A s, t \in Code : s \o t \in Code
  BY DEF Code
<1>5. FOR_ITER \in Code
  <2>1. <<WritePopRdi, WritePushRdi>> \in Block
    BY FixedStraight DEF Block
  <2>2. <<WritePopRdi, WritePushRdi>> \o CallFnPush("PyIter_Next") \in Code
    BY <2>1, <1>3, CallBlock DEF FnNames
  <2> QED BY <2>2, <1>1, <1>2, <1>4 DEF FOR_ITER
<1>6. JUMP_BACKWARD \in Code
  BY <1>1 DEF JUMP_BACKWARD, Instructions, Code
<1>7. ASSUME NEW j \in Jumps
      PROVE  POP_JUMP_IF(j) \in Code
  <2>1. <<WritePopRdi>> \o CallFn("IsPyTrue") \in Code
    BY PopBlocks, <1>3, CallBlock DEF FnNames
  <2> QED BY <2>1, <1>2, <1>4 DEF POP_JUMP_IF
<1> QED BY <1>1, <1>5, <1>6, <1>7

\* The opcodes whose case emits straight code only.
LEMMA StraightTemplates ==
  ASSUME NEW op, NEW oprand \in Nat, NEW glob,
         Compilable(op, oprand, glob), op \notin JumpOpcodes,
         op = "LOAD_GLOBAL" => glob[oprand \div 2] \in Nat
  PROVE  Template(op, oprand, glob) \in Block
<1>1. CASE op \in {"RESUME", "CACHE", "POP_TOP", "LOAD_CONST", "LOAD_FAST", "STORE_FAST", "SWAP",
                   "COPY", "END_FOR", "RETURN_VALUE", "RETURN_CONST"}
  BY <1>1, MoveBlocks DEF Template
<1>2. CASE op \in {"UNARY_NEGATIVE", "UNARY_INVERT", "UNARY_NOT", "IS_OP", "CONTAINS_OP",
                   "BINARY_SUBSCR", "STORE_SUBSCR", "BINARY_OP_ADD_INT",
                   "BINARY_OP_SUBTRACT_INT", "GET_ITER", "CALL_INTRINSIC_1"}
  BY <1>2, UnaryBlocks, BinaryBlocks, BoolBlocks, StoreSubscrBlock DEF Template
<1>3. CASE op \in {"COMPARE_OP", "LOAD_ATTR", "CALL"}
  BY <1>3, ArgumentBlocks DEF Template
<1>4. CASE op \in {"BUILD_LIST", "BUILD_TUPLE"}
  BY <1>4, BuildSequenceBlock DEF Template, BUILD_LIST, BUILD_TUPLE, FnNames
<1>5. CASE op \in {"BUILD_MAP", "BUILD_CONST_KEY_MAP"}
  BY <1>5, BuildMapBlock, BuildConstKeyMapBlock DEF Template
<1>6. CASE op = "LOAD_GLOBAL"
  BY <1>6, LoadGlobalBlock DEF Template
<1>7. CASE op = "BINARY_OP"
  <2>1. oprand \in DOMAIN oprand_to_func \cup {NB_POWER}
    BY <1>7 DEF Compilable, PlainOpcodes, JumpOpcodes
  <2> QED BY <1>7, <2>1, BinaryOpBlock DEF Template
<1>8. op \in PlainOpcodes \cup {"CALL", "BINARY_OP", "COMPARE_OP", "CALL_INTRINSIC_1",
                              "LOAD_GLOBAL"}
  BY DEF Compilable
<1> QED BY <1>1, <1>2, <1>3, <1>4, <1>5, <1>6, <1>7, <1>8 DEF PlainOpcodes

\* What every case of the switch emits; none emits nothing.
THEOREM TemplateType ==
  ASSUME NEW op, NEW oprand \in Nat, NEW glob,
         Compilable(op, oprand, glob),
         op = "LOAD_GLOBAL" => glob[oprand \div 2] \in Nat
  PROVE  /\ Template(op, oprand, glob) \in Code
         /\ op \notin JumpOpcodes => Template(op, oprand, glob) \in Block
<1>1. CASE op \notin JumpOpcodes
  <2>1. Template(op, oprand, glob) \in Block
    BY <1>1, StraightTemplates
  <2> QED BY <1>1, <2>1 DEF Block, Instructions, Code
<1>2. CASE op \in JumpOpcodes
  BY <1>2, JumpTemplates DEF JumpOpcodes, Template
<1> QED BY <1>1, <1>2
=============================================================================
