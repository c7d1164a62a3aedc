------------------------------- MODULE Emitter -------------------------------
(***************************************************************************)
(* The code RaijitEvalFrame emits for each opcode: the big switch of       *)
(* src/src/raijit.cc.  One operator per opcode, named like it, gives the   *)
(* instructions of its case in the order the Write* calls append them.     *)
(* Template selects the case, Compilable says when the case does not reach *)
(* a LOG(FATAL) or a failing CHECK.                                        *)
(*                                                                         *)
(* LOAD_GLOBAL looks its name up while compiling, so its case depends on   *)
(* the bindings at that moment: glob maps a name index to the version of   *)
(* its binding, 0 when neither the globals nor the builtins bind it.       *)
(***************************************************************************)
EXTENDS X86, CodeObject

\* mov rax, imm64 ; WriteCallRax: how every C function is called.
CallFn(name) == <<WriteMovRax(FnAddr(name)), WriteCallRax>>
CallFnPush(name) == CallFn(name) \o <<WritePushRax>>

\* The for loops of the BUILD_* cases: rounds[i] is what round i appends, width
\* instructions.
Rounds(n, width, rounds) ==
  [k \in 1 .. n * width |-> rounds[(k - 1) \div width][((k - 1) % width) + 1]]

-----------------------------------------------------------------------------
\* Loads, stores and stack shuffling.

RESUME        == <<WriteNop>>
\* Mutant: caches need no code.
CACHENothing  == <<>>
CACHE         == <<WriteNop>>
\* Mutant: discards the top into the register that holds a caller's value.
POP_TOPToR13  == <<WritePopR13>>
POP_TOP       == <<WritePopRax>>
LOAD_CONST(oprand) == <<WriteMovRax(ConstObj(oprand)), WritePushRax>>
LOAD_FAST(oprand)  ==
  <<WriteMovRdi(LocalAddr(oprand)), WriteMovToRaxFromPtrRdi, WritePushRax>>
STORE_FAST(oprand) ==
  <<WritePopRdi, WriteMovRax(LocalAddr(oprand)), WriteMovToPtrRaxFromRdi>>
LOAD_GLOBAL(oprand, glob) ==
  <<WriteMovRax(GlobalObj(oprand \div 2, glob[oprand \div 2])), WritePushRax>>

\* The operand of SWAP is not looked at; that of COPY is used as a byte offset.
SWAP         == <<WritePopRax, WritePopRdi, WritePushRax, WritePushRdi>>
COPY(oprand) == <<WriteMovToRdiFromQwordPtrRspOffset(-oprand), WritePushRdi>>

-----------------------------------------------------------------------------
\* Operators, attributes, subscripts and calls.

UNARY_NEGATIVE == <<WritePopRdi>> \o CallFnPush("PyNumber_Negative")
UNARY_INVERT   == <<WritePopRdi>> \o CallFnPush("PyNumber_Invert")
UNARY_NOT ==
  <<WritePopRdi>> \o CallFnPush("PyObject_Not")
    \o <<WritePop1stArg>> \o CallFnPush("ConvertToPyBool")
\* The operand ("is" or "is not", "in" or "not in") is not looked at.
IS_OP ==
  <<WritePopRsi, WritePopRdi>> \o CallFnPush("Py_Is")
    \o <<WritePop1stArg>> \o CallFnPush("ConvertToPyBool")
CONTAINS_OP ==
  <<WritePop1stArg, WritePop2ndArg>> \o CallFnPush("PySequence_Contains")
    \o <<WritePop1stArg>> \o CallFnPush("ConvertToPyBool")

\* Mutant: key and container confused.
BINARY_SUBSCRSwapped ==
  <<WritePop1stArg, WritePop2ndArg>> \o CallFnPush("PyObject_GetItem")
BINARY_SUBSCR ==
  <<WritePop2ndArg, WritePop1stArg>> \o CallFnPush("PyObject_GetItem")
\* The container is pushed back and stays on the stack.
STORE_SUBSCR ==
  <<WritePop2ndArg, WritePop1stArg, WritePop3rdArg, WritePush1stArg>>
    \o CallFn("PyDict_SetItem")

BINARY_OP_ADD_INT      == <<WritePopRsi, WritePopRdi>> \o CallFnPush("PyLongAdd")
BINARY_OP_SUBTRACT_INT == <<WritePopRsi, WritePopRdi>> \o CallFnPush("PyLongSub")

\* The static map of case BINARY_OP, by the NB_* numbers of opcode.h.
NB_POWER == 8
oprand_to_func ==
  [oprand \in (0 .. 25) \ {NB_POWER} |->
     CASE oprand = 0 -> "PyNumber_Add"  [] oprand = 1 -> "PyNumber_And"
       [] oprand = 7 -> "PyNumber_Or"  [] oprand = 12 -> "PyNumber_Xor"
       [] oprand = 11 -> "PyNumber_TrueDivide"  [] oprand = 2 -> "PyNumber_FloorDivide"
       [] oprand = 3 -> "PyNumber_Lshift"  [] oprand = 9 -> "PyNumber_Rshift"
       [] oprand = 5 -> "PyNumber_Multiply"  [] oprand = 4 -> "PyNumber_MatrixMultiply"
       [] oprand = 6 -> "PyNumber_Remainder"  [] oprand = 10 -> "PyNumber_Subtract"
       [] oprand = 13 -> "PyNumber_InPlaceAdd"  [] oprand = 14 -> "PyNumber_InPlaceAnd"
       [] oprand = 20 -> "PyNumber_InPlaceOr"  [] oprand = 25 -> "PyNumber_InPlaceXor"
       [] oprand = 24 -> "PyNumber_InPlaceTrueDivide"  [] oprand = 15 -> "PyNumber_InPlaceFloorDivide"
       [] oprand = 21 -> "PyNumber_InPlacePower"  [] oprand = 16 -> "PyNumber_InPlaceLshift"
       [] oprand = 22 -> "PyNumber_InPlaceRshift"  [] oprand = 18 -> "PyNumber_InPlaceMultiply"
       [] oprand = 17 -> "PyNumber_InPlaceMatrixMultiply"  [] oprand = 19 -> "PyNumber_InPlaceRemainder"
       [] oprand = 23 -> "PyNumber_InPlaceSubtract"]

\* Only NB_POWER gives the third argument of its C function a value.
BINARY_OP(oprand) ==
  <<WritePop2ndArg, WritePop1stArg>>
    \o IF oprand = NB_POWER
       THEN <<WriteMovTo3rdArgFromImm(PyNone)>> \o CallFnPush("PyNumber_Power")
       ELSE CallFnPush(oprand_to_func[oprand])

COMPARE_OP(oprand) ==
  <<WritePop2ndArg, WritePop1stArg, WriteMovTo3rdArgFromImm(RawInt(oprand \div 16))>>
    \o CallFnPush("PyObject_RichCompare")
CALL_INTRINSIC_1 == <<WritePop1stArg>> \o CallFnPush("PyNumber_Positive")
LOAD_ATTR(oprand) ==
  <<WritePop1stArg, WriteMovTo2ndArgFromImm(NameObj(oprand \div 2))>>
    \o CallFnPush("PyObject_GetAttr")
CALL(oprand) ==
  IF oprand = 0
  THEN <<WritePopRdi>> \o CallFnPush("PyObject_CallNoArgs")
  ELSE <<WritePopRsi, WritePopRdi>> \o CallFnPush("PyObject_CallOneArg")

-----------------------------------------------------------------------------
\* Containers.  Elements are popped last to first.

\* Mutant: the index of the slot does not follow the round.
SetItemRoundFirst(oprand, setitem, i) ==
  <<WriteMovTo1stArgFromR12, WriteMovTo2ndArgFromImm(RawInt(0)), WritePop3rdArg>>
    \o CallFn(setitem)
SetItemRound(oprand, setitem, i) ==
  <<WriteMovTo1stArgFromR12, WriteMovTo2ndArgFromImm(RawInt(oprand - i - 1)), WritePop3rdArg>>
    \o CallFn(setitem)
BuildSequence(oprand, new, setitem) ==
  <<WriteMovTo1stArgFromImm(RawInt(oprand))>> \o CallFn(new) \o <<WriteMovToR12FromRet>>
    \o Rounds(oprand, 5, [i \in 0 .. oprand - 1 |-> SetItemRound(oprand, setitem, i)])
    \o <<WritePushR12>>
BUILD_LIST(oprand)  == BuildSequence(oprand, "PyList_New", "PyList_SetItem")
BUILD_TUPLE(oprand) == BuildSequence(oprand, "PyTuple_New", "PyTuple_SetItem")

MapRound ==
  <<WritePop1stArg, WritePop3rdArg, WritePop2ndArg, WritePush1stArg>> \o CallFn("PyDict_SetItem")
BUILD_MAP(oprand) ==
  CallFnPush("PyDict_New") \o Rounds(oprand, 6, [i \in 0 .. oprand - 1 |-> MapRound])

ConstKeyRound(oprand, i) ==
  <<WriteNop, WriteMovRax(FnAddr("PyTuple_GetItem")), WriteMovTo1stArgFromR13,
    WriteMovTo2ndArgFromImm(RawInt(oprand - 1 - i)), WriteCallRax,
    WriteMovTo2ndArgFromRet, WriteMovTo1stArgFromR12, WritePop3rdArg>>
    \o CallFn("PyDict_SetItem")
BUILD_CONST_KEY_MAP(oprand) ==
  CallFn("PyDict_New") \o <<WriteMovToR12FromRet, WritePopR13>>
    \o Rounds(oprand, 10, [i \in 0 .. oprand - 1 |-> ConstKeyRound(oprand, i)])
    \o <<WritePushR12>>

-----------------------------------------------------------------------------
\* Iteration, jumps and returns.

GET_ITER == <<WritePopRdi>> \o CallFnPush("PyObject_GetIter")
\* Mutant: the iterator is not pushed back.
FOR_ITERNoPush ==
  <<WritePopRdi>> \o CallFnPush("PyIter_Next") \o <<WriteCmpRaxImm8(0), WriteJzRel32>>
FOR_ITER ==
  <<WritePopRdi, WritePushRdi>> \o CallFnPush("PyIter_Next")
    \o <<WriteCmpRaxImm8(0), WriteJzRel32>>
\* Mutant: leaves the iterator on the stack.
END_FOROnePop == <<WritePopRax>>
END_FOR       == <<WritePopRax, WritePopRax>>
JUMP_BACKWARD == <<WriteJmpRel32>>
POP_JUMP_IF(jump) ==
  <<WritePopRdi>> \o CallFn("IsPyTrue") \o <<WriteCmpRaxImm8(0), jump>>
\* Mutant: forgets the frame.
RETURN_VALUENoLeave  == <<WritePopRax, WriteRet>>
RETURN_VALUE         == <<WritePopRax, WriteLeave, WriteRet>>
RETURN_CONST(oprand) == <<WriteMovRax(ConstObj(oprand)), WriteLeave, WriteRet>>

\* Mutant: counts the cache behind FOR_ITER as no op.
JumpOpIndexNoCache(op, oprand, op_index) ==
  IF op = "JUMP_BACKWARD" THEN op_index - oprand + 1 ELSE op_index + oprand + 1
\* The op whose code the rel32 of a jump op at op_index is patched to reach.
JumpOpIndex(op, oprand, op_index) ==
  CASE op = "FOR_ITER"      -> op_index + oprand + 2
    [] op = "JUMP_BACKWARD" -> op_index - oprand + 1
    [] OTHER                -> op_index + oprand + 1

-----------------------------------------------------------------------------
\* The switch.

Template(op, oprand, glob) ==
  CASE op = "RESUME" -> RESUME
    [] op = "CACHE" -> CACHE
    [] op = "POP_TOP" -> POP_TOP
    [] op = "LOAD_CONST" -> LOAD_CONST(oprand)
    [] op = "LOAD_FAST" -> LOAD_FAST(oprand)
    [] op = "STORE_FAST" -> STORE_FAST(oprand)
    [] op = "LOAD_GLOBAL" -> LOAD_GLOBAL(oprand, glob)
    [] op = "SWAP" -> SWAP
    [] op = "COPY" -> COPY(oprand)
    [] op = "UNARY_NEGATIVE" -> UNARY_NEGATIVE
    [] op = "UNARY_INVERT" -> UNARY_INVERT
    [] op = "UNARY_NOT" -> UNARY_NOT
    [] op = "IS_OP" -> IS_OP
    [] op = "CONTAINS_OP" -> CONTAINS_OP
    [] op = "BINARY_SUBSCR" -> BINARY_SUBSCR
    [] op = "STORE_SUBSCR" -> STORE_SUBSCR
    [] op = "BINARY_OP" -> BINARY_OP(oprand)
    [] op = "BINARY_OP_ADD_INT" -> BINARY_OP_ADD_INT
    [] op = "BINARY_OP_SUBTRACT_INT" -> BINARY_OP_SUBTRACT_INT
    [] op = "COMPARE_OP" -> COMPARE_OP(oprand)
    [] op = "CALL_INTRINSIC_1" -> CALL_INTRINSIC_1
    [] op = "LOAD_ATTR" -> LOAD_ATTR(oprand)
    [] op = "CALL" -> CALL(oprand)
    [] op = "BUILD_LIST" -> BUILD_LIST(oprand)
    [] op = "BUILD_TUPLE" -> BUILD_TUPLE(oprand)
    [] op = "BUILD_MAP" -> BUILD_MAP(oprand)
    [] op = "BUILD_CONST_KEY_MAP" -> BUILD_CONST_KEY_MAP(oprand)
    [] op = "GET_ITER" -> GET_ITER
    [] op = "FOR_ITER" -> FOR_ITER
    [] op = "END_FOR" -> END_FOR
    [] op = "JUMP_BACKWARD" -> JUMP_BACKWARD
    [] op = "POP_JUMP_IF_TRUE" -> POP_JUMP_IF(WriteJnzRel32)
    [] op = "POP_JUMP_IF_FALSE" -> POP_JUMP_IF(WriteJzRel32)
    [] op = "RETURN_VALUE" -> RETURN_VALUE
    [] op = "RETURN_CONST" -> RETURN_CONST(oprand)

\* Opcodes whose case never fails, whatever the operand.
PlainOpcodes ==
  JumpOpcodes \cup
  {"RESUME", "CACHE", "POP_TOP", "LOAD_CONST", "LOAD_FAST", "STORE_FAST", "SWAP", "COPY",
   "UNARY_NEGATIVE", "UNARY_INVERT", "UNARY_NOT", "IS_OP", "CONTAINS_OP", "BINARY_SUBSCR",
   "STORE_SUBSCR", "BINARY_OP_ADD_INT", "BINARY_OP_SUBTRACT_INT", "LOAD_ATTR", "BUILD_LIST",
   "BUILD_TUPLE", "BUILD_MAP", "BUILD_CONST_KEY_MAP", "GET_ITER", "END_FOR", "RETURN_VALUE",
   "RETURN_CONST"}

INTRINSIC_UNARY_POSITIVE == 5
Py_GE == 5

\* FALSE when the case ends in LOG(FATAL) or a failing CHECK, which abort the
\* process: compile_success = FALSE and the interpreter fallback behind it are
\* never reached, and what the case wrote before it does not matter.
Compilable(op, oprand, glob) ==
  \/ op \in PlainOpcodes
  \/ op = "CALL" /\ oprand \in {0, 1}
  \/ op = "BINARY_OP" /\ oprand \in DOMAIN oprand_to_func \cup {NB_POWER}
  \/ op = "COMPARE_OP" /\ oprand \div 16 <= Py_GE
  \/ op = "CALL_INTRINSIC_1" /\ oprand = INTRINSIC_UNARY_POSITIVE
  \/ op = "LOAD_GLOBAL" /\ glob[oprand \div 2] # 0
=============================================================================
