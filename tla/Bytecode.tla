------------------------------- MODULE Bytecode -------------------------------
(***************************************************************************)
(* What the bytecode of one function activation means: CPython's value     *)
(* stack machine, the abstract specification the generated code is checked *)
(* against.  CPython is not in the repository; the module covers the       *)
(* opcodes the switch of src/src/raijit.cc has a case for.                 *)
(*                                                                         *)
(* Two things are simplified.  The self-or-NULL slot CPython keeps under a *)
(* callable is folded into the callable, as raijit does.  FOR_ITER at the  *)
(* end of its iterator leaves an end marker for END_FOR to remove; CPython *)
(* runs the two in one step.  The order of a dict is not looked at: the    *)
(* tests of the repository compare dicts with ==.                          *)
(***************************************************************************)
EXTENDS CPython

CONSTANTS Programs,   \* the code objects
          Bindings,   \* what the global names may be bound to at first
          NLocals     \* how many local variables a frame has

VARIABLES
  code,      \* the bytecode
  pc,        \* index of the next op
  stack,     \* the value stack, top last
  locals,    \* localsplus
  heap,      \* containers built so far; dicts as sets of <<key, value>>
  calls,     \* the log of calls
  globals,   \* the bindings LOAD_GLOBAL reads
  result     \* what the activation returned

bcVars == <<code, pc, stack, locals, heap, calls, globals, result>>

BcInit ==
  /\ code \in Programs
  /\ pc = 0
  /\ stack = <<>>
  /\ locals = Arguments(NLocals)
  /\ heap = <<>>
  /\ calls = <<>>
  /\ globals \in Bindings
  /\ result = Running

op      == code[pc + 1].op
arg     == code[pc + 1].arg
Top(k)  == stack[Len(stack) - k + 1]
Drop(k) == SubSeq(stack, 1, Len(stack) - k)

At(ops) == /\ result = Running
           /\ op \in ops
           /\ UNCHANGED code

\* Go on behind the op with a new stack.
Continue(s) == /\ pc' = pc + 1
               /\ stack' = s
               /\ UNCHANGED result

-----------------------------------------------------------------------------
Skip == /\ At({"RESUME", "CACHE"})
        /\ Continue(stack)
        /\ UNCHANGED <<locals, heap, calls, globals>>

Shuffled ==
  CASE op = "POP_TOP" -> Drop(1)
    [] op = "END_FOR" -> Drop(2)
    [] op = "COPY"    -> Append(stack, Top(arg))
    [] op = "SWAP"    -> [stack EXCEPT ![Len(stack)] = Top(arg),
                                       ![Len(stack) - arg + 1] = Top(1)]
    [] op = "LOAD_FAST"   -> Append(stack, locals[arg])
    [] op = "LOAD_CONST"  -> Append(stack, ConstObj(arg))
    [] op = "LOAD_GLOBAL" -> Append(stack, GlobalObj(arg \div 2, globals[arg \div 2]))

MoveOp == /\ At({"POP_TOP", "END_FOR", "COPY", "SWAP", "LOAD_FAST", "LOAD_CONST", "LOAD_GLOBAL"})
          /\ Continue(Shuffled)
          /\ UNCHANGED <<locals, heap, calls, globals>>

StoreFast == /\ At({"STORE_FAST"})
             /\ Continue(Drop(1))
             /\ locals' = [locals EXCEPT ![arg] = Top(1)]
             /\ UNCHANGED <<heap, calls, globals>>

-----------------------------------------------------------------------------
\* Ops that call into the object: the C function they stand for and how many
\* operands they take off the stack.

BinaryOps == <<"PyNumber_Add", "PyNumber_And", "PyNumber_FloorDivide", "PyNumber_Lshift",
  "PyNumber_MatrixMultiply", "PyNumber_Multiply", "PyNumber_Remainder", "PyNumber_Or",
  "PyNumber_Power", "PyNumber_Rshift", "PyNumber_Subtract", "PyNumber_TrueDivide",
  "PyNumber_Xor", "PyNumber_InPlaceAdd", "PyNumber_InPlaceAnd",
  "PyNumber_InPlaceFloorDivide", "PyNumber_InPlaceLshift",
  "PyNumber_InPlaceMatrixMultiply", "PyNumber_InPlaceMultiply",
  "PyNumber_InPlaceRemainder", "PyNumber_InPlaceOr", "PyNumber_InPlacePower",
  "PyNumber_InPlaceRshift", "PyNumber_InPlaceSubtract", "PyNumber_InPlaceTrueDivide",
  "PyNumber_InPlaceXor">>

CallOps == {"UNARY_NEGATIVE", "UNARY_INVERT", "UNARY_NOT", "CALL_INTRINSIC_1", "GET_ITER",
            "BINARY_OP", "COMPARE_OP", "BINARY_SUBSCR", "LOAD_ATTR", "CALL", "IS_OP",
            "CONTAINS_OP"}

Callee ==
  CASE op = "UNARY_NEGATIVE"   -> "PyNumber_Negative"
    [] op = "UNARY_INVERT"     -> "PyNumber_Invert"
    [] op = "UNARY_NOT"        -> "PyObject_Not"
    [] op = "CALL_INTRINSIC_1" -> "PyNumber_Positive"
    [] op = "GET_ITER"         -> "PyObject_GetIter"
    [] op = "BINARY_OP"        -> BinaryOps[arg + 1]
    [] op = "COMPARE_OP"       -> "PyObject_RichCompare"
    [] op = "BINARY_SUBSCR"    -> "PyObject_GetItem"
    [] op = "LOAD_ATTR"        -> "PyObject_GetAttr"
    [] op = "CALL"  -> IF arg = 0 THEN "PyObject_CallNoArgs" ELSE "PyObject_CallOneArg"
    [] op = "IS_OP"            -> "Py_Is"
    [] op = "CONTAINS_OP"      -> "PySequence_Contains"

Operands ==
  CASE op \in {"BINARY_OP", "BINARY_SUBSCR", "COMPARE_OP", "IS_OP", "CONTAINS_OP"} -> 2
    [] op = "CALL" -> arg + 1
    [] OTHER -> 1

CalleeArgs ==
  CASE op = "BINARY_OP" /\ Arity(Callee) = 3 -> <<Top(2), Top(1), PyNone>>
    [] op = "COMPARE_OP"  -> <<Top(2), Top(1), RawInt(arg \div 16)>>
    [] op = "LOAD_ATTR"   -> <<Top(1), NameObj(arg \div 2)>>
    [] op = "CONTAINS_OP" -> <<Top(1), Top(2)>>
    [] op \in {"BINARY_SUBSCR", "IS_OP"} \/ (op \in {"BINARY_OP", "CALL"} /\ Arity(Callee) = 2)
                          -> <<Top(2), Top(1)>>
    [] OTHER              -> <<Top(1)>>

\* The object an op makes of the C result: IS_OP 1 is "is not", CONTAINS_OP 1
\* is "not in".
Pushed(r) ==
  CASE op = "UNARY_NOT"                 -> PyBool(r # RawInt(0))
    [] op \in {"IS_OP", "CONTAINS_OP"}  -> PyBool((r # RawInt(0)) # (arg = 1))
    [] OTHER                            -> r

CallOp ==
  /\ At(CallOps)
  /\ \E r \in Results(Callee, CalleeArgs, calls) :
       /\ calls' = Logged(calls, Callee, CalleeArgs, r)
       /\ IF r \in {NULL, RawInt(-1)}
          THEN result' = Raised /\ UNCHANGED <<pc, stack>>
          ELSE Continue(Append(Drop(Operands), Pushed(r)))
  /\ globals' \in Rebindings(Callee, globals)
  /\ UNCHANGED <<locals, heap>>

-----------------------------------------------------------------------------
\* Containers.

TopSeq(k) == SubSeq(stack, Len(stack) - k + 1, Len(stack))

\* The last value given for a key wins.
PairsOf(pairs) ==
  {pairs[i] : i \in {j \in DOMAIN pairs :
                       \A k \in j + 1 .. Len(pairs) : pairs[k][1] # pairs[j][1]}}

Built ==
  CASE op \in {"BUILD_LIST", "BUILD_TUPLE"} ->
         [kind |-> IF op = "BUILD_LIST" THEN "list" ELSE "tuple", items |-> TopSeq(arg)]
    [] op = "BUILD_MAP" ->
         [kind  |-> "dict",
          items |-> LET s == TopSeq(2 * arg)
                    IN  PairsOf([i \in 1 .. arg |-> <<s[2 * i - 1], s[2 * i]>>])]
    [] op = "BUILD_CONST_KEY_MAP" ->
         [kind  |-> "dict",
          items |-> LET s == TopSeq(arg + 1)
                    IN  PairsOf([i \in 1 .. arg |-> <<ItemOf(Top(1), i - 1), s[i]>>])]

Consumed == CASE op = "BUILD_MAP" -> 2 * arg
              [] op = "BUILD_CONST_KEY_MAP" -> arg + 1
              [] OTHER -> arg

BuildOp == /\ At({"BUILD_LIST", "BUILD_TUPLE", "BUILD_MAP", "BUILD_CONST_KEY_MAP"})
           /\ heap' = Append(heap, Built)
           /\ Continue(Append(Drop(Consumed), NewBox(heap)))
           /\ UNCHANGED <<locals, calls, globals>>

\* TOS1[TOS] = TOS2.  A store into anything but a dict built here is a call.
StoreSubscr ==
  /\ At({"STORE_SUBSCR"})
  /\ IF IsDictBox(Top(2), heap)
     THEN /\ heap' = [heap EXCEPT ![Top(2)[2]].items =
                        {p \in @ : p[1] # Top(1)} \cup {<<Top(1), Top(3)>>}]
          /\ UNCHANGED calls
     ELSE /\ calls' = Logged(calls, "SetItem", <<Top(2), Top(1), Top(3)>>, RawInt(0))
          /\ UNCHANGED heap
  /\ Continue(Drop(3))
  /\ UNCHANGED <<locals, globals>>

-----------------------------------------------------------------------------
\* Iteration, jumps and returns.

JumpTo(target, s) == /\ pc' = target
                     /\ stack' = s
                     /\ UNCHANGED <<result, locals, heap, globals>>

ForIter == /\ At({"FOR_ITER"})
           /\ \E r \in Results("PyIter_Next", <<Top(1)>>, calls) :
                /\ calls' = Logged(calls, "PyIter_Next", <<Top(1)>>, r)
                /\ JumpTo(IF r = NULL THEN JumpTarget(op, arg, pc) ELSE pc + 1,
                          Append(stack, r))

JumpBackward == /\ At({"JUMP_BACKWARD"})
                /\ JumpTo(JumpTarget(op, arg, pc), stack)
                /\ UNCHANGED calls

\* A condition that is no bool may be true or false.
Truth(w) == IF w[1] = "bool" THEN {w[2]} ELSE BOOLEAN

PopJump == /\ At({"POP_JUMP_IF_TRUE", "POP_JUMP_IF_FALSE"})
           /\ \E b \in Truth(Top(1)) :
                JumpTo(IF b = (op = "POP_JUMP_IF_TRUE") THEN JumpTarget(op, arg, pc) ELSE pc + 1,
                       Drop(1))
           /\ UNCHANGED calls

Return == /\ At({"RETURN_VALUE", "RETURN_CONST"})
          /\ result' = IF op = "RETURN_VALUE" THEN Top(1) ELSE ConstObj(arg)
          /\ UNCHANGED <<pc, stack, locals, heap, calls, globals>>

BcNext == \/ Skip \/ MoveOp \/ StoreFast \/ CallOp \/ BuildOp \/ StoreSubscr
          \/ ForIter \/ JumpBackward \/ PopJump \/ Return

BcSpec == BcInit /\ [][BcNext]_bcVars
=============================================================================
