------------------------------ MODULE CodeObject ------------------------------
(***************************************************************************)
(* The bytecode of CPython 3.12, as far as src/ relies on it: which ops    *)
(* jump, where to, how far an op moves the value stack, and the stack      *)
(* discipline its compiler keeps.  CPython is not in the repository.       *)
(*                                                                         *)
(* A code object is a sequence of [op, arg], one per code unit; the inline *)
(* caches are ops of their own, named CACHE.  Indices of ops start at 0.   *)
(* PyCode_GetCode undoes quickening, so specialised ops never appear.      *)
(***************************************************************************)
EXTENDS Integers, Sequences

JumpOpcodes == {"FOR_ITER", "JUMP_BACKWARD", "POP_JUMP_IF_TRUE", "POP_JUMP_IF_FALSE"}

\* Code units of inline cache behind an op that jumps.
InlineCache(op) == IF op = "FOR_ITER" THEN 1 ELSE 0

\* Where a jump op at index i leads: operands count from behind the caches.
JumpTarget(op, arg, i) ==
  i + 1 + InlineCache(op) + (IF op = "JUMP_BACKWARD" THEN -arg ELSE arg)

\* Jumps lead to an op of the same code object.
JumpsInside(prog) ==
  \A i \in DOMAIN prog : prog[i].op \in JumpOpcodes =>
    JumpTarget(prog[i].op, prog[i].arg, i - 1) \in 0 .. Len(prog) - 1

\* How many values an op adds to the stack.  The self-or-NULL slot under a
\* callable is left out, as raijit does.
StackEffect(op, arg) ==
  CASE op \in {"LOAD_CONST", "LOAD_FAST", "LOAD_GLOBAL", "COPY", "FOR_ITER"} -> 1
    [] op \in {"POP_TOP", "STORE_FAST", "IS_OP", "CONTAINS_OP", "BINARY_SUBSCR", "BINARY_OP",
               "BINARY_OP_ADD_INT", "BINARY_OP_SUBTRACT_INT", "COMPARE_OP",
               "POP_JUMP_IF_TRUE", "POP_JUMP_IF_FALSE", "RETURN_VALUE"}        -> -1
    [] op = "END_FOR"                                                          -> -2
    [] op = "STORE_SUBSCR"                                                     -> -3
    [] op = "CALL"                                                             -> -arg
    [] op \in {"BUILD_LIST", "BUILD_TUPLE"}                                    -> 1 - arg
    [] op = "BUILD_MAP"                                                        -> 1 - 2 * arg
    [] op = "BUILD_CONST_KEY_MAP"                                              -> -arg
    [] OTHER                                                                   -> 0

\* How many values an op takes off the stack, before it puts others on it.
PoppedBy(op, arg) ==
  CASE op \in {"POP_TOP", "STORE_FAST", "UNARY_NEGATIVE", "UNARY_INVERT", "UNARY_NOT", "GET_ITER",
               "FOR_ITER", "LOAD_ATTR", "CALL_INTRINSIC_1", "POP_JUMP_IF_TRUE",
               "POP_JUMP_IF_FALSE", "RETURN_VALUE"}                            -> 1
    [] op \in {"SWAP", "IS_OP", "CONTAINS_OP", "BINARY_SUBSCR", "BINARY_OP", "BINARY_OP_ADD_INT",
               "BINARY_OP_SUBTRACT_INT", "COMPARE_OP", "END_FOR"}              -> 2
    [] op = "STORE_SUBSCR"                                                     -> 3
    [] op \in {"CALL", "BUILD_CONST_KEY_MAP"}                                  -> arg + 1
    [] op \in {"BUILD_LIST", "BUILD_TUPLE"}                                    -> arg
    [] op = "BUILD_MAP"                                                        -> 2 * arg
    [] OTHER                                                                   -> 0

ReturnOpcodes == {"RETURN_VALUE", "RETURN_CONST"}

\* The ops, counted from 1, that may follow op i.
NextOps(prog, i) ==
  (IF prog[i].op \in ReturnOpcodes \cup {"JUMP_BACKWARD"} THEN {} ELSE {i + 1})
    \cup (IF prog[i].op \in JumpOpcodes
          THEN {JumpTarget(prog[i].op, prog[i].arg, i - 1) + 1} ELSE {})

\* What CPython's compiler works out to size the stack of a function: depth gives
\* the number of values in front of each op that can be reached, the same on
\* every path to it; no op finds fewer than it takes, and control
\* never runs off the end.
Balanced(prog, depth) ==
  /\ DOMAIN depth \subseteq DOMAIN prog
  /\ 1 \in DOMAIN depth /\ depth[1] = 0
  /\ \A i \in DOMAIN depth :
       /\ depth[i] \in Nat
       /\ PoppedBy(prog[i].op, prog[i].arg) <= depth[i]
       /\ \A j \in NextOps(prog, i) :
            j \in DOMAIN depth /\ depth[j] = depth[i] + StackEffect(prog[i].op, prog[i].arg)
=============================================================================
