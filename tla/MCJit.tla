--------------------------------- MODULE MCJit ---------------------------------
(***************************************************************************)
(* Ownership, and with it Jit, on the bytecode CPython 3.12 makes of the   *)
(* functions in src/opcode_tests and src/app_tests, and on pairs of ops.   *)
(***************************************************************************)
EXTENDS Ownership, SequencesExt

I(op, arg) == [op |-> op, arg |-> arg]

\* Ops with the inline caches CPython puts behind them.
Caches(op) ==
  CASE op \in {"BINARY_OP", "COMPARE_OP", "BINARY_SUBSCR", "STORE_SUBSCR", "FOR_ITER"} -> 1
    [] op = "CALL"        -> 3
    [] op = "LOAD_GLOBAL" -> 4
    [] op = "LOAD_ATTR"   -> 9
    [] OTHER              -> 0
X(op, arg) == <<I(op, arg)>> \o [i \in 1 .. Caches(op) |-> I("CACHE", 0)]

Function(body) == <<I("RESUME", 0)>> \o FlattenSeq(body)

Load(i)  == X("LOAD_FAST", i)
Store(i) == X("STORE_FAST", i)
Const(i) == X("LOAD_CONST", i)
Return   == X("RETURN_VALUE", 0)

ADD == 0
INPLACE_ADD == 13
INPLACE_POWER == 21
INPLACE_SUBTRACT == 23
LT == 2 * 16
GT == 4 * 16

\* use_if.py: if a > b: return a else: return b
UseIf == Function(<<Load(0), Load(1), X("COMPARE_OP", GT), X("POP_JUMP_IF_FALSE", 2),
                    Load(0), Return, Load(1), Return>>)

\* if not a or b: return a
OrNot == Function(<<Load(0), X("UNARY_NOT", 0), X("POP_JUMP_IF_TRUE", 2),
                    Load(1), X("POP_JUMP_IF_FALSE", 2), Load(0), Return,
                    X("RETURN_CONST", 0)>>)

\* for.py: for i in a: b += i
For == Function(<<Load(0), X("GET_ITER", 0), X("FOR_ITER", 7), Store(2), Load(1), Load(2),
                  X("BINARY_OP", INPLACE_ADD), Store(1), X("JUMP_BACKWARD", 9),
                  X("END_FOR", 0), Load(1), Return>>)

\* for i in a: for j in b: l.append(j), as in nbody_test.py
NestedFor ==
  Function(<<Load(0), X("GET_ITER", 0), X("FOR_ITER", 26), Store(2),
             Load(1), X("GET_ITER", 0), X("FOR_ITER", 19), Store(2),
             Load(0), X("LOAD_ATTR", 3), Load(2), X("CALL", 1), X("POP_TOP", 0),
             X("JUMP_BACKWARD", 21), X("END_FOR", 0), X("JUMP_BACKWARD", 28),
             X("END_FOR", 0), X("RETURN_CONST", 0)>>)

\* for i in a: return i
ReturnInFor ==
  Function(<<Load(0), X("GET_ITER", 0), X("FOR_ITER", 5), Store(2), Load(2), X("SWAP", 2),
             X("POP_TOP", 0), Return, X("END_FOR", 0), X("RETURN_CONST", 0)>>)

\* while a < b: a += b
While == Function(<<Load(0), Load(1), X("COMPARE_OP", LT), X("POP_JUMP_IF_FALSE", 11),
                    Load(0), Load(1), X("BINARY_OP", INPLACE_ADD), Store(0),
                    Load(0), Load(1), X("COMPARE_OP", LT), X("POP_JUMP_IF_FALSE", 1),
                    X("JUMP_BACKWARD", 11), Load(0), Return>>)

\* fib.py: fib(n - 1) + fib(n - 2)
Fib == Function(<<X("LOAD_GLOBAL", 1), Load(0), Const(1), X("BINARY_OP", 10), X("CALL", 1),
                  X("LOAD_GLOBAL", 1), Load(0), Const(2), X("BINARY_OP", 10), X("CALL", 1),
                  X("BINARY_OP", ADD), Return>>)

\* map.py: {'a': x, 'b': y} and d = {}; d['a'] = 32; d['b'] = 64
BuildMaps == Function(<<Load(0), Load(1), Const(0), X("BUILD_CONST_KEY_MAP", 2), Store(2),
                        Const(1), Load(2), Const(2), Load(0), X("BUILD_MAP", 2), Return>>)
MapSetItem == Function(<<X("BUILD_MAP", 0), Store(2), Const(1), Load(2), Const(2),
                         X("STORE_SUBSCR", 0), Const(3), Load(2), Const(4),
                         X("STORE_SUBSCR", 0), Load(2), Return>>)
\* map.py: d['a'] = 33 with a dict from outside
MapChange == Function(<<Const(1), Load(0), Const(2), X("STORE_SUBSCR", 0), Load(0), Return>>)

\* while a < b: d['a'] = a
SetItemInWhile ==
  Function(<<Load(1), Load(2), X("COMPARE_OP", LT), X("POP_JUMP_IF_FALSE", 11),
             Load(1), Load(0), Const(1), X("STORE_SUBSCR", 0),
             Load(1), Load(2), X("COMPARE_OP", LT), X("POP_JUMP_IF_FALSE", 1),
             X("JUMP_BACKWARD", 11), Load(0), Return>>)

\* subscr.py: pos = []; pos.append(1); return pos[1]
Subscr == Function(<<X("BUILD_LIST", 0), Store(2), Load(2), X("LOAD_ATTR", 1), Load(0),
                     X("CALL", 1), X("POP_TOP", 0), Load(2), Const(1),
                     X("BINARY_SUBSCR", 0), Return>>)

\* l = [a, a]; return (a, l)  and  for i in a: b = [b, i]
BuildShared == Function(<<Load(0), Load(0), X("BUILD_LIST", 2), Store(2), Load(0), Load(2),
                          X("BUILD_TUPLE", 2), Return>>)
BuildInFor ==
  Function(<<Load(0), X("GET_ITER", 0), X("FOR_ITER", 6), Store(2), Load(1), Load(2),
             X("BUILD_LIST", 2), Store(1), X("JUMP_BACKWARD", 8), X("END_FOR", 0), Load(1),
             Return>>)

TestPrograms == {UseIf, OrNot, For, NestedFor, ReturnInFor, While, Fib, BuildMaps, Subscr}
StorePrograms == {MapSetItem, MapChange, SetItemInWhile}
BuildPrograms == {BuildShared, BuildInFor}
FinitePrograms == TestPrograms \cup StorePrograms \cup BuildPrograms

-----------------------------------------------------------------------------
\* Every pair of ops on three values.  The operators of BINARY_OP and COMPARE_OP
\* differ only in their callee, so one of each kind stands for all in the pairs;
\* the others come once.

Unaries  == {"UNARY_NEGATIVE", "UNARY_INVERT", "UNARY_NOT", "GET_ITER"}
Binaries == {I("BINARY_OP", ADD), I("BINARY_OP", NB_POWER), I("COMPARE_OP", LT)}
              \cup {I(op, 0) : op \in {"IS_OP", "CONTAINS_OP", "BINARY_SUBSCR"}}
OtherBinaries == ({I("BINARY_OP", n) : n \in (0 .. 25) \ {INPLACE_POWER}}
                    \cup {I("COMPARE_OP", 16 * n) : n \in 0 .. 5}) \ Binaries
PairOps  == {I(op, 0) : op \in Unaries \cup {"POP_TOP", "CALL"}} \cup Binaries
              \cup {I("CALL_INTRINSIC_1", 5), I("LOAD_ATTR", 3), I("SWAP", 2), I("CALL", 1),
                    I("STORE_FAST", 1), I("LOAD_FAST", 1), I("LOAD_GLOBAL", 3),
                    I("LOAD_CONST", 3)}
              \cup {I(op, n) : op \in {"BUILD_LIST", "BUILD_TUPLE"}, n \in 0 .. 2}
              \cup {I("BUILD_MAP", n) : n \in 0 .. 1}
FirstOps == PairOps \cup {I("BUILD_CONST_KEY_MAP", n) : n \in 1 .. 2}
              \cup {I(op, 3) : op \in {"BUILD_LIST", "BUILD_TUPLE"}}

PairProgram(i, j) ==
  Function(<<Load(0), Load(1), Const(0), X(i.op, i.arg), X(j.op, j.arg), Return>>)

\* The second op finds the values it pops, and the return finds one.
PairPrograms ==
  {PairProgram(p[1], p[2]) :
     p \in {q \in FirstOps \X PairOps :
              LET depth == 3 + StackEffect(q[1].op, q[1].arg)
              IN  PoppedBy(q[2].op, q[2].arg) <= depth /\ depth + StackEffect(q[2].op, q[2].arg) >= 1}}
    \cup {PairProgram(i, I("UNARY_NOT", 0)) : i \in OtherBinaries}

FunctionPrograms == FinitePrograms \cup PairPrograms

-----------------------------------------------------------------------------
\* What raijit gets wrong.

\* copy.py: pos = [1.0, 2.0]; pos[0] -= 1.0; return pos
Copy == Function(<<Const(1), Const(2), X("BUILD_LIST", 2), Store(0), Load(0), Const(3),
                   X("COPY", 2), X("COPY", 2), X("BINARY_SUBSCR", 0), Const(4),
                   X("BINARY_OP", INPLACE_SUBTRACT), X("SWAP", 3), X("SWAP", 2),
                   X("STORE_SUBSCR", 0), Load(0), Return>>)
CopyPrograms == {Copy}

\* for i in b: d[i] = i, with a dict: the loops of nbody_test.py
SetItemInFor ==
  Function(<<Load(1), X("GET_ITER", 0), X("FOR_ITER", 7), Store(2), Load(2), Load(0), Load(2),
             X("STORE_SUBSCR", 0), X("JUMP_BACKWARD", 9), X("END_FOR", 0), Load(0), Return>>)
SetItemPrograms == {SetItemInFor}

\* The stack is balanced in these, too.
BalancedPrograms == FunctionPrograms \cup CopyPrograms \cup SetItemPrograms

\* inplace.py: a **= b; return a
InplacePow == Function(<<Load(0), Load(1), X("BINARY_OP", INPLACE_POWER), Store(0), Load(0),
                         Return>>)
PowPrograms == {InplacePow}

GlobalPrograms == {Fib}

-----------------------------------------------------------------------------
\* The stack depths of the programs, in one pass: an op is reached from one further
\* up, or not at all.
Flow(prog, d, i) ==
  IF i \in DOMAIN d
  THEN [k \in DOMAIN d \cup NextOps(prog, i) |->
          IF k \in DOMAIN d THEN d[k] ELSE d[i] + StackEffect(prog[i].op, prog[i].arg)]
  ELSE d
Depths(prog) == FoldLeftDomain(LAMBDA d, i : Flow(prog, d, i), <<0>>, prog)

MCStackDepth == [prog \in Programs |-> Depths(prog)]

MCBindings == {[n \in 0 .. 1 |-> 1]}
MCDictObjs == {<<"arg", 0>>}
=============================================================================
