------------------------------ MODULE MCCompiler ------------------------------
(***************************************************************************)
(* Compiler and Disasm on small code objects: every sequence of up to      *)
(* MaxOps ops over an alphabet with every kind of jump, an op without a    *)
(* case and a global that may be unbound; and each op with a case once.    *)
(***************************************************************************)
EXTENDS Disasm, SequencesExt

CONSTANT MaxOps

I(op, arg) == [op |-> op, arg |-> arg]

Alphabet ==
  {I("CACHE", 0), I("LOAD_GLOBAL", 130), I("EXTENDED_ARG", 1), I("RETURN_VALUE", 0)}
    \cup {I("FOR_ITER", n) : n \in 0 .. 1}
    \cup {I("JUMP_BACKWARD", n) : n \in 1 .. 3}
    \cup {I(op, n) : op \in {"POP_JUMP_IF_TRUE", "POP_JUMP_IF_FALSE"}, n \in 0 .. 1}

\* Control never runs off the end of a code object.
SmallPrograms ==
  {p \in BoundedSeq(Alphabet, MaxOps) :
     p # <<>> /\ Last(p).op \in {"RETURN_VALUE", "JUMP_BACKWARD"} /\ JumpsInside(p)}

\* Every op with a case once, with an operand the case accepts, in front of a return.
CaseOperand(op) == CASE op = "LOAD_GLOBAL" -> 130
                     [] op = "CALL_INTRINSIC_1" -> INTRINSIC_UNARY_POSITIVE
                     [] OTHER -> 0
CasePrograms ==
  {<<I(op, CaseOperand(op)), I("RETURN_VALUE", 0)>> :
     op \in (PlainOpcodes \ {"JUMP_BACKWARD", "FOR_ITER"})
              \cup {"CALL", "BINARY_OP", "COMPARE_OP", "CALL_INTRINSIC_1", "LOAD_GLOBAL"}}

MCPrograms == SmallPrograms \cup CasePrograms

\* name 65 is a global or a builtin, or neither.
MCBindings == {[n \in {65} |-> v] : v \in 0 .. 1}

\* a = 1; b = c; return None in an area scaled down to 64 bytes: the code of the
\* closing return starts two bytes before its end.  (In 16 KiB the same happens to
\* a = 1; b = 2; and 583 lines b = c.)
TightProgram ==
  <<I("RESUME", 0), I("LOAD_CONST", 1), I("STORE_FAST", 0), I("LOAD_FAST", 2),
    I("STORE_FAST", 1), I("RETURN_CONST", 0)>>
TightPrograms == {TightProgram}
=============================================================================
