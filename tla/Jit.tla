---------------------------------- MODULE Jit ----------------------------------
(***************************************************************************)
(* One activation of RaijitEvalFrame (src/src/raijit.cc): the compiler of  *)
(* Compiler.tla, then func(), the machine code it wrote, run one           *)
(* instruction per step on a small x86-64: the registers the code uses,    *)
(* the zero flag, the machine stack (which is the value stack of the       *)
(* bytecode and the frame of func() at once) and the memory it points to.  *)
(*                                                                         *)
(* The variable seen is a history variable: the state the bytecode is in,  *)
(* read off the machine whenever control reaches the first instruction of  *)
(* an op.  It is what Bytecode.tla is compared with.                       *)
(***************************************************************************)
EXTENDS Compiler, CPython

CONSTANTS
  NLocals,    \* how many local variables the frame has
  EntryRsp,   \* rsp when func() is entered
  StackDepth  \* how deep the value stack is in front of each op of a program

\* The System V ABI: rsp + 8 is a multiple of 16 when a function is entered.
ASSUME EntryAssumption == NLocals \in Nat /\ EntryRsp \in Nat /\ EntryRsp % 16 = 8

\* The bytecode comes from CPython's compiler.
ASSUME DepthAssumption == \A prog \in Programs : Balanced(prog, StackDepth[prog])

VARIABLES
  run,          \* "no", "running", "returned", "aborted" or "crashed"
  rip,          \* offset of the next instruction
  reg,          \* the registers
  zf,           \* the zero flag
  stk,          \* the words of the machine stack, by address
  localsplus,   \* interpreter_frame->localsplus
  heap,         \* the containers built so far
  calls,        \* the log of calls into Python code
  live,         \* the current bindings of the global names
  result,       \* what RaijitEvalFrame returned
  seen          \* the state of the bytecode when it last was between two ops

machineVars == <<rip, reg, zf, stk>>
runVars == <<run, machineVars, localsplus, heap, calls, live, result, seen>>
jitVars == <<compileVars, runVars>>

Registers == {"rax", "rdi", "rsi", "rdx", "r12", "r13", "rsp", "rbp"}

\* What the caller of func() keeps in its registers and on the stack.
CallerWord(r) == <<"caller", r>>
ReturnAddress == <<"return", 0>>

\* What a nested activation returns in a register that held w.
Clobbered(w) == IF w[1] = "nested" THEN w ELSE <<"nested", w>>

Sp       == reg["rsp"][2]
Word(a)  == IF a \in DOMAIN stk THEN stk[a] ELSE Junk

JitInit ==
  /\ CompileInit
  /\ run = "no"
  /\ rip = 0
  /\ reg = [r \in Registers |-> CASE r = "rsp" -> RawInt(EntryRsp)
                                  [] r \in {"rbp", "r12", "r13"} -> CallerWord(r)
                                  [] OTHER -> Junk]
  /\ zf = FALSE
  /\ stk = [a \in {EntryRsp} |-> ReturnAddress]
  /\ localsplus = Arguments(NLocals)
  /\ heap = <<>>
  /\ calls = <<>>
  /\ live = globals
  /\ result = Running
  /\ seen = [pc |-> 0, stack |-> <<>>, locals |-> localsplus, heap |-> heap, calls |-> calls,
             live |-> live, leaked |-> 0]

-----------------------------------------------------------------------------
\* The history variable.

\* A container as the bytecode knows it: the order of a dict is left out.
Abstracted(box) ==
  IF box.kind = "dict" THEN [box EXCEPT !.items = {box.items[i] : i \in DOMAIN box.items}]
                       ELSE box

\* The words pushed since the prologue, top last.  Those that STORE_SUBSCR left
\* lying are at the bottom when nothing else was on the stack.
ValueStack(r, s, leaked) ==
  LET depth == (EntryRsp - 8 - r["rsp"][2]) \div 8
  IN  [k \in 1 .. depth - leaked |-> s[EntryRsp - 8 - 8 * (k + leaked)]]

\* The index of the op whose code starts at a.
OpAt(a) == (CHOOSE i \in DOMAIN code_addr : code_addr[i] = a) - 1

Observe ==
  IF run' = "running" /\ \E i \in DOMAIN code_addr : code_addr[i] = rip'
  THEN LET leaked == seen.leaked + (IF Op(seen.pc) = "STORE_SUBSCR" THEN 1 ELSE 0)
       IN  seen' = [pc |-> OpAt(rip'), stack |-> ValueStack(reg', stk', leaked),
                    locals |-> localsplus', heap |-> [i \in DOMAIN heap' |-> Abstracted(heap'[i])],
                    calls |-> calls', live |-> live', leaked |-> leaked]
  ELSE UNCHANGED seen

-----------------------------------------------------------------------------
\* auto result = func();

Compile == CompileNext /\ UNCHANGED runVars

Enter == /\ phase = "ready" /\ run = "no"
         /\ run' = "running"
         /\ UNCHANGED <<compileVars, machineVars, localsplus, heap, calls, live, result, seen>>

\* The instruction at rip is of one of the kinds.
At(kinds) == /\ run = "running"
             /\ rip \in DOMAIN text
             /\ text[rip].ins \in kinds

ins     == text[rip]
NextRip == rip + InsLen(ins)

\* An instruction that only moves words: run goes on behind it.
Moves(r, s, l) == /\ rip' = NextRip
                  /\ reg' = r
                  /\ stk' = s
                  /\ localsplus' = l
                  /\ UNCHANGED <<compileVars, run, zf, heap, calls, live, result>>
                  /\ Observe

Set(r, w)       == [reg EXCEPT ![r] = w]
SetRsp(rs, a)   == [rs EXCEPT !["rsp"] = RawInt(a)]

NoOp == /\ At({"nop", "endbr64"})
        /\ Moves(reg, stk, localsplus)

PushReg == /\ At({"push"})
           /\ Moves(SetRsp(reg, Sp - 8), With(stk, Sp - 8, reg[ins.reg]), localsplus)

PopReg == /\ At({"pop"})
          /\ Moves(SetRsp(Set(ins.reg, Word(Sp)), Sp + 8), stk, localsplus)

MovImmediate == /\ At({"movimm"})
                /\ Moves(Set(ins.reg, ins.imm), stk, localsplus)

MovRegister == /\ At({"movreg"})
               /\ Moves(Set(ins.dst, reg[ins.src]), stk, localsplus)

\* A word that straddles two stack slots is no value at all.
LoadStack == /\ At({"loadstack"})
             /\ Moves(Set("rdi", Word(Sp + ins.off)), stk, localsplus)

LoadLocal == /\ At({"loadptr"})
             /\ reg["rdi"][1] = "local"
             /\ Moves(Set("rax", localsplus[reg["rdi"][2]]), stk, localsplus)

StoreLocal == /\ At({"storeptr"})
              /\ reg["rax"][1] = "local"
              /\ Moves(reg, stk, [localsplus EXCEPT ![reg["rax"][2]] = reg["rdi"]])

-----------------------------------------------------------------------------
\* call rax.

Fn     == reg["rax"][2]
Args   == SubSeq(<<reg["rdi"], reg["rsi"], reg["rdx"]>>, 1, Arity(Fn))
IsBool(w) == w[1] = "bool"

\* raijit's own callees and CPython's.
ConvertToPyBool(v) == PyBool(v # RawInt(0))
IsPyTrue(v)        == RawInt(IF v[2] THEN 1 ELSE 0)

CalleeOutcomes ==
  CASE Fn = "ConvertToPyBool" -> {Outcome(ConvertToPyBool(Args[1]), heap, calls)}
    [] Fn = "IsPyTrue" ->
         IF IsBool(Args[1]) THEN {Outcome(IsPyTrue(Args[1]), heap, calls)} ELSE {}
    [] OTHER -> Outcomes(Fn, Args, heap, calls)

\* The callee may change its argument registers and every word below rsp.  When it
\* runs Python code (which it logs), other compiled functions run and leave r12
\* and r13 as ReturnsToCaller allows: not as they were.
CallReturns ==
  /\ At({"callrax"})
  /\ \E out \in CalleeOutcomes :
       /\ reg' = [r \in Registers |->
                    CASE r = "rax" -> out.ret
                      [] r \in {"rdi", "rsi", "rdx"} -> Junk
                      [] r \in {"r12", "r13"} /\ out.calls # calls -> Clobbered(reg[r])
                      [] OTHER -> reg[r]]
       /\ heap' = out.heap
       /\ calls' = out.calls
  /\ live' \in Rebindings(Fn, live)
  /\ stk' = [a \in {x \in DOMAIN stk : x >= Sp} |-> stk[a]]
  /\ rip' = NextRip
  /\ UNCHANGED <<compileVars, run, zf, localsplus, result>>
  /\ Observe

\* LOG(FATAL) in IsPyTrue.
CallAborts ==
  /\ At({"callrax"})
  /\ Fn = "IsPyTrue"
  /\ ~IsBool(Args[1])
  /\ run' = "aborted"
  /\ UNCHANGED <<compileVars, machineVars, localsplus, heap, calls, live, result, seen>>

\* Nothing is promised for a call with a NULL or a stray pointer.
CallCrashes ==
  /\ At({"callrax"})
  /\ \E i \in DOMAIN Args : Args[i] \in {NULL, Junk}
  /\ run' = "crashed"
  /\ UNCHANGED <<compileVars, machineVars, localsplus, heap, calls, live, result, seen>>

-----------------------------------------------------------------------------
\* Flags, jumps and the end.

Compare == /\ At({"cmp"})
           /\ zf' = (reg["rax"] = RawInt(ins.imm) \/ (ins.imm = 0 /\ reg["rax"] = NULL))
           /\ rip' = NextRip
           /\ UNCHANGED <<compileVars, run, reg, stk, localsplus, heap, calls, live, result>>
           /\ Observe

Taken == CASE ins.ins = "jz" -> zf
           [] ins.ins = "jnz" -> ~zf
           [] ins.ins = "jmp" -> TRUE

Jump == /\ At({"jz", "jnz", "jmp"})
        /\ rip' = NextRip + (IF Taken THEN rel32[NextRip - 4] ELSE 0)
        /\ UNCHANGED <<compileVars, run, reg, zf, stk, localsplus, heap, calls, live, result>>
        /\ Observe

\* mov rsp, rbp ; pop rbp
Leave ==
  /\ At({"leave"})
  /\ LET bp == reg["rbp"][2]
     IN  Moves([reg EXCEPT !["rsp"] = RawInt(bp + 8), !["rbp"] = Word(bp)], stk, localsplus)

\* ret, munmap and Py_INCREF(result): raijit returns what func() left in rax.
\* Returning to anything but the return address, or NULL, is the end of the
\* process.
Ret ==
  /\ At({"ret"})
  /\ reg' = SetRsp(reg, Sp + 8)
  /\ IF Word(Sp) # ReturnAddress \/ reg["rax"] = NULL
     THEN run' = "crashed" /\ UNCHANGED result
     ELSE run' = "returned" /\ result' = reg["rax"]
  /\ UNCHANGED <<compileVars, rip, zf, stk, localsplus, heap, calls, live, seen>>

Instruction == NoOp \/ PushReg \/ PopReg \/ MovImmediate \/ MovRegister \/ LoadStack
                 \/ LoadLocal \/ StoreLocal \/ CallReturns \/ CallAborts \/ CallCrashes
                 \/ Compare \/ Jump \/ Leave \/ Ret

JitNext == Compile \/ Enter \/ Instruction

\* The thread that called the function runs.
JitSpec == JitInit /\ [][JitNext]_jitVars /\ WF_jitVars(JitNext)
-----------------------------------------------------------------------------
(***************************************************************************)
(* Properties.                                                             *)
(***************************************************************************)

\* The types of the machine's state: rsp stays a multiple of 8 below the caller's
\* frame, only slots are written, and control stays on the first bytes of
\* instructions (a relocation that is off by one byte would leave them).
JitTypeOK ==
  /\ run \in {"no", "running", "returned", "aborted", "crashed"}
  /\ run # "no" => phase = "ready"
  /\ run = "running" => rip \in DOMAIN text
  /\ DOMAIN reg = Registers
  /\ reg["rsp"] = RawInt(Sp) /\ Sp % 8 = 0 /\ Sp <= EntryRsp + 8
  /\ \A a \in DOMAIN stk : a % 8 = 0 /\ a <= EntryRsp
  /\ DOMAIN localsplus = 0 .. NLocals - 1
  /\ seen.pc \in 0 .. n_op - 1

InBody == run = "running" /\ rip >= code_addr[1]

\* The value stack of the bytecode shares the machine stack with the frame of
\* func() and the words pushed around every call: it never grows into the saved
\* rbp and the return address, whichever calls fail, and ret finds both.
FrameIntact ==
  InBody =>
    /\ Word(EntryRsp) = ReturnAddress
    /\ Word(EntryRsp - 8) = CallerWord("rbp")
    /\ IF ins.ins = "ret"
       THEN Sp = EntryRsp /\ reg["rbp"] = CallerWord("rbp")
       ELSE Sp <= EntryRsp - 8 /\ reg["rbp"] = RawInt(EntryRsp - 8)

\* Whenever control reaches an op, on whichever path, the machine stack is as deep
\* as CPython's compiler says the value stack is there, and as the containers
\* STORE_SUBSCR left on this path (which is why no depth of the machine stack
\* belongs to an op alone).
StackAtDepth ==
  InBody => \A i \in DOMAIN code_addr : code_addr[i] = rip =>
    Sp = EntryRsp - 8 - 8 * (StackDepth[code][i] + seen.leaked)

BuildsWith(r) ==
  IF r = "r12" THEN {"BUILD_LIST", "BUILD_TUPLE", "BUILD_CONST_KEY_MAP"}
               ELSE {"BUILD_CONST_KEY_MAP"}

\* Whatever is still on the value stack at a return (an iterator, what
\* STORE_SUBSCR left), the caller of func() gets its stack and frame pointers
\* back.  r12 and r13 are callee-saved too, but only code without the ops that
\* use them returns them, as far as the functions it called did.
ReturnsToCaller ==
  run = "returned" =>
    /\ reg["rsp"] = RawInt(EntryRsp + 8)
    /\ reg["rbp"] = CallerWord("rbp")
    /\ \A r \in {"r12", "r13"} :
         (\A i \in DOMAIN code : code[i].op \notin BuildsWith(r)) =>
           reg[r] \in {CallerWord(r), Clobbered(CallerWord(r))}

\* The generated code does what the bytecode says: the same stack, locals and
\* containers between any two ops, the same calls with the same arguments in the
\* same order, the same result.  Globals have the values they had when the
\* function was compiled, which is when it was called.
Entry == INSTANCE Bytecode WITH
  pc <- seen.pc, stack <- seen.stack, locals <- seen.locals, heap <- seen.heap,
  calls <- seen.calls
ImplementsBytecode == Entry!BcSpec

\* The same, but LOAD_GLOBAL finds what the name is bound to at that moment.
Live == INSTANCE Bytecode WITH
  pc <- seen.pc, stack <- seen.stack, locals <- seen.locals, heap <- seen.heap,
  calls <- seen.calls, globals <- seen.live
ImplementsLiveBytecode == Live!BcSpec

\* PyIter_Next is only asked about iterators: what PyObject_GetIter returned
\* earlier (the machine finds its operand by position on the stack only).
IterProtocol ==
  \A k \in DOMAIN calls : calls[k].fn = "PyIter_Next" =>
    \E j \in 1 .. k - 1 : /\ calls[j].fn = "PyObject_GetIter"
                           /\ calls[j].ret = calls[k].args[1]

\* Between any two ops, the machine stack has moved by the stack effect of the op
\* (and the container STORE_SUBSCR leaves), on every path and whatever the calls
\* returned: NULL and -1 are never looked at, but they do not unbalance it either.
StackEffects ==
  [][seen' # seen /\ run = "running" /\ InBody =>
       Len(seen'.stack) = Len(seen.stack) + StackEffect(Op(seen.pc), Arg(seen.pc))]_jitVars

\* An activation whose iterators are finite returns, or stops at a condition that
\* is no bool.
ActivationEnds == <>(run \in {"returned", "aborted"})
=============================================================================
