------------------------------- MODULE JitProofs -------------------------------
(***************************************************************************)
(* Proofs about the machine that runs the compiled code, for every         *)
(* bytecode whose jumps stay inside it, and whatever the calls return:     *)
(* where control is, and what the machine stack and the registers of the   *)
(* caller are like.                                                        *)
(***************************************************************************)
EXTENDS StackProofs, Ownership

\* Control is on the first byte of an instruction, or behind the last one (where
\* bytecode that does not end in a return or a jump would lead it).
ControlStays == run = "running" => rip \in DOMAIN text \cup {code_ptr}

\* The inductive invariant: the code is complete and tiled before it runs.
ControlInv ==
  /\ IInv
  /\ CodeTiled
  /\ run \notin {"running", "no"} \/ rip \in DOMAIN text \cup {code_ptr}
  /\ run = "no" => rip = 0
  /\ run = "running" => phase = "ready"

-----------------------------------------------------------------------------
\* The compiler, and the machine, which leaves its state alone.

LEMMA JitInit_ControlInv == JitInit => ControlInv
<1> SUFFICES ASSUME JitInit PROVE ControlInv
  OBVIOUS
<1>1. IInv
  BY CompileInit_IInv DEF JitInit
<1>2. /\ text = <<>> /\ code_ptr = 0 /\ code_addr = <<>> /\ phase = "prologue"
      /\ rip = 0 /\ run = "no"
  BY DEF JitInit, CompileInit
<1>3. DOMAIN <<>> = {} /\ Len(<<>>) = 0
  OBVIOUS
<1> QED BY <1>1, <1>2, <1>3 DEF ControlInv, CodeTiled

LEMMA CompilerKept ==
  ASSUME ControlInv, [CompileNext]_compileVars
  PROVE  IInv' /\ CodeTiled'
<1>1. IInv'
  BY Emit_IInv, BeginOp_IInv, Patch_IInv, PhaseStep_IInv DEF ControlInv, CompileNext
<1>2. CodeTiled'
  BY CompileNext_CodeTiled DEF ControlInv
<1> QED BY <1>1, <1>2

LEMMA Compile_ControlInv ==
  ASSUME ControlInv, Compile
  PROVE  ControlInv'
<1>1. /\ phase # "ready" /\ run' = run /\ rip' = rip /\ CompileNext
  BY DEF Compile, runVars, machineVars, CompileNext, Emit, Overrun, BeginOp, EndOps, Patch,
         EndReloc
<1>2. IInv' /\ CodeTiled'
  BY <1>1, CompilerKept
<1>3. run' = "no" => rip' \in DOMAIN text' \cup {code_ptr'}
  BY <1>1, <1>2 DEF ControlInv, CodeTiled
<1> QED BY <1>1, <1>2, <1>3 DEF ControlInv

\* A relocated jump leads to the head of an op.
LEMMA JumpLeads ==
  ASSUME IInv, phase = "ready", NEW a \in DOMAIN text, IsJump(text[a])
  PROVE  \E j \in DOMAIN code_addr :
           a + InsLen(text[a]) + rel32[a + InsLen(text[a]) - 4] = code_addr[j]
<1>1. JumpsLand
  BY IInv_JumpsLand
<1> QED BY <1>1, Zenon DEF JumpsLand

\* Every instruction leads to the next one, behind it or, when it jumps, at the
\* head of an op.
LEMMA InstructionLeads ==
  ASSUME ControlInv, Instruction, run' = "running"
  PROVE  rip' \in DOMAIN text \cup {code_ptr}
<1>1. run = "running" /\ rip \in DOMAIN text /\ phase = "ready"
  BY DEF ControlInv, Instruction, NoOp, PushReg, PopReg, MovImmediate, MovRegister, LoadStack,
         LoadLocal, StoreLocal, CallReturns, CallAborts, CallCrashes, Compare, Jump, Leave, Ret, At
<1>2. NextRip \in DOMAIN text \cup {code_ptr}
  BY <1>1 DEF ControlInv, CodeTiled, NextRip, ins
<1>3. CASE Jump
  <2>1. /\ IsJump(text[rip])
        /\ rip' = NextRip + (IF Taken THEN rel32[NextRip - 4] ELSE 0)
    BY <1>3 DEF Jump, At, IsJump, ins
  <2>2. rip \in Nat /\ InsLen(text[rip]) \in 1 .. 15 /\ NextRip = rip + InsLen(text[rip])
    BY <1>1, InsLenType DEF ControlInv, IInv, CompileTypeOK, NextRip, ins
  <2>3. CASE Taken
    <3>1. \E j \in DOMAIN code_addr : NextRip + rel32[NextRip - 4] = code_addr[j]
      <4>1. \E j \in DOMAIN code_addr :
              rip + InsLen(text[rip]) + rel32[rip + InsLen(text[rip]) - 4] = code_addr[j]
        BY <1>1, <2>1, JumpLeads DEF ControlInv
      <4> QED BY <4>1, <2>2
    <3>2. rip' = NextRip + rel32[NextRip - 4]
      BY <2>1, <2>3
    <3>3. \E j \in DOMAIN code_addr : rip' = code_addr[j]
      BY <3>1, <3>2
    <3> QED BY <3>3 DEF ControlInv, CodeTiled
  <2>4. CASE ~Taken
    <3>1. rip' = NextRip
      BY <2>1, <2>2, <2>4
    <3> QED BY <1>2, <3>1
  <2> QED BY <2>3, <2>4
<1>4. CASE CallAborts \/ CallCrashes \/ Ret
  BY <1>1, <1>4 DEF CallAborts, CallCrashes, Ret, machineVars
<1>5. CASE NoOp \/ PushReg \/ PopReg \/ MovImmediate \/ MovRegister \/ LoadStack \/ LoadLocal
             \/ StoreLocal \/ Leave \/ CallReturns \/ Compare
  <2>1. rip' = NextRip
    BY <1>5 DEF NoOp, PushReg, PopReg, MovImmediate, MovRegister, LoadStack, LoadLocal,
         StoreLocal, Leave, CallReturns, Compare, Moves
  <2> QED BY <1>2, <2>1
<1> QED BY <1>3, <1>4, <1>5 DEF Instruction

LEMMA Instruction_ControlInv ==
  ASSUME ControlInv, Instruction
  PROVE  ControlInv'
<1>1. run = "running" /\ UNCHANGED compileVars
  BY DEF Instruction, NoOp, PushReg, PopReg, MovImmediate, MovRegister, LoadStack, LoadLocal,
         StoreLocal, CallReturns, CallAborts, CallCrashes, Compare, Jump, Leave, Ret, At, Moves
<1>2. run' # "no"
  BY <1>1 DEF Instruction, NoOp, PushReg, PopReg, MovImmediate, MovRegister, LoadStack, LoadLocal,
         StoreLocal, CallReturns, CallAborts, CallCrashes, Compare, Jump, Leave, Ret, Moves
<1>3. IInv' /\ CodeTiled'
  BY <1>1, CompilerKept
<1>4. text' = text /\ code_ptr' = code_ptr /\ phase' = "ready"
  BY <1>1 DEF compileVars, ControlInv
<1> QED BY <1>2, <1>3, <1>4, InstructionLeads DEF ControlInv

LEMMA JitNext_ControlInv == ControlInv /\ [JitNext]_jitVars => ControlInv'
<1> SUFFICES ASSUME ControlInv, [JitNext]_jitVars PROVE ControlInv'
  OBVIOUS
<1>1. CASE Compile
  BY <1>1, Compile_ControlInv
<1>2. CASE Instruction
  BY <1>2, Instruction_ControlInv
<1>3. CASE Enter \/ UNCHANGED jitVars
  <2>1. /\ UNCHANGED compileVars /\ rip' = rip
        /\ run' = run \/ (run = "no" /\ run' = "running" /\ phase = "ready")
    BY <1>3 DEF Enter, jitVars, runVars, machineVars
  <2>2. IInv' /\ CodeTiled'
    BY <2>1, CompilerKept
  <2>3. text' = text /\ code_ptr' = code_ptr /\ phase' = phase
    BY <2>1 DEF compileVars
  <2> QED BY <2>1, <2>2, <2>3 DEF ControlInv
<1> QED BY <1>1, <1>2, <1>3 DEF JitNext

\* The compiled code never runs into the middle of an instruction: jumps lead to
\* the heads of ops and everything else to what is behind it, as relocated, for
\* every bytecode.
THEOREM ControlStaysOnInstructions == JitSpec => []ControlStays
<1>1. ControlInv => ControlStays
  BY DEF ControlInv, ControlStays
<1> QED BY <1>1, JitInit_ControlInv, JitNext_ControlInv, PTL DEF JitSpec

-----------------------------------------------------------------------------
\* The machine and the frame of func().

\* What has a type, whatever happened.
MachineTypes ==
  /\ run \in {"no", "running", "returned", "aborted", "crashed"}
  /\ run # "no" => phase = "ready"
  /\ DOMAIN reg = Registers
  /\ reg["rsp"] = RawInt(Sp) /\ Sp \in Int /\ Sp % 8 = 0 /\ Sp <= EntryRsp + 8
  /\ \A a \in DOMAIN stk : a \in Int /\ a % 8 = 0 /\ a <= EntryRsp
  /\ DOMAIN localsplus = 0 .. NLocals - 1
  /\ seen.pc \in 0 .. n_op - 1
  /\ seen.leaked \in Nat

\* The stack above rsp is the caller's, or func()'s, and stays as it is.
StackKept == \A a \in DOMAIN stk : a >= Sp => a \in DOMAIN stk' /\ stk'[a] = stk[a]

\* An instruction of the body of an op that writes no callee-saved register but
\* those in W: it moves rsp by what it pushes or pops, and nothing above rsp.
LEMMA WorkStep ==
  ASSUME MachineTypes, NEW W \in SUBSET {"r12", "r13"}, text[rip] \in Body(W),
         Instruction, run' = "running"
  PROVE  /\ run = "running" /\ rip' = NextRip /\ Observe /\ UNCHANGED compileVars
         /\ DOMAIN reg' = Registers
         /\ reg'["rsp"] = RawInt(Sp - 8 * Shift(text[rip]))
         /\ reg'["rbp"] = reg["rbp"]
         /\ \A r \in {"r12", "r13"} \ W : reg'[r] \in {reg[r], Clobbered(reg[r])}
         /\ StackKept
         /\ \A a \in DOMAIN stk' : a \in DOMAIN stk \/ a = Sp - 8
         /\ DOMAIN localsplus' = DOMAIN localsplus
<1>1. /\ ins \in Straight /\ ins.ins \notin {"leave", "ret", "jz", "jnz", "jmp"}
      /\ ins.ins = "pop" => ins.reg \in ScratchRegisters \cup W
      /\ ins.ins = "movimm" => ins.reg \in ScratchRegisters
      /\ ins.ins = "movreg" => ins.dst \in ScratchRegisters \cup W
  BY StraightHasNoJump DEF Body, ins, IsJump
<1>2. /\ DOMAIN reg = Registers /\ reg["rsp"] = RawInt(Sp) /\ Sp \in Int
      /\ {"rsp", "rbp", "r12", "r13"} \subseteq Registers
      /\ ScratchRegisters \subseteq Registers
      /\ ScratchRegisters \cap {"rsp", "rbp", "r12", "r13"} = {}
      /\ \A a \in DOMAIN stk : a \in Int
  BY DEF MachineTypes, Registers, ScratchRegisters
<1>3. Sp = Sp - 8 * 0 /\ Sp - 8 = Sp - 8 * 1 /\ Sp + 8 = Sp - 8 * (-1)
  BY <1>2
<1>4. CASE NoOp
  BY <1>2, <1>3, <1>4 DEF NoOp, Moves, At, ins, Shift, StackKept
<1>5. CASE PushReg
  BY <1>2, <1>3, <1>5 DEF PushReg, Moves, At, ins, Shift, StackKept, With, SetRsp
<1>6. CASE PopReg
  BY <1>1, <1>2, <1>3, <1>6 DEF PopReg, Moves, At, ins, Shift, StackKept, Set, SetRsp
<1>7. CASE MovImmediate
  BY <1>1, <1>2, <1>3, <1>7 DEF MovImmediate, Moves, At, ins, Shift, StackKept, Set
<1>8. CASE MovRegister
  BY <1>1, <1>2, <1>3, <1>8 DEF MovRegister, Moves, At, ins, Shift, StackKept, Set
<1>9. CASE LoadStack \/ LoadLocal
  BY <1>2, <1>3, <1>9 DEF LoadStack, LoadLocal, Moves, At, ins, Shift, StackKept, Set
<1>10. CASE StoreLocal
  BY <1>2, <1>3, <1>10 DEF StoreLocal, Moves, At, ins, Shift, StackKept
<1>11. CASE CallReturns
  BY <1>2, <1>3, <1>11 DEF CallReturns, At, ins, Shift, StackKept, Registers
<1>12. CASE Compare
  BY <1>2, <1>3, <1>12 DEF Compare, At, ins, Shift, StackKept
<1>13. ~Jump /\ ~Leave /\ ~Ret /\ ~CallAborts /\ ~CallCrashes
  BY <1>1 DEF Jump, Leave, Ret, CallAborts, CallCrashes, At, ins
<1> QED BY <1>4, <1>5, <1>6, <1>7, <1>8, <1>9, <1>10, <1>11, <1>12, <1>13 DEF Instruction

\* The words of the frame of func(): where it returns to and its caller's rbp.
FrameWords ==
  /\ EntryRsp \in DOMAIN stk /\ stk[EntryRsp] = ReturnAddress
  /\ EntryRsp - 8 \in DOMAIN stk /\ stk[EntryRsp - 8] = CallerWord("rbp")

\* n words on the value stack.
FrameBuilt(n) ==
  /\ reg["rsp"] = RawInt(EntryRsp - 8 - 8 * n)
  /\ reg["rbp"] = RawInt(EntryRsp - 8)

\* func() as it was called.
CallerFrame == reg["rsp"] = RawInt(EntryRsp) /\ reg["rbp"] = CallerWord("rbp")

Depth(i) == StackDepth[code][i]

\* Control is at the k-th instruction of a part.
InPart(i, at, k) == Whole(i, at) /\ k \in DOMAIN Part(i) /\ rip = at[k]

Untouched == seen.pc = 0 /\ seen.leaked = 0 /\ Len(seen.stack) = 0

\* Between the entry and the first op.
InPrologue(at, k) ==
  /\ InPart(0, at, k)
  /\ Untouched
  /\ EntryRsp \in DOMAIN stk /\ stk[EntryRsp] = ReturnAddress
  /\ k <= 2 => CallerFrame
  /\ k = 3 => reg["rsp"] = RawInt(EntryRsp - 8) /\ FrameWords

\* In front of the k-th instruction of op i: the value stack is as deep as CPython
\* says it is in front of the op, moved by what the op has done so far.
InOp(i, at, s, P, k) ==
  /\ i \in DOMAIN StackDepth[code]
  /\ InPart(i, at, k)
  /\ Shape(code[i].op, code[i].arg, Part(i), s)
  /\ Levels(P, s, PoppedBy(code[i].op, code[i].arg), Left(code[i].op, code[i].arg))
  /\ seen.pc = i - 1
  /\ Len(seen.stack) = Depth(i)
  /\ FrameWords
  /\ k <= Len(s) + 1 => FrameBuilt(Depth(i) + seen.leaked + P[k - 1])
  /\ k = Len(s) + 2 => CallerFrame

\* r12 and r13 as the caller left them, unless the code has an op that uses them.
CalleeSaved ==
  \A r \in {"r12", "r13"} :
    (\A i \in DOMAIN code : code[i].op \notin BuildsWith(r)) =>
      reg[r] \in {CallerWord(r), Clobbered(CallerWord(r))}

\* The inductive invariant of the frame.
FrameInv ==
  /\ ControlInv
  /\ LayoutInv
  /\ MachineTypes
  /\ CalleeSaved
  /\ run = "no" => /\ CallerFrame /\ Untouched
                   /\ EntryRsp \in DOMAIN stk /\ stk[EntryRsp] = ReturnAddress
  /\ run = "running" => \/ \E at, k : InPrologue(at, k)
                        \/ \E i, at, s, P, k : InOp(i, at, s, P, k)
  /\ run = "returned" => /\ reg["rsp"] = RawInt(EntryRsp + 8)
                         /\ reg["rbp"] = CallerWord("rbp")

\* What is fixed once the code is complete.
LEMMA ReadyFacts ==
  ASSUME FrameInv, phase = "ready"
  PROVE  /\ code \in Programs /\ Balanced(code, StackDepth[code])
         /\ n_op \in Nat \ {0} /\ DOMAIN code = 1 .. n_op
         /\ code_addr \in Seq(Nat) /\ Len(code_addr) = n_op /\ DOMAIN code_addr = 1 .. n_op
         /\ 1 \in DOMAIN StackDepth[code] /\ DOMAIN StackDepth[code] \subseteq 1 .. n_op
         /\ Depth(1) = 0
         /\ \A i \in DOMAIN StackDepth[code] :
              Depth(i) \in Nat /\ code[i].arg \in Nat /\ PoppedBy(code[i].op, code[i].arg) <= Depth(i)
         /\ Part(0) \in Code
         /\ \A i \in 1 .. n_op : Part(i) \in Code
<1>1. IInv /\ code \in Programs
  BY DEF FrameInv, ControlInv, IInv, CompileTypeOK
<1>2. Balanced(code, StackDepth[code])
  BY <1>1, DepthAssumption
<1>3. code_addr \in Seq(Nat) /\ Len(code_addr) = n_op
  BY <1>1, AreaAssumption DEF IInv, CompileTypeOK, CompileInv, PhaseInv
<1>4. n_op \in Nat /\ DOMAIN code = 1 .. n_op
  BY <1>1, ProgramsAssumption DEF n_op
<1>5. /\ 1 \in DOMAIN StackDepth[code] /\ DOMAIN StackDepth[code] \subseteq DOMAIN code
      /\ Depth(1) = 0
  BY <1>2 DEF Balanced, Depth
<1>6. ASSUME NEW i \in DOMAIN StackDepth[code]
      PROVE  /\ Depth(i) \in Nat /\ code[i].arg \in Nat
             /\ PoppedBy(code[i].op, code[i].arg) <= Depth(i)
  <2>1. i \in 1 .. n_op
    BY <1>4, <1>5
  <2>2. Arg(i - 1) \in 0 .. 255 /\ (i - 1) + 1 = i
    <3>1. i - 1 \in 0 .. n_op - 1 /\ (i - 1) + 1 = i
      BY <1>4, <2>1
    <3> QED BY <1>1, <3>1, OpTypes, Zenon
  <2>3. code[i].arg \in Nat
    <3>1. \A x \in 0 .. 255 : x \in Nat
      OBVIOUS
    <3> QED BY <2>2, <3>1, Zenon DEF Arg
  <2>4. Depth(i) \in Nat /\ PoppedBy(code[i].op, code[i].arg) <= Depth(i)
    BY <1>2 DEF Balanced, Depth
  <2> QED BY <2>3, <2>4
<1>7. \A i \in 0 .. n_op : Part(i) \in Code
  BY <1>1, <1>3, PartCode DEF FrameInv
<1> QED BY <1>1, <1>2, <1>3, <1>4, <1>5, <1>6, <1>7

\* Only the first instruction of its code is where an op starts.
LEMMA HeadsApart ==
  ASSUME FrameInv, phase = "ready", NEW i \in 0 .. n_op, NEW at, Whole(i, at),
         NEW k \in 2 .. Len(Part(i)), NEW j \in DOMAIN code_addr
  PROVE  code_addr[j] # at[k]
<1>1. /\ code_addr \in Seq(Nat) /\ Len(code_addr) = n_op /\ DOMAIN code_addr = 1 .. n_op
      /\ n_op \in Nat
  BY ReadyFacts
<1>2. /\ at[1] < at[k] /\ at[k] < at[Len(Part(i)) + 1] /\ at[1] = PartStart(i)
      /\ at[k] \in Nat /\ at[1] \in Nat
      /\ i < n_op => at[Len(Part(i)) + 1] = code_addr[i + 1]
  <2>1. Part(i) \in Code
    BY ReadyFacts, <1>1
  <2>2. /\ Len(Part(i)) \in Nat /\ 1 \in 1 .. Len(Part(i)) + 1 /\ k \in 1 .. Len(Part(i)) + 1
        /\ Len(Part(i)) + 1 \in 1 .. Len(Part(i)) + 1 /\ 1 < k /\ k < Len(Part(i)) + 1
    BY <2>1 DEF Code
  <2>3. \A l, m \in 1 .. Len(Part(i)) + 1 : l < m => at[l] < at[m]
    BY DEF Whole, Placed
  <2>4. at \in [1 .. Len(Part(i)) + 1 -> Nat]
    BY DEF Whole, Placed
  <2>5. i < n_op => at[Len(Part(i)) + 1] = code_addr[i + 1]
    BY <1>1 DEF Whole, PartStart
  <2> QED BY <2>2, <2>3, <2>4, <2>5 DEF Whole
<1>3. CASE j <= i
  <2>1. i # 0 /\ at[1] = code_addr[i] /\ i \in DOMAIN code_addr
    BY <1>1, <1>2, <1>3 DEF PartStart
  <2>2. code_addr[j] <= code_addr[i]
    BY <1>1, <1>3, <2>1 DEF FrameInv, ControlInv, CodeTiled
  <2> QED BY <1>1, <1>2, <2>1, <2>2
<1>4. CASE j > i
  <2>1. i < n_op /\ i + 1 \in DOMAIN code_addr
    BY <1>1, <1>4
  <2>2. code_addr[i + 1] <= code_addr[j]
    BY <1>1, <1>4, <2>1, SMTT(30) DEF FrameInv, ControlInv, CodeTiled
  <2> QED BY <1>1, <1>2, <2>1, <2>2
<1> QED BY <1>1, <1>3, <1>4

\* The op that starts where control is.
LEMMA OpAtHead ==
  ASSUME FrameInv, NEW j \in DOMAIN code_addr
  PROVE  OpAt(code_addr[j]) = j - 1
<1>1. code_addr \in Seq(Nat)
  BY AreaAssumption DEF FrameInv, ControlInv, IInv, CompileTypeOK
<1>2. ASSUME NEW i \in DOMAIN code_addr, code_addr[i] = code_addr[j]
      PROVE  i = j
  BY <1>1, <1>2 DEF FrameInv, ControlInv, CodeTiled
<1>3. (CHOOSE i \in DOMAIN code_addr : code_addr[i] = code_addr[j]) = j
  BY <1>2
<1> QED BY <1>3 DEF OpAt

\* Nothing the compiler has written changes any more.
LEMMA CodeStays ==
  ASSUME LayoutInv, UNCHANGED compileVars
  PROVE  /\ LayoutInv'
         /\ \A i, at : Whole(i, at)' <=> Whole(i, at)
         /\ \A i : Part(i)' = Part(i) /\ Depth(i)' = Depth(i)
         /\ code' = code /\ code_addr' = code_addr
<1>1. UNCHANGED <<code, globals, code_ptr, text, code_addr, todo>>
  BY DEF compileVars
<1>2. LayoutInv' /\ \A i, at : Whole(i, at)' <=> Whole(i, at)
  BY <1>1, LayoutStays
<1> QED BY <1>1, <1>2 DEF Part, Depth

\* The next instruction of the same op.
LEMMA Advance ==
  ASSUME FrameInv, phase = "ready", UNCHANGED compileVars, Observe,
         NEW i, NEW at, NEW s, NEW P, NEW k, InOp(i, at, s, P, k),
         k + 1 \in DOMAIN Part(i), rip' = at[k + 1], FrameWords',
         k + 1 <= Len(s) + 1 =>
           /\ reg'["rsp"] = RawInt(EntryRsp - 8 - 8 * (Depth(i) + seen.leaked + P[k]))
           /\ reg'["rbp"] = RawInt(EntryRsp - 8),
         k + 1 = Len(s) + 2 => CallerFrame'
  PROVE  InOp(i, at, s, P, k + 1)' /\ seen' = seen
<1>1. /\ i \in 1 .. n_op /\ n_op \in Nat /\ Part(i) \in Code
  BY ReadyFacts DEF InOp
<1>2. k \in 1 .. Len(Part(i)) /\ k + 1 \in 2 .. Len(Part(i)) /\ (k + 1) - 1 = k
  BY <1>1 DEF InOp, InPart, Code
<1>3. \A j \in DOMAIN code_addr : code_addr[j] # at[k + 1]
  <2>1. i \in 0 .. n_op
    BY <1>1
  <2> QED BY <1>2, <2>1, HeadsApart DEF InOp, InPart
<1>4. seen' = seen
  BY <1>3, CodeStays DEF Observe, FrameInv
<1>5. /\ Whole(i, at)' /\ Part(i)' = Part(i) /\ Depth(i)' = Depth(i) /\ code' = code
  BY CodeStays DEF FrameInv, InOp, InPart
<1>6. InPart(i, at, k + 1)'
  BY <1>5 DEF InPart
<1>7. k + 1 <= Len(s) + 1 => FrameBuilt(Depth(i) + seen.leaked + P[(k + 1) - 1])'
  BY <1>2, <1>4, <1>5 DEF FrameBuilt
<1>8. Shape(code[i].op, code[i].arg, Part(i), s)'
  BY <1>5 DEF InOp, Shape
<1>9. InOp(i, at, s, P, k + 1)'
  BY <1>4, <1>5, <1>6, <1>7, <1>8 DEF InOp
<1> QED BY <1>4, <1>9

\* The first instruction of an op, which control reaches with the value stack as
\* deep as CPython says.
LEMMA Arrive ==
  ASSUME FrameInv, phase = "ready", UNCHANGED compileVars, Observe, run' = "running",
         NEW j \in DOMAIN StackDepth[code], rip' = code_addr[j], FrameWords',
         NEW n \in Nat, n = seen.leaked + (IF Op(seen.pc) = "STORE_SUBSCR" THEN 1 ELSE 0),
         reg'["rsp"] = RawInt(EntryRsp - 8 - 8 * (Depth(j) + n)),
         reg'["rbp"] = RawInt(EntryRsp - 8)
  PROVE  /\ \E at, s, P : InOp(j, at, s, P, 1)'
         /\ seen'.pc = j - 1 /\ seen'.leaked = n /\ Len(seen'.stack) = Depth(j)
<1>1. /\ j \in 1 .. n_op /\ n_op \in Nat /\ Depth(j) \in Nat /\ Part(j) \in Code
      /\ DOMAIN code_addr = 1 .. n_op /\ Len(code_addr) = n_op
      /\ code[j].arg \in Nat /\ PoppedBy(code[j].op, code[j].arg) <= Depth(j)
  BY ReadyFacts
<1>2. code_addr' = code_addr /\ code' = code /\ Part(j)' = Part(j) /\ Depth(j)' = Depth(j)
  BY CodeStays DEF FrameInv
<1>3. OpAt(rip') = j - 1
  BY <1>1, OpAtHead
<1>4. \E i \in DOMAIN code_addr : code_addr[i] = rip'
  BY <1>1
<1>5. seen' = [pc |-> OpAt(rip'), stack |-> ValueStack(reg', stk', n),
               locals |-> localsplus', heap |-> [i \in DOMAIN heap' |-> Abstracted(heap'[i])],
               calls |-> calls', live |-> live', leaked |-> n]
  BY <1>2, <1>4 DEF Observe
<1>6. seen'.pc = j - 1 /\ seen'.leaked = n /\ seen'.stack = ValueStack(reg', stk', n)
  BY <1>3, <1>5
<1>7. Len(ValueStack(reg', stk', n)) = Depth(j)
  <2>1. reg'["rsp"][2] = EntryRsp - 8 - 8 * (Depth(j) + n)
    BY DEF RawInt
  <2>2. (EntryRsp - 8 - (EntryRsp - 8 - 8 * (Depth(j) + n))) \div 8 = Depth(j) + n
    <3>1. \A x, y \in Nat : (x - 8 - (x - 8 - 8 * y)) \div 8 = y
      OBVIOUS
    <3> QED BY <1>1, <3>1, EntryAssumption
  <2>3. (Depth(j) + n) - n = Depth(j)
    BY <1>1
  <2> QED BY <1>1, <2>1, <2>2, <2>3 DEF ValueStack
<1>8. PICK at : Whole(j, at)
  <2>1. j \in 0 .. n_op
    BY <1>1
  <2> QED BY <2>1, ReadyWhole DEF FrameInv, ControlInv
<1>9. PICK s : Shape(code[j].op, code[j].arg, Part(j), s)
  <2>1. j \in 0 .. Len(code_addr) /\ j # 0
    BY <1>1
  <2> QED BY <2>1, PartCode DEF FrameInv, ControlInv
<1>10. PICK P : Levels(P, s, PoppedBy(code[j].op, code[j].arg), Left(code[j].op, code[j].arg))
  BY <1>9 DEF Shape, Works
<1>11. InPart(j, at, 1)'
  <2>1. Whole(j, at)'
    BY <1>8, CodeStays DEF FrameInv
  <2>2. at[1] = code_addr[j]
    BY <1>1, <1>8 DEF Whole, PartStart
  <2>3. 1 \in DOMAIN Part(j)
    BY <1>1 DEF Code
  <2> QED BY <1>2, <2>1, <2>2, <2>3 DEF InPart
<1>12. 1 # Len(s) + 2
  BY <1>9 DEF Shape, Works
<1>13. FrameBuilt(Depth(j) + seen.leaked + P[1 - 1])'
  <2>1. P[1 - 1] = 0
    BY <1>10 DEF Levels
  <2>2. Depth(j) + n + 0 = Depth(j) + n
    BY <1>1
  <2> QED BY <1>2, <1>6, <2>1, <2>2 DEF FrameBuilt
<1>14. Shape(code[j].op, code[j].arg, Part(j), s)'
  BY <1>2, <1>9 DEF Shape
<1>15. InOp(j, at, s, P, 1)'
  BY <1>2, <1>6, <1>7, <1>10, <1>11, <1>12, <1>13, <1>14 DEF InOp
<1> QED BY <1>6, <1>7, <1>15

LEMMA StackEffectType ==
  ASSUME NEW op, NEW arg \in Nat
  PROVE  StackEffect(op, arg) \in Int /\ Left(op, arg) \in Int /\ PoppedBy(op, arg) \in Nat
<1>1. StackEffect(op, arg) \in Int
  BY DEF StackEffect
<1>2. PoppedBy(op, arg) \in Nat
  BY DEF PoppedBy
<1> QED BY <1>1, <1>2 DEF Left

\* Where control goes from op i, to an op that may follow it.
LEMMA ArriveNext ==
  ASSUME FrameInv, phase = "ready", UNCHANGED compileVars, Observe, run' = "running",
         NEW i, NEW at, NEW s, NEW P, NEW k, InOp(i, at, s, P, k),
         NEW j \in NextOps(code, i), rip' = code_addr[j], FrameWords',
         reg'["rsp"] = RawInt(EntryRsp - 8 - 8 * (Depth(i) + seen.leaked
                                                    + Left(code[i].op, code[i].arg))),
         reg'["rbp"] = RawInt(EntryRsp - 8)
  PROVE  /\ \E b, r, Q : InOp(j, b, r, Q, 1)'
         /\ seen'.pc \in 0 .. n_op - 1 /\ seen'.leaked \in Nat
         /\ Len(seen'.stack) = Len(seen.stack) + StackEffect(Op(seen.pc), Arg(seen.pc))
<1> DEFINE leak == IF Op(seen.pc) = "STORE_SUBSCR" THEN 1 ELSE 0
           effect == StackEffect(code[i].op, code[i].arg)
<1>1. /\ i \in DOMAIN StackDepth[code] /\ i \in 1 .. n_op /\ n_op \in Nat
      /\ Depth(i) \in Nat /\ code[i].arg \in Nat
      /\ seen.pc = i - 1 /\ Len(seen.stack) = Depth(i) /\ seen.leaked \in Nat
  BY ReadyFacts DEF InOp, FrameInv, MachineTypes
<1>2. j \in DOMAIN StackDepth[code] /\ Depth(j) = Depth(i) + effect
  BY <1>1, ReadyFacts DEF Balanced, Depth
<1>3. Op(seen.pc) = code[i].op /\ Arg(seen.pc) = code[i].arg
  <2>1. (i - 1) + 1 = i
    BY <1>1
  <2> QED BY <1>1, <2>1 DEF Op, Arg
<1>4. effect \in Int /\ Depth(j) \in Nat /\ j \in 1 .. n_op
  BY <1>1, <1>2, ReadyFacts, StackEffectType
<1>5. Left(code[i].op, code[i].arg) = effect + leak
  BY <1>3 DEF Left
<1>6. leak \in Nat
  OBVIOUS
<1> HIDE DEF effect, leak
<1>7. PICK n \in Nat : n = seen.leaked + leak
  BY <1>1, <1>6
<1>8. Depth(i) + seen.leaked + Left(code[i].op, code[i].arg) = Depth(j) + n
  BY <1>1, <1>2, <1>4, <1>5, <1>6, <1>7
<1>9. /\ \E b, r, Q : InOp(j, b, r, Q, 1)'
      /\ seen'.pc = j - 1 /\ seen'.leaked = n /\ Len(seen'.stack) = Depth(j)
  BY <1>2, <1>7, <1>8, Arrive DEF leak
<1>10. j - 1 \in 0 .. n_op - 1
  BY <1>1, <1>4
<1> QED BY <1>1, <1>2, <1>3, <1>7, <1>9, <1>10 DEF effect

\* In op i, the value stack is never below its bottom.
AboveBottom(i, s, P, k) ==
  /\ Len(s) \in Nat /\ k \in 1 .. Len(Part(i)) /\ Len(Part(i)) \in Nat
  /\ s \in Seq(Body(Written(code[i].op)))
  /\ Written(code[i].op) \in SUBSET {"r12", "r13"}
  /\ \A l \in 0 .. Len(s) : P[l] \in Int /\ Depth(i) + seen.leaked + P[l] \in Nat
  /\ \A l \in 1 .. Len(s) : P[l] = P[l - 1] + Shift(s[l])
  /\ P[Len(s)] = Left(code[i].op, code[i].arg)

LEMMA LevelFacts ==
  ASSUME FrameInv, phase = "ready",
         NEW i, NEW at, NEW s, NEW P, NEW k, InOp(i, at, s, P, k)
  PROVE  AboveBottom(i, s, P, k)
<1>1. s \in Seq(Body(Written(code[i].op))) /\ Len(s) \in Nat
  BY DEF InOp, Shape, Works
<1>2. /\ P \in [0 .. Len(s) -> Int] /\ P[Len(s)] = Left(code[i].op, code[i].arg)
      /\ \A l \in 1 .. Len(s) : P[l] = P[l - 1] + Shift(s[l])
      /\ \A l \in 0 .. Len(s) : P[l] >= -PoppedBy(code[i].op, code[i].arg)
  BY DEF InOp, Levels
<1>3. /\ Depth(i) \in Nat /\ PoppedBy(code[i].op, code[i].arg) <= Depth(i)
      /\ PoppedBy(code[i].op, code[i].arg) \in Nat /\ seen.leaked \in Nat
      /\ Part(i) \in Code
  BY ReadyFacts, StackEffectType DEF InOp, FrameInv, MachineTypes
<1>4. \A l \in 0 .. Len(s) : P[l] \in Int /\ Depth(i) + seen.leaked + P[l] \in Nat
  <2> SUFFICES ASSUME NEW l \in 0 .. Len(s)
               PROVE  P[l] \in Int /\ Depth(i) + seen.leaked + P[l] \in Nat
    OBVIOUS
  <2>1. P[l] \in Int /\ P[l] >= -PoppedBy(code[i].op, code[i].arg)
    BY <1>2
  <2> QED BY <1>3, <2>1
<1>5. k \in 1 .. Len(Part(i)) /\ Len(Part(i)) \in Nat
  BY <1>3 DEF InOp, InPart, Code
<1>6. Written(code[i].op) \in SUBSET {"r12", "r13"}
  BY DEF Written
<1> QED BY <1>1, <1>2, <1>4, <1>5, <1>6 DEF AboveBottom

LEMMA TypesKept ==
  ASSUME MachineTypes, phase = "ready", UNCHANGED compileVars, run' = "running",
         DOMAIN reg' = Registers,
         NEW z \in Int, reg'["rsp"] = RawInt(z), z % 8 = 0, z <= EntryRsp + 8,
         \A a \in DOMAIN stk' : a \in DOMAIN stk \/ a = Sp - 8,
         DOMAIN localsplus' = DOMAIN localsplus,
         seen'.pc \in 0 .. n_op - 1, seen'.leaked \in Nat
  PROVE  MachineTypes'
<1>1. phase' = phase /\ n_op' = n_op
  BY DEF compileVars, n_op
<1>2. Sp' = z
  BY DEF Sp, RawInt
<1>3. Sp - 8 \in Int /\ (Sp - 8) % 8 = 0 /\ Sp - 8 <= EntryRsp
  BY EntryAssumption DEF MachineTypes
<1>4. \A a \in DOMAIN stk' : a \in Int /\ a % 8 = 0 /\ a <= EntryRsp
  BY <1>3 DEF MachineTypes
<1> QED BY <1>1, <1>2, <1>4 DEF MachineTypes

InSomeOp   == \E i, at, s, P, k : InOp(i, at, s, P, k)
EffectSeen ==
  seen' # seen => Len(seen'.stack) = Len(seen.stack) + StackEffect(Op(seen.pc), Arg(seen.pc))

\* Control at an instruction, in the text.
LEMMA InsAt ==
  ASSUME FrameInv, phase = "ready", NEW i \in 0 .. n_op, NEW at, NEW k, InPart(i, at, k)
  PROVE  /\ k \in 1 .. Len(Part(i)) /\ rip \in DOMAIN text /\ ins = Part(i)[k]
         /\ NextRip = at[k + 1]
<1>1. Part(i) \in Code
  BY ReadyFacts
<1>2. k \in 1 .. Len(Part(i)) /\ rip = at[k] /\ Placed(at, Part(i), Len(Part(i)))
  BY <1>1 DEF InPart, Whole, Code
<1> QED BY <1>2 DEF Placed, ins, NextRip

\* A step in the body of an op.
LEMMA BodyStep ==
  ASSUME FrameInv, run = "running", Instruction, run' = "running",
         NEW i, NEW at, NEW s, NEW P, NEW k, InOp(i, at, s, P, k), k <= Len(s)
  PROVE  InSomeOp' /\ MachineTypes' /\ CalleeSaved' /\ EffectSeen
<1> DEFINE op == code[i].op
           arg == code[i].arg
           W == Written(op)
           level(l) == Depth(i) + seen.leaked + P[l]
<1>1. phase = "ready" /\ MachineTypes
  BY DEF FrameInv, MachineTypes
<1>2. /\ Len(s) \in Nat /\ k \in 1 .. Len(Part(i)) /\ Len(Part(i)) \in Nat
      /\ s \in Seq(Body(W)) /\ W \in SUBSET {"r12", "r13"}
      /\ \A l \in 0 .. Len(s) : P[l] \in Int /\ level(l) \in Nat
      /\ \A l \in 1 .. Len(s) : P[l] = P[l - 1] + Shift(s[l])
      /\ P[Len(s)] = Left(op, arg)
  <2>1. AboveBottom(i, s, P, k)
    BY <1>1, LevelFacts
  <2> QED BY <2>1 DEF AboveBottom
<1>3. /\ i \in DOMAIN StackDepth[code] /\ i \in 1 .. n_op /\ n_op \in Nat /\ Depth(i) \in Nat
      /\ seen.leaked \in Nat /\ i \in 0 .. n_op /\ DOMAIN code = 1 .. n_op
      /\ Len(code_addr) = n_op
  BY <1>1, ReadyFacts DEF InOp, MachineTypes
<1>4. rip \in DOMAIN text /\ ins = Part(i)[k] /\ NextRip = at[k + 1]
  BY <1>1, <1>3, InsAt DEF InOp
<1>5. k \in 1 .. Len(s) /\ ins = s[k] /\ s[k] \in Body(W)
  <2>1. k \in 1 .. Len(s)
    BY <1>2
  <2>2. Part(i)[k] = s[k]
    BY <2>1 DEF InOp, Shape
  <2> QED BY <1>2, <1>4, <2>1, <2>2
<1> HIDE DEF op, arg, W, level
<1>6. /\ rip' = NextRip /\ Observe /\ UNCHANGED compileVars
      /\ DOMAIN reg' = Registers
      /\ reg'["rsp"] = RawInt(Sp - 8 * Shift(ins))
      /\ reg'["rbp"] = reg["rbp"]
      /\ \A r \in {"r12", "r13"} \ W : reg'[r] \in {reg[r], Clobbered(reg[r])}
      /\ StackKept
      /\ \A a \in DOMAIN stk' : a \in DOMAIN stk \/ a = Sp - 8
      /\ DOMAIN localsplus' = DOMAIN localsplus
  BY <1>1, <1>2, <1>5, WorkStep DEF ins
<1>7. k - 1 \in 0 .. Len(s) /\ k \in 0 .. Len(s) /\ k <= Len(s) + 1
  BY <1>2, <1>5
<1>8. FrameWords /\ reg["rbp"] = RawInt(EntryRsp - 8) /\ Sp = EntryRsp - 8 - 8 * level(k - 1)
  BY <1>7 DEF InOp, FrameBuilt, Sp, RawInt, level
<1>9. /\ level(k - 1) \in Nat /\ level(k) \in Nat /\ Shift(ins) \in Int
      /\ level(k) = level(k - 1) + Shift(ins)
  <2>1. level(k - 1) \in Nat /\ level(k) \in Nat /\ P[k - 1] \in Int /\ P[k] = P[k - 1] + Shift(s[k])
    BY <1>2, <1>5, <1>7
  <2>2. Shift(ins) \in Int
    BY ShiftType
  <2> QED BY <1>3, <1>5, <2>1, <2>2, SMTT(30) DEF level
<1>10. reg'["rsp"] = RawInt(EntryRsp - 8 - 8 * level(k)) /\ reg'["rbp"] = RawInt(EntryRsp - 8)
  <2>1. Sp - 8 * Shift(ins) = EntryRsp - 8 - 8 * level(k)
    BY <1>8, <1>9, EntryAssumption
  <2> QED BY <1>6, <1>8, <2>1
<1>11. FrameWords'
  <2>1. EntryRsp >= Sp /\ EntryRsp - 8 >= Sp
    BY <1>8, <1>9, EntryAssumption
  <2> QED BY <1>6, <1>8, <2>1 DEF FrameWords, StackKept
<1>12. CalleeSaved'
  <2> SUFFICES ASSUME NEW r \in {"r12", "r13"},
                      \A j \in DOMAIN code : code[j].op \notin BuildsWith(r)
               PROVE  reg'[r] \in {CallerWord(r), Clobbered(CallerWord(r))}
    BY <1>6, CodeStays DEF CalleeSaved, FrameInv
  <2>1. r \notin W
    BY <1>3 DEF W, Written, op
  <2>2. reg'[r] \in {reg[r], Clobbered(reg[r])}
    BY <1>6, <2>1
  <2>3. reg[r] \in {CallerWord(r), Clobbered(CallerWord(r))}
    BY DEF FrameInv, CalleeSaved
  <2>4. Clobbered(Clobbered(CallerWord(r))) = Clobbered(CallerWord(r))
    BY DEF Clobbered, CallerWord
  <2> QED BY <2>2, <2>3, <2>4
<1>13. ASSUME seen'.pc \in 0 .. n_op - 1, seen'.leaked \in Nat
       PROVE  MachineTypes'
  <2> DEFINE z == EntryRsp - 8 - 8 * level(k)
  <2>1. z \in Int /\ z % 8 = 0 /\ z <= EntryRsp + 8
    BY <1>9, EntryAssumption, SMTT(30)
  <2>2. reg'["rsp"] = RawInt(z)
    BY <1>10
  <2> HIDE DEF z
  <2> QED BY <1>1, <1>6, <1>13, <2>1, <2>2, TypesKept
<1>14. CASE k + 1 \in DOMAIN Part(i)
  <2>1. k + 1 # Len(s) + 2 /\ k + 1 <= Len(s) + 1
    BY <1>2, <1>5
  <2>2. rip' = at[k + 1]
    BY <1>4, <1>6
  <2>3. InOp(i, at, s, P, k + 1)' /\ seen' = seen
    BY <1>1, <1>6, <1>10, <1>11, <1>14, <2>1, <2>2, Advance DEF level
  <2>4. MachineTypes'
    BY <1>1, <1>13, <2>3 DEF MachineTypes
  <2> QED BY <1>12, <2>3, <2>4 DEF InSomeOp, EffectSeen
<1>15. CASE k + 1 \notin DOMAIN Part(i)
  <2>1. k = Len(Part(i)) /\ Len(Part(i)) = Len(s) /\ op \notin JumpOpcodes /\ op \notin ReturnOpcodes
    <3>1. DOMAIN Part(i) = 1 .. Len(Part(i))
      BY <1>1, <1>3, ReadyFacts DEF Code
    <3>2. k = Len(Part(i))
      <4>1. k + 1 \notin 1 .. Len(Part(i))
        BY <1>15, <3>1
      <4> QED BY <1>2, <4>1
    <3> QED BY <1>2, <1>5, <3>2 DEF InOp, Shape, op
  <2>2. i + 1 \in NextOps(code, i)
    <3>1. op # "JUMP_BACKWARD"
      BY <2>1 DEF JumpOpcodes
    <3> QED BY <2>1, <3>1 DEF NextOps, op
  <2>3. i + 1 \in 1 .. n_op
    BY <1>1, <1>3, <2>2, ReadyFacts DEF Balanced
  <2>4. rip' = code_addr[i + 1]
    <3>1. i < Len(code_addr) /\ i + 1 # 0
      BY <1>3, <2>3
    <3>2. at[Len(Part(i)) + 1] = code_addr[i + 1]
      BY <3>1 DEF InOp, InPart, Whole, PartStart
    <3> QED BY <1>4, <1>6, <2>1, <3>2
  <2>5. level(k) = Depth(i) + seen.leaked + Left(code[i].op, code[i].arg)
    BY <1>2, <2>1 DEF level, op, arg
  <2>6. /\ \E b, r, Q : InOp(i + 1, b, r, Q, 1)'
        /\ seen'.pc \in 0 .. n_op - 1 /\ seen'.leaked \in Nat
        /\ Len(seen'.stack) = Len(seen.stack) + StackEffect(Op(seen.pc), Arg(seen.pc))
    BY <1>1, <1>6, <1>10, <1>11, <2>2, <2>4, <2>5, ArriveNext
  <2> QED BY <1>12, <1>13, <2>6 DEF InSomeOp, EffectSeen
<1> QED BY <1>14, <1>15

\* A byte of the code of op i belongs to no other op.
LEMMA OwnerUnique ==
  ASSUME FrameInv, phase = "ready", NEW i \in 1 .. n_op, NEW at, NEW k, InPart(i, at, k),
         NEW j \in DOMAIN code_addr, OwnedBy(rip, j)
  PROVE  j = i
<1>1. /\ code_addr \in Seq(Nat) /\ Len(code_addr) = n_op /\ DOMAIN code_addr = 1 .. n_op
      /\ n_op \in Nat /\ Part(i) \in Code
  BY ReadyFacts
<1>2. k \in 1 .. Len(Part(i)) /\ rip = at[k] /\ Len(Part(i)) \in Nat
  BY <1>1 DEF InPart, Code
<1>3. /\ \A l, m \in 1 .. Len(Part(i)) + 1 : l < m => at[l] < at[m]
      /\ at \in [1 .. Len(Part(i)) + 1 -> Nat]
      /\ at[1] = code_addr[i]
      /\ i < n_op => at[Len(Part(i)) + 1] = code_addr[i + 1]
  BY <1>1 DEF InPart, Whole, Placed, PartStart
<1>4. rip \in Nat /\ code_addr[i] <= rip /\ (i < n_op => rip < code_addr[i + 1])
  <2>1. at[k] \in Nat /\ at[1] \in Nat /\ (k = 1 \/ at[1] < at[k]) /\ at[k] < at[Len(Part(i)) + 1]
    <3>1. /\ 1 \in 1 .. Len(Part(i)) + 1 /\ k \in 1 .. Len(Part(i)) + 1
          /\ Len(Part(i)) + 1 \in 1 .. Len(Part(i)) + 1 /\ k < Len(Part(i)) + 1
          /\ k = 1 \/ 1 < k
      BY <1>2
    <3> QED BY <1>3, <3>1
  <2> QED BY <1>2, <1>3, <2>1
<1>5. ~(j < i)
  <2> SUFFICES ASSUME j < i PROVE FALSE
    OBVIOUS
  <2>1. j + 1 \in DOMAIN code_addr /\ j < Len(code_addr) /\ j + 1 <= i
    BY <1>1
  <2>2. code_addr[j + 1] <= code_addr[i]
    BY <1>1, <2>1 DEF FrameInv, ControlInv, CodeTiled
  <2> QED BY <1>1, <1>4, <2>1, <2>2 DEF OwnedBy
<1>6. ~(i < j)
  <2> SUFFICES ASSUME i < j PROVE FALSE
    OBVIOUS
  <2>1. i + 1 \in DOMAIN code_addr /\ i < n_op /\ i + 1 <= j
    BY <1>1
  <2>2. code_addr[i + 1] <= code_addr[j]
    BY <1>1, <2>1 DEF FrameInv, ControlInv, CodeTiled
  <2> QED BY <1>1, <1>4, <2>1, <2>2 DEF OwnedBy
<1> QED BY <1>1, <1>5, <1>6

\* The jump at the end of the code of a jump op.
LEMMA JumpStep ==
  ASSUME FrameInv, run = "running", Instruction, run' = "running",
         NEW i, NEW at, NEW s, NEW P, NEW k, InOp(i, at, s, P, k), k > Len(s),
         code[i].op \in JumpOpcodes
  PROVE  InSomeOp' /\ MachineTypes' /\ CalleeSaved' /\ EffectSeen
<1> DEFINE op == code[i].op
           arg == code[i].arg
<1>1. phase = "ready" /\ MachineTypes /\ IInv
  BY DEF FrameInv, MachineTypes, ControlInv
<1>2. /\ Len(s) \in Nat /\ k \in 1 .. Len(Part(i)) /\ Len(Part(i)) \in Nat
      /\ P[Len(s)] = Left(op, arg) /\ Depth(i) + seen.leaked + P[Len(s)] \in Nat
  <2>1. AboveBottom(i, s, P, k)
    BY <1>1, LevelFacts
  <2> QED BY <2>1 DEF AboveBottom
<1>3. /\ i \in DOMAIN StackDepth[code] /\ i \in 1 .. n_op /\ n_op \in Nat /\ i \in 0 .. n_op
      /\ DOMAIN code_addr = 1 .. n_op /\ Len(code_addr) = n_op /\ InPart(i, at, k)
  BY <1>1, ReadyFacts DEF InOp
<1>4. rip \in DOMAIN text /\ ins = Part(i)[k] /\ NextRip = at[k + 1]
  BY <1>1, <1>3, InsAt
<1>5. k = Len(s) + 1 /\ Len(Part(i)) = k /\ ins \in Jumps /\ (op = "JUMP_BACKWARD" => ins.ins = "jmp")
  <2>1. Len(Part(i)) = Len(s) + 1
    <3>1. Shape(code[i].op, code[i].arg, Part(i), s)
      BY DEF InOp
    <3>2. code[i].op \notin ReturnOpcodes
      BY DEF JumpOpcodes, ReturnOpcodes
    <3> HIDE DEF op
    <3> QED BY <3>1, <3>2 DEF Shape
  <2>2. k = Len(s) + 1
    BY <1>2, <2>1
  <2> QED BY <1>4, <2>1, <2>2 DEF InOp, Shape
<1>6. Jump
  <2>1. ins.ins \in {"jz", "jnz", "jmp"}
    BY <1>5 DEF Jumps
  <2> QED BY <2>1 DEF Instruction, NoOp, PushReg, PopReg, MovImmediate, MovRegister, LoadStack,
        LoadLocal, StoreLocal, CallReturns, CallAborts, CallCrashes, Compare, Leave, Ret, At, ins
<1>7. /\ UNCHANGED compileVars /\ reg' = reg /\ stk' = stk /\ localsplus' = localsplus /\ Observe
      /\ rip' = NextRip + (IF Taken THEN rel32[NextRip - 4] ELSE 0)
  BY <1>6 DEF Jump
<1>8. IsJump(text[rip]) /\ (op = "JUMP_BACKWARD" => Taken)
  BY <1>5 DEF Jumps, IsJump, ins, Taken
<1>9. \E j \in NextOps(code, i) : rip' = code_addr[j]
  <2>1. CASE Taken
    <3>1. PICK j \in DOMAIN code_addr :
            /\ OwnedBy(rip, j)
            /\ rip + InsLen(text[rip]) + rel32[rip + InsLen(text[rip]) - 4]
                 = code_addr[JumpTarget(code[j].op, code[j].arg, j - 1) + 1]
      BY <1>1, <1>4, <1>8, IInv_JumpsLand, Zenon DEF JumpsLand
    <3>2. j = i
      BY <1>1, <1>3, <3>1, OwnerUnique
    <3>3. JumpTarget(op, arg, i - 1) + 1 \in NextOps(code, i)
      BY DEF NextOps
    <3>4. rip' = code_addr[JumpTarget(op, arg, i - 1) + 1]
      <4>1. rip' = NextRip + rel32[NextRip - 4]
        BY <1>7, <2>1
      <4>2. rip' = rip + InsLen(text[rip]) + rel32[rip + InsLen(text[rip]) - 4]
        <5>1. rip \in Nat /\ InsLen(text[rip]) \in 1 .. 15 /\ NextRip = rip + InsLen(text[rip])
          BY <1>1, <1>4, InsLenType DEF IInv, CompileTypeOK, NextRip, ins
        <5>2. NextRip - 4 = rip + InsLen(text[rip]) - 4
          BY <5>1, SMTT(30)
        <5> QED BY <4>1, <5>1, <5>2, Zenon
      <4>3. rip' = code_addr[JumpTarget(code[j].op, code[j].arg, j - 1) + 1]
        BY <3>1, <4>2, Zenon
      <4> QED BY <3>2, <4>3, Zenon
    <3> QED BY <3>3, <3>4
  <2>2. CASE ~Taken
    <3>1. op # "JUMP_BACKWARD" /\ op \notin ReturnOpcodes
      BY <1>8, <2>2 DEF JumpOpcodes, ReturnOpcodes
    <3>2. i + 1 \in NextOps(code, i)
      BY <3>1 DEF NextOps
    <3>3. i + 1 \in 1 .. n_op
      BY <1>1, <1>3, <3>2, ReadyFacts DEF Balanced
    <3>4. at[Len(Part(i)) + 1] = code_addr[i + 1]
      <4>1. i < Len(code_addr) /\ i + 1 # 0
        BY <1>3, <3>3
      <4> QED BY <1>3, <4>1 DEF InPart, Whole, PartStart
    <3>5. NextRip \in Nat
      <4>1. rip \in Nat /\ InsLen(text[rip]) \in 1 .. 15
        BY <1>1, <1>4, InsLenType DEF IInv, CompileTypeOK
      <4> QED BY <4>1 DEF NextRip, ins
    <3>6. rip' = NextRip
      BY <1>7, <2>2, <3>5
    <3> QED BY <1>4, <1>5, <3>2, <3>4, <3>6
  <2> QED BY <2>1, <2>2
<1>10. PICK j \in NextOps(code, i) : rip' = code_addr[j]
  BY <1>9
<1>11. /\ FrameWords /\ reg["rbp"] = RawInt(EntryRsp - 8)
       /\ reg["rsp"] = RawInt(EntryRsp - 8 - 8 * (Depth(i) + seen.leaked + Left(op, arg)))
  <2>1. k <= Len(s) + 1 /\ k - 1 = Len(s)
    BY <1>2, <1>5
  <2> QED BY <1>2, <2>1 DEF InOp, FrameBuilt
<1>12. FrameWords'
  BY <1>7, <1>11 DEF FrameWords
<1>13. /\ \E b, r, Q : InOp(j, b, r, Q, 1)'
       /\ seen'.pc \in 0 .. n_op - 1 /\ seen'.leaked \in Nat
       /\ Len(seen'.stack) = Len(seen.stack) + StackEffect(Op(seen.pc), Arg(seen.pc))
  BY <1>1, <1>7, <1>10, <1>11, <1>12, ArriveNext
<1>14. MachineTypes'
  <2>1. Sp \in Int /\ reg["rsp"] = RawInt(Sp) /\ Sp % 8 = 0 /\ Sp <= EntryRsp + 8
        /\ DOMAIN reg = Registers
    BY <1>1 DEF MachineTypes
  <2> QED BY <1>1, <1>7, <1>13, <2>1, TypesKept
<1>15. CalleeSaved'
  BY <1>7, CodeStays DEF CalleeSaved, FrameInv
<1> QED BY <1>13, <1>14, <1>15 DEF InSomeOp, EffectSeen

\* The end of a return op: leave takes the frame down, ret is the end of the run.
LEMMA ReturnStep ==
  ASSUME FrameInv, run = "running", Instruction, run' = "running",
         NEW i, NEW at, NEW s, NEW P, NEW k, InOp(i, at, s, P, k), k > Len(s),
         code[i].op \in ReturnOpcodes
  PROVE  InSomeOp' /\ MachineTypes' /\ CalleeSaved' /\ EffectSeen
<1>1. phase = "ready" /\ MachineTypes
  BY DEF FrameInv, MachineTypes
<1>2. Len(s) \in Nat /\ k \in 1 .. Len(Part(i)) /\ Len(Part(i)) \in Nat
  <2>1. AboveBottom(i, s, P, k)
    BY <1>1, LevelFacts
  <2> QED BY <2>1 DEF AboveBottom
<1>3. i \in 0 .. n_op /\ InPart(i, at, k)
  <2>1. i \in 1 .. n_op /\ n_op \in Nat
    BY <1>1, ReadyFacts DEF InOp
  <2> QED BY <2>1 DEF InOp
<1>4. rip \in DOMAIN text /\ ins = Part(i)[k] /\ NextRip = at[k + 1]
  BY <1>1, <1>3, InsAt
<1>5. Len(Part(i)) = Len(s) + 2 /\ k \in {Len(s) + 1, Len(s) + 2}
  <2>1. code[i].op \notin JumpOpcodes
    BY DEF JumpOpcodes, ReturnOpcodes
  <2>2. Len(Part(i)) = Len(s) + 2
    BY <2>1 DEF InOp, Shape
  <2> QED BY <1>2, <2>2
<1>6. CASE k = Len(s) + 1
  <2>1. ins = WriteLeave
    BY <1>4, <1>6 DEF InOp, Shape
  <2>2. Leave
    BY <2>1 DEF WriteLeave, Instruction, NoOp, PushReg, PopReg, MovImmediate, MovRegister,
          LoadStack, LoadLocal, StoreLocal, CallReturns, CallAborts, CallCrashes, Compare, Jump,
          Ret, At, ins
  <2>3. FrameWords /\ reg["rbp"] = RawInt(EntryRsp - 8)
    <3>1. k <= Len(s) + 1
      BY <1>2, <1>6
    <3> QED BY <3>1 DEF InOp, FrameBuilt
  <2>4. reg["rbp"][2] = EntryRsp - 8 /\ Word(EntryRsp - 8) = CallerWord("rbp")
        /\ (EntryRsp - 8) + 8 = EntryRsp
    BY <2>3, EntryAssumption DEF RawInt, FrameWords, Word
  <2>5. /\ rip' = NextRip /\ UNCHANGED compileVars /\ stk' = stk /\ localsplus' = localsplus
        /\ Observe
        /\ reg' = [reg EXCEPT !["rsp"] = RawInt(EntryRsp), !["rbp"] = CallerWord("rbp")]
    BY <2>2, <2>4 DEF Leave, Moves
  <2>6. DOMAIN reg = Registers /\ {"rsp", "rbp", "r12", "r13"} \subseteq Registers
    BY <1>1 DEF MachineTypes, Registers
  <2>7. /\ DOMAIN reg' = Registers /\ reg'["rsp"] = RawInt(EntryRsp)
        /\ reg'["rbp"] = CallerWord("rbp") /\ reg'["r12"] = reg["r12"] /\ reg'["r13"] = reg["r13"]
    BY <2>5, <2>6
  <2>8. CallerFrame' /\ FrameWords'
    BY <2>3, <2>5, <2>7 DEF CallerFrame, FrameWords
  <2>9. InOp(i, at, s, P, k + 1)' /\ seen' = seen
    <3>1. /\ k + 1 \in DOMAIN Part(i) /\ ~(k + 1 <= Len(s) + 1)
      <4>1. DOMAIN Part(i) = 1 .. Len(Part(i))
        <5>1. Part(i) \in Code
          BY DEF InOp, Shape
        <5> QED BY <5>1 DEF Code
      <4> QED BY <1>2, <1>5, <1>6, <4>1
    <3>2. rip' = at[k + 1]
      BY <1>4, <2>5
    <3> QED BY <1>1, <2>5, <2>8, <3>1, <3>2, Advance
  <2>10. MachineTypes'
    <3>1. EntryRsp \in Int /\ EntryRsp % 8 = 0 /\ EntryRsp <= EntryRsp + 8
      BY EntryAssumption
    <3>2. seen'.pc \in 0 .. n_op - 1 /\ seen'.leaked \in Nat
      BY <1>1, <2>9 DEF MachineTypes
    <3> QED BY <1>1, <2>5, <2>7, <3>1, <3>2, TypesKept
  <2>11. CalleeSaved'
    BY <2>5, <2>7, CodeStays DEF CalleeSaved, FrameInv
  <2> QED BY <2>9, <2>10, <2>11 DEF InSomeOp, EffectSeen
<1>7. CASE k = Len(s) + 2
  <2>1. ins = WriteRet
    BY <1>4, <1>7 DEF InOp, Shape
  <2>2. Ret
    BY <2>1 DEF WriteRet, Instruction, NoOp, PushReg, PopReg, MovImmediate, MovRegister,
          LoadStack, LoadLocal, StoreLocal, CallReturns, CallAborts, CallCrashes, Compare, Jump,
          Leave, At, ins
  <2> QED BY <2>2 DEF Ret
<1> QED BY <1>5, <1>6, <1>7

\* The prologue ends where the first op starts.
LEMMA PrologueFirst ==
  ASSUME FrameInv, phase = "ready", NEW at, NEW k, InPart(0, at, k)
  PROVE  /\ k \in 1 .. 3 /\ ins = Prologue[k] /\ NextRip = at[k + 1]
         /\ at[4] = code_addr[1] /\ rip < code_addr[1] /\ rip \in Nat
<1>1. n_op \in Nat \ {0} /\ Len(code_addr) = n_op /\ code_addr \in Seq(Nat)
  BY ReadyFacts
<1>2. Part(0) = Prologue /\ Len(Prologue) = 3
  BY PrologueCode DEF Part
<1>3. k \in 1 .. 3 /\ ins = Prologue[k] /\ NextRip = at[k + 1]
  <2>1. 0 \in 0 .. n_op
    BY <1>1
  <2> QED BY <1>2, <2>1, InsAt
<1>4. /\ at \in [1 .. 4 -> Nat] /\ at[4] = code_addr[1] /\ rip = at[k]
      /\ \A l, m \in 1 .. 4 : l < m => at[l] < at[m]
  <2>1. 3 + 1 = 4 /\ 0 + 1 = 1 /\ 0 < Len(code_addr) /\ PartStart(1) = code_addr[1]
    BY <1>1 DEF PartStart
  <2> QED BY <1>2, <2>1 DEF InPart, Whole, Placed
<1> QED BY <1>3, <1>4

\* A step of the prologue.
LEMMA PrologueStep ==
  ASSUME FrameInv, run = "running", Instruction, run' = "running",
         NEW at, NEW k, InPrologue(at, k)
  PROVE  /\ InSomeOp' \/ \E b, l : InPrologue(b, l)'
         /\ MachineTypes' /\ CalleeSaved'
<1>1. phase = "ready" /\ MachineTypes /\ InPart(0, at, k) /\ Untouched
  BY DEF FrameInv, MachineTypes, InPrologue
<1>2. /\ k \in 1 .. 3 /\ ins = Prologue[k] /\ NextRip = at[k + 1] /\ at[4] = code_addr[1]
      /\ rip < code_addr[1]
  BY <1>1, PrologueFirst
<1>3. /\ n_op \in Nat \ {0} /\ DOMAIN code_addr = 1 .. n_op /\ 1 \in DOMAIN StackDepth[code]
      /\ Depth(1) = 0 /\ PoppedBy(code[1].op, code[1].arg) <= 0 /\ 0 \in 0 .. n_op
      /\ Whole(0, at)
  BY <1>1, ReadyFacts DEF InPart
<1>4. /\ Part(0) = Prologue /\ Len(Part(0)) = 3 /\ DOMAIN Part(0) = 1 .. 3
  BY PrologueCode DEF Part, Prologue
<1>5. /\ DOMAIN reg = Registers /\ reg["rsp"] = RawInt(Sp) /\ Sp \in Int /\ Sp % 8 = 0
      /\ Sp <= EntryRsp + 8
      /\ {"rsp", "rbp", "r12", "r13"} \subseteq Registers /\ EntryRsp \in Nat
      /\ \A a \in DOMAIN stk : a \in Int
  BY <1>1, EntryAssumption DEF MachineTypes, Registers
\* No op starts at k = 2 or 3.
<1>6. ASSUME k + 1 \in 2 .. 3, rip' = at[k + 1], UNCHANGED compileVars, Observe
      PROVE  seen' = seen /\ InPart(0, at, k + 1)'
  <2>1. \A j \in DOMAIN code_addr : code_addr[j] # at[k + 1]
    BY <1>1, <1>3, <1>4, <1>6, HeadsApart
  <2>2. code_addr' = code_addr /\ Whole(0, at)' /\ Part(0)' = Part(0)
    BY <1>3, <1>6, CodeStays DEF FrameInv
  <2>3. seen' = seen
    BY <1>6, <2>1, <2>2 DEF Observe
  <2>4. k + 1 \in DOMAIN Part(0)
    BY <1>4, <1>6
  <2> QED BY <1>6, <2>2, <2>3, <2>4 DEF InPart
<1>7. CASE k = 1
  <2>1. ins = WriteEndbr64 /\ CallerFrame
    BY <1>2, <1>7 DEF Prologue, InPrologue
  <2>2. NoOp
    BY <2>1 DEF WriteEndbr64, Instruction, PushReg, PopReg, MovImmediate, MovRegister,
          LoadStack, LoadLocal, StoreLocal, CallReturns, CallAborts, CallCrashes, Compare, Jump,
          Leave, Ret, At, ins
  <2>3. /\ rip' = at[k + 1] /\ UNCHANGED compileVars /\ Observe /\ reg' = reg /\ stk' = stk
        /\ localsplus' = localsplus
    BY <1>2, <2>2 DEF NoOp, Moves
  <2>4. k + 1 \in 2 .. 3 /\ k + 1 # 3 /\ k + 1 <= 2
    BY <1>7
  <2>5. seen' = seen /\ InPart(0, at, k + 1)'
    BY <1>6, <2>3, <2>4
  <2>6. InPrologue(at, k + 1)'
    BY <2>1, <2>3, <2>4, <2>5 DEF InPrologue, CallerFrame, Untouched
  <2>7. MachineTypes'
    <3>1. seen'.pc \in 0 .. n_op - 1 /\ seen'.leaked \in Nat
      BY <1>1, <2>5 DEF MachineTypes
    <3> QED BY <1>1, <1>5, <2>3, <3>1, TypesKept
  <2>8. CalleeSaved'
    BY <2>3, CodeStays DEF CalleeSaved, FrameInv
  <2> QED BY <2>6, <2>7, <2>8
<1>8. CASE k = 2
  <2>1. ins = WritePushRbp /\ CallerFrame
    BY <1>2, <1>8 DEF Prologue, InPrologue
  <2>2. ins.ins = "push" /\ ins.reg = "rbp"
    BY <2>1 DEF WritePushRbp, Push
  <2>3. PushReg
    BY <2>2 DEF Instruction, NoOp, PopReg, MovImmediate, MovRegister,
          LoadStack, LoadLocal, StoreLocal, CallReturns, CallAborts, CallCrashes, Compare, Jump,
          Leave, Ret, At, ins
  <2>4. Sp = EntryRsp /\ reg["rbp"] = CallerWord("rbp")
    BY <2>1 DEF CallerFrame, Sp, RawInt
  <2>5. /\ rip' = at[k + 1] /\ UNCHANGED compileVars /\ Observe
        /\ reg' = [reg EXCEPT !["rsp"] = RawInt(EntryRsp - 8)]
        /\ stk' = With(stk, EntryRsp - 8, CallerWord("rbp"))
        /\ localsplus' = localsplus
    BY <1>2, <2>2, <2>3, <2>4 DEF PushReg, Moves, SetRsp
  <2>6. k + 1 \in 2 .. 3 /\ k + 1 = 3 /\ ~(k + 1 <= 2)
    BY <1>8
  <2>7. seen' = seen /\ InPart(0, at, k + 1)'
    BY <1>6, <2>5, <2>6
  <2>8. /\ DOMAIN reg' = Registers /\ reg'["rsp"] = RawInt(EntryRsp - 8)
        /\ reg'["r12"] = reg["r12"] /\ reg'["r13"] = reg["r13"]
    BY <1>5, <2>5
  <2>9. FrameWords' /\ \A a \in DOMAIN stk' : a \in DOMAIN stk \/ a = Sp - 8
    <3>1. EntryRsp # EntryRsp - 8 /\ EntryRsp \in DOMAIN stk /\ stk[EntryRsp] = ReturnAddress
      BY <1>5 DEF InPrologue
    <3>2. /\ DOMAIN stk' = DOMAIN stk \cup {EntryRsp - 8}
          /\ stk'[EntryRsp - 8] = CallerWord("rbp")
          /\ stk'[EntryRsp] = stk[EntryRsp]
      BY <2>5, <3>1 DEF With
    <3> QED BY <2>4, <3>1, <3>2 DEF FrameWords
  <2>10. InPrologue(at, k + 1)'
    BY <1>1, <2>6, <2>7, <2>8, <2>9 DEF InPrologue, Untouched, FrameWords
  <2>11. MachineTypes'
    <3>1. seen'.pc \in 0 .. n_op - 1 /\ seen'.leaked \in Nat
      BY <1>1, <2>7 DEF MachineTypes
    <3>2. EntryRsp - 8 \in Int /\ (EntryRsp - 8) % 8 = 0 /\ EntryRsp - 8 <= EntryRsp + 8
      BY EntryAssumption
    <3> QED BY <1>1, <2>5, <2>8, <2>9, <3>1, <3>2, TypesKept
  <2>12. CalleeSaved'
    BY <2>5, <2>8, CodeStays DEF CalleeSaved, FrameInv
  <2> QED BY <2>10, <2>11, <2>12
<1>9. CASE k = 3
  <2>1. ins = WriteMovRspToRbp /\ reg["rsp"] = RawInt(EntryRsp - 8) /\ FrameWords
    BY <1>2, <1>9 DEF Prologue, InPrologue
  <2>2. ins.ins = "movreg" /\ ins.dst = "rbp" /\ ins.src = "rsp"
    BY <2>1 DEF WriteMovRspToRbp, MovReg
  <2>3. MovRegister
    BY <2>2 DEF Instruction, NoOp, PushReg, PopReg, MovImmediate,
          LoadStack, LoadLocal, StoreLocal, CallReturns, CallAborts, CallCrashes, Compare, Jump,
          Leave, Ret, At, ins
  <2>4. /\ rip' = at[k + 1] /\ UNCHANGED compileVars /\ Observe /\ stk' = stk
        /\ reg' = [reg EXCEPT !["rbp"] = RawInt(EntryRsp - 8)]
        /\ localsplus' = localsplus
    BY <1>2, <2>1, <2>2, <2>3 DEF MovRegister, Moves, Set
  <2>5. /\ DOMAIN reg' = Registers /\ reg'["rsp"] = RawInt(EntryRsp - 8)
        /\ reg'["rbp"] = RawInt(EntryRsp - 8)
        /\ reg'["r12"] = reg["r12"] /\ reg'["r13"] = reg["r13"]
    BY <1>5, <2>1, <2>4
  <2>6. FrameWords' /\ rip' = code_addr[1]
    BY <1>2, <1>9, <2>1, <2>4 DEF FrameWords
  <2>7. 0 = seen.leaked + (IF Op(seen.pc) = "STORE_SUBSCR" THEN 1 ELSE 0)
    <3>1. code[1].op # "STORE_SUBSCR"
      BY <1>3 DEF PoppedBy
    <3>2. Op(seen.pc) = code[1].op
      <4>1. 0 + 1 = 1
        OBVIOUS
      <4> QED BY <1>1, <4>1 DEF Op, Untouched
    <3> QED BY <1>1, <3>1, <3>2 DEF Untouched
  <2>8. reg'["rsp"] = RawInt(EntryRsp - 8 - 8 * (Depth(1) + 0))
    <3>1. EntryRsp - 8 - 8 * (Depth(1) + 0) = EntryRsp - 8
      BY <1>3, <1>5
    <3> QED BY <2>5, <3>1
  <2>9. /\ \E b, r, Q : InOp(1, b, r, Q, 1)'
        /\ seen'.pc = 1 - 1 /\ seen'.leaked = 0
    BY <1>1, <1>3, <2>4, <2>5, <2>6, <2>7, <2>8, Arrive
  <2>10. MachineTypes'
    <3>1. seen'.pc \in 0 .. n_op - 1 /\ seen'.leaked \in Nat
      BY <1>3, <2>9
    <3>2. EntryRsp - 8 \in Int /\ (EntryRsp - 8) % 8 = 0 /\ EntryRsp - 8 <= EntryRsp + 8
      BY EntryAssumption
    <3> QED BY <1>1, <2>4, <2>5, <3>1, <3>2, TypesKept
  <2>11. CalleeSaved'
    BY <2>4, <2>5, CodeStays DEF CalleeSaved, FrameInv
  <2> QED BY <2>9, <2>10, <2>11 DEF InSomeOp
<1> QED BY <1>2, <1>7, <1>8, <1>9

\* Of the instructions of an op, only the one behind leave is ret.
LEMMA RetIsLast ==
  ASSUME FrameInv, phase = "ready",
         NEW i, NEW at, NEW s, NEW P, NEW k, InOp(i, at, s, P, k)
  PROVE  IF ins.ins = "ret" THEN k = Len(s) + 2 ELSE k <= Len(s) + 1
<1>1. /\ Len(s) \in Nat /\ k \in 1 .. Len(Part(i)) /\ Len(Part(i)) \in Nat
      /\ s \in Seq(Body(Written(code[i].op)))
  <2>1. AboveBottom(i, s, P, k)
    BY LevelFacts
  <2> QED BY <2>1 DEF AboveBottom
<1>2. ins = Part(i)[k]
  <2>1. i \in 1 .. n_op /\ n_op \in Nat /\ InPart(i, at, k)
    BY ReadyFacts DEF InOp
  <2>2. i \in 0 .. n_op
    BY <2>1
  <2> QED BY <2>1, <2>2, InsAt
<1>3. /\ \A l \in 1 .. Len(s) : Part(i)[l] = s[l]
      /\ Len(Part(i)) = Len(s) + (CASE code[i].op \in JumpOpcodes   -> 1
                                   [] code[i].op \in ReturnOpcodes -> 2
                                   [] OTHER                        -> 0)
      /\ code[i].op \in JumpOpcodes => Part(i)[Len(s) + 1] \in Jumps
      /\ code[i].op \in ReturnOpcodes => Part(i)[Len(s) + 1] = WriteLeave
                                         /\ Part(i)[Len(s) + 2] = WriteRet
  BY DEF InOp, Shape
<1>4. code[i].op \in JumpOpcodes => code[i].op \notin ReturnOpcodes
  BY DEF JumpOpcodes, ReturnOpcodes
<1>5. CASE k <= Len(s)
  <2>1. k \in 1 .. Len(s)
    BY <1>1, <1>5
  <2>2. ins \in Body(Written(code[i].op))
    BY <1>1, <1>2, <1>3, <2>1
  <2> QED BY <1>1, <1>5, <2>2 DEF Body
<1>6. CASE k = Len(s) + 1
  <2>1. code[i].op \in JumpOpcodes \/ code[i].op \in ReturnOpcodes
    BY <1>1, <1>3, <1>6
  <2>2. ins \in Jumps \/ ins = WriteLeave
    BY <1>2, <1>3, <1>6, <2>1
  <2>3. ins.ins # "ret"
    BY <2>2 DEF Jumps, WriteLeave
  <2> QED BY <1>1, <1>6, <2>3
<1>7. CASE k > Len(s) + 1
  <2>1. code[i].op \in ReturnOpcodes /\ k = Len(s) + 2
    BY <1>1, <1>3, <1>4, <1>7
  <2>2. ins.ins = "ret"
    BY <1>2, <1>3, <2>1 DEF WriteRet
  <2> QED BY <2>1, <2>2
<1> QED BY <1>1, <1>5, <1>6, <1>7

\* A step that ends the run: the machine is left as it is, or ret has popped the
\* return address.
LEMMA StopStep ==
  ASSUME FrameInv, run = "running", Instruction, run' # "running"
  PROVE  /\ MachineTypes' /\ CalleeSaved' /\ run' # "no" /\ seen' = seen
         /\ run' = "returned" => /\ reg'["rsp"] = RawInt(EntryRsp + 8)
                                 /\ reg'["rbp"] = CallerWord("rbp")
<1>1. phase = "ready" /\ MachineTypes /\ DOMAIN reg = Registers
  BY DEF FrameInv, MachineTypes
<1>2. CallAborts \/ CallCrashes \/ Ret
  BY DEF Instruction, NoOp, PushReg, PopReg, MovImmediate, MovRegister, LoadStack,
     LoadLocal, StoreLocal, CallReturns, Compare, Jump, Leave, Moves
<1>3. CASE CallAborts \/ CallCrashes
  <2>1. /\ UNCHANGED <<compileVars, machineVars, localsplus, seen>>
        /\ run' \in {"aborted", "crashed"}
    BY <1>3 DEF CallAborts, CallCrashes
  <2>2. reg' = reg /\ stk' = stk /\ Sp' = Sp /\ phase' = phase /\ n_op' = n_op /\ code' = code
    BY <2>1 DEF machineVars, compileVars, Sp, n_op
  <2>3. MachineTypes'
    BY <1>1, <2>1, <2>2 DEF MachineTypes
  <2>4. CalleeSaved'
    BY <2>2 DEF CalleeSaved, FrameInv
  <2> QED BY <2>1, <2>3, <2>4
<1>4. CASE Ret
  <2>1. /\ UNCHANGED <<compileVars, stk, localsplus, seen>> /\ reg' = SetRsp(reg, Sp + 8)
        /\ run' \in {"returned", "crashed"} /\ ins.ins = "ret"
    BY <1>4 DEF Ret, At, ins
  <2>2. CallerFrame
    <3>1. ASSUME NEW at, NEW k, InPrologue(at, k)
          PROVE  FALSE
      <4>1. k \in 1 .. 3 /\ ins = Prologue[k]
        BY <1>1, <3>1, PrologueFirst DEF InPrologue
      <4> QED BY <2>1, <4>1 DEF Prologue, WriteEndbr64, WritePushRbp, Push, WriteMovRspToRbp, MovReg
    <3>2. ASSUME NEW i, NEW at, NEW s, NEW P, NEW k, InOp(i, at, s, P, k)
          PROVE  CallerFrame
      <4>1. k = Len(s) + 2
        BY <1>1, <2>1, <3>2, RetIsLast
      <4> QED BY <3>2, <4>1 DEF InOp
    <3> QED BY <3>1, <3>2 DEF FrameInv
  <2>3. reg["rsp"] = RawInt(EntryRsp) /\ Sp = EntryRsp /\ reg["rbp"] = CallerWord("rbp")
    BY <2>2 DEF CallerFrame, Sp, RawInt
  <2>4. {"rsp", "rbp", "r12", "r13"} \subseteq Registers
    BY DEF Registers
  <2>5. /\ DOMAIN reg' = Registers /\ reg'["rsp"] = RawInt(EntryRsp + 8)
        /\ reg'["rbp"] = CallerWord("rbp") /\ reg'["r12"] = reg["r12"] /\ reg'["r13"] = reg["r13"]
    BY <1>1, <2>1, <2>3, <2>4 DEF SetRsp
  <2>6. Sp' = EntryRsp + 8 /\ phase' = phase /\ n_op' = n_op /\ code' = code
    BY <2>1, <2>5 DEF Sp, RawInt, compileVars, n_op
  <2>7. EntryRsp + 8 \in Int /\ (EntryRsp + 8) % 8 = 0
    BY EntryAssumption
  <2>8. MachineTypes'
    BY <1>1, <2>1, <2>5, <2>6, <2>7 DEF MachineTypes
  <2>9. CalleeSaved'
    BY <2>5, <2>6 DEF CalleeSaved, FrameInv
  <2> QED BY <2>1, <2>5, <2>8, <2>9
<1> QED BY <1>2, <1>3, <1>4

\* The compiler runs before the code does: the machine waits.
LEMMA CompileStep_FrameInv ==
  ASSUME FrameInv, Compile
  PROVE  FrameInv'
<1>1. /\ run' = run /\ reg' = reg /\ stk' = stk /\ localsplus' = localsplus /\ seen' = seen
      /\ rip' = rip /\ CompileNext /\ phase # "ready" /\ code' = code
  BY DEF Compile, runVars, machineVars, CompileNext, Emit, Overrun, BeginOp, EndOps, Patch,
         EndReloc
<1>2. ControlInv'
  BY Compile_ControlInv DEF FrameInv
<1>3. LayoutInv'
  BY <1>1, CompileNext_LayoutInv DEF FrameInv, ControlInv
<1>4. run = "no"
  BY <1>1 DEF FrameInv, MachineTypes
<1>5. MachineTypes' /\ CalleeSaved'
  BY <1>1, <1>4 DEF FrameInv, MachineTypes, CalleeSaved, Sp, n_op
<1> QED BY <1>1, <1>2, <1>3, <1>4, <1>5 DEF FrameInv, CallerFrame, Untouched

LEMMA Enter_FrameInv ==
  ASSUME FrameInv, Enter
  PROVE  FrameInv'
<1>1. /\ phase = "ready" /\ run = "no" /\ run' = "running" /\ UNCHANGED compileVars
      /\ reg' = reg /\ stk' = stk /\ rip' = rip /\ localsplus' = localsplus /\ seen' = seen
  BY DEF Enter, machineVars
<1>2. ControlInv'
  BY JitNext_ControlInv DEF FrameInv, JitNext
<1>3. LayoutInv' /\ code' = code
  BY <1>1, CodeStays DEF FrameInv
<1>4. MachineTypes' /\ CalleeSaved'
  <2>1. phase' = phase /\ n_op' = n_op
    BY <1>1 DEF compileVars, n_op
  <2> QED BY <1>1, <1>3, <2>1 DEF FrameInv, MachineTypes, CalleeSaved, Sp
<1>5. PICK at : Whole(0, at)
  <2>1. 0 \in 0 .. n_op
    BY <1>1, ReadyFacts
  <2> QED BY <1>1, <2>1, ReadyWhole DEF FrameInv, ControlInv
<1>6. at[1] = 0 /\ rip = 0 /\ 1 \in DOMAIN Part(0)
  <2>1. 1 \in DOMAIN Part(0)
    BY <1>1, ReadyFacts DEF Code
  <2>2. rip = 0
    BY <1>1 DEF FrameInv, ControlInv
  <2> QED BY <1>5, <2>1, <2>2 DEF Whole, PartStart
<1>7. InPart(0, at, 1)'
  BY <1>1, <1>5, <1>6, CodeStays DEF InPart, FrameInv
<1>8. InPrologue(at, 1)'
  BY <1>1, <1>7 DEF InPrologue, FrameInv, CallerFrame, Untouched
<1> QED BY <1>1, <1>2, <1>3, <1>4, <1>8 DEF FrameInv

LEMMA JitInit_FrameInv == JitInit => FrameInv
<1> SUFFICES ASSUME JitInit PROVE FrameInv
  OBVIOUS
<1>1. /\ CompileInit /\ run = "no" /\ stk = [a \in {EntryRsp} |-> ReturnAddress]
      /\ localsplus = Arguments(NLocals)
      /\ seen.pc = 0 /\ seen.leaked = 0 /\ seen.stack = <<>> /\ Len(seen.stack) = 0
  BY DEF JitInit
<1>2. /\ DOMAIN reg = Registers /\ reg["rsp"] = RawInt(EntryRsp)
      /\ \A r \in {"rbp", "r12", "r13"} : reg[r] = CallerWord(r)
  BY DEF JitInit, Registers
<1>3. ControlInv /\ LayoutInv
  BY <1>1, JitInit_ControlInv, CompileInit_LayoutInv
<1>4. 0 \in 0 .. n_op - 1
  <2>1. code \in Programs
    BY <1>1 DEF CompileInit
  <2>2. n_op \in Nat /\ DOMAIN code = 1 .. n_op
    BY <2>1, ProgramsAssumption DEF n_op
  <2>3. 1 \in DOMAIN code
    BY <2>1, DepthAssumption DEF Balanced
  <2> QED BY <2>2, <2>3
<1>5. EntryRsp \in Int /\ EntryRsp % 8 = 0 /\ EntryRsp <= EntryRsp + 8
  BY EntryAssumption
<1>6. Sp = EntryRsp
  BY <1>2 DEF Sp, RawInt
<1>7. MachineTypes
  BY <1>1, <1>2, <1>4, <1>5, <1>6 DEF MachineTypes, Arguments
<1>8. CalleeSaved
  BY <1>2 DEF CalleeSaved
<1> QED BY <1>1, <1>2, <1>3, <1>7, <1>8 DEF FrameInv, CallerFrame, Untouched

\* Every step, and what a step between two ops shows of the value stack.
LEMMA InstructionStep ==
  ASSUME FrameInv, Instruction
  PROVE  FrameInv' /\ (InBody => EffectSeen)
<1>1. run = "running" /\ phase = "ready" /\ UNCHANGED compileVars
  <2>1. run = "running" /\ UNCHANGED compileVars
    BY DEF Instruction, NoOp, PushReg, PopReg, MovImmediate, MovRegister, LoadStack, LoadLocal,
           StoreLocal, CallReturns, CallAborts, CallCrashes, Compare, Jump, Leave, Ret, At, Moves
  <2> QED BY <2>1 DEF FrameInv, MachineTypes
<1>2. ControlInv' /\ LayoutInv'
  BY <1>1, Instruction_ControlInv, CodeStays DEF FrameInv
<1>3. CASE run' # "running"
  BY <1>1, <1>2, <1>3, StopStep DEF FrameInv, EffectSeen
<1>4. ASSUME run' = "running", NEW at, NEW k, InPrologue(at, k)
      PROVE  FrameInv' /\ (InBody => EffectSeen)
  <2>1. ~InBody
    <3>1. rip < code_addr[1]
      BY <1>1, <1>4, PrologueFirst DEF InPrologue
    <3>2. rip \in Nat /\ code_addr[1] \in Nat
      <4>1. code_addr[1] \in Nat
        BY <1>1, ReadyFacts
      <4>2. rip \in Nat
        <5>1. at \in [1 .. Len(Part(0)) + 1 -> Nat] /\ k \in 1 .. 3 /\ rip = at[k]
          BY <1>1, <1>4, PrologueFirst DEF InPrologue, InPart, Whole, Placed
        <5>2. Len(Part(0)) = 3
          BY PrologueCode DEF Part
        <5> QED BY <5>1, <5>2
      <4> QED BY <4>1, <4>2
    <3> QED BY <3>1, <3>2 DEF InBody
  <2>2. /\ InSomeOp' \/ \E b, l : InPrologue(b, l)'
        /\ MachineTypes' /\ CalleeSaved'
    BY <1>1, <1>4, PrologueStep
  <2> QED BY <1>2, <1>4, <2>1, <2>2 DEF FrameInv, InSomeOp
<1>5. ASSUME run' = "running", NEW i, NEW at, NEW s, NEW P, NEW k, InOp(i, at, s, P, k)
      PROVE  FrameInv' /\ (InBody => EffectSeen)
  <2>1. InSomeOp' /\ MachineTypes' /\ CalleeSaved' /\ EffectSeen
    <3>1. CASE k <= Len(s)
      BY <1>1, <1>5, <3>1, BodyStep
    <3>2. CASE ~(k <= Len(s))
      <4>1. Len(s) \in Nat /\ k \in 1 .. Len(Part(i)) /\ Len(Part(i)) \in Nat
        <5>1. AboveBottom(i, s, P, k)
          BY <1>1, <1>5, LevelFacts
        <5> QED BY <5>1 DEF AboveBottom
      <4>2. k > Len(s) /\ Len(Part(i)) # Len(s)
        BY <3>2, <4>1
      <4>3. code[i].op \in JumpOpcodes \/ code[i].op \in ReturnOpcodes
        <5>1. Shape(code[i].op, code[i].arg, Part(i), s)
          BY <1>5 DEF InOp
        <5> QED BY <4>1, <4>2, <5>1 DEF Shape
      <4> QED BY <1>1, <1>5, <4>2, <4>3, JumpStep, ReturnStep
    <3> QED BY <3>1, <3>2
  <2> QED BY <1>2, <1>5, <2>1 DEF FrameInv, InSomeOp
<1> QED BY <1>1, <1>3, <1>4, <1>5 DEF FrameInv

LEMMA JitNext_FrameInv == FrameInv /\ [JitNext]_jitVars => FrameInv'
<1> SUFFICES ASSUME FrameInv, [JitNext]_jitVars PROVE FrameInv'
  OBVIOUS
<1>1. CASE Compile \/ Enter \/ Instruction
  BY <1>1, CompileStep_FrameInv, Enter_FrameInv, InstructionStep
<1>2. CASE UNCHANGED jitVars
  <2>1. /\ UNCHANGED compileVars /\ run' = run /\ rip' = rip /\ reg' = reg /\ stk' = stk
        /\ localsplus' = localsplus /\ seen' = seen
    BY <1>2 DEF jitVars, runVars, machineVars
  <2>2. ControlInv'
    BY JitNext_ControlInv DEF FrameInv
  <2>3. /\ LayoutInv' /\ \A i, at : Whole(i, at)' <=> Whole(i, at)
        /\ \A i : Part(i)' = Part(i) /\ Depth(i)' = Depth(i)
        /\ code' = code /\ phase' = phase /\ n_op' = n_op
    BY <2>1, CodeStays DEF FrameInv, compileVars, n_op
  <2>4. MachineTypes' /\ CalleeSaved'
    BY <2>1, <2>3 DEF FrameInv, MachineTypes, CalleeSaved, Sp
  <2>5. \A at, k : InPrologue(at, k) => InPrologue(at, k)'
    BY <2>1, <2>3 DEF InPrologue, InPart, Untouched, CallerFrame, FrameWords
  <2>6. \A i, at, s, P, k : InOp(i, at, s, P, k) => InOp(i, at, s, P, k)'
    <3> SUFFICES ASSUME NEW i, NEW at, NEW s, NEW P, NEW k, InOp(i, at, s, P, k)
                 PROVE  InOp(i, at, s, P, k)'
      OBVIOUS
    <3>1. Shape(code[i].op, code[i].arg, Part(i), s)'
      BY <2>3 DEF InOp, Shape
    <3>2. InPart(i, at, k)'
      BY <2>1, <2>3 DEF InOp, InPart
    <3> QED BY <2>1, <2>3, <3>1, <3>2 DEF InOp, FrameWords, FrameBuilt, CallerFrame
  <2>7. run = "running" => \/ \E at, k : InPrologue(at, k)'
                           \/ \E i, at, s, P, k : InOp(i, at, s, P, k)'
    BY <2>5, <2>6, Zenon DEF FrameInv
  <2> QED BY <2>1, <2>2, <2>3, <2>4, <2>7 DEF FrameInv, CallerFrame, Untouched
<1> QED BY <1>1, <1>2 DEF JitNext

-----------------------------------------------------------------------------
\* What follows from it.

\* In the body of func(), control is in an op.
LEMMA BodyInOp ==
  ASSUME FrameInv, InBody
  PROVE  run = "running" /\ phase = "ready" /\ InSomeOp
<1>1. run = "running" /\ phase = "ready"
  BY DEF InBody, FrameInv, MachineTypes
<1>2. ASSUME NEW at, NEW k, InPrologue(at, k)
      PROVE  FALSE
  <2>1. rip < code_addr[1] /\ rip \in Nat
    BY <1>1, <1>2, PrologueFirst DEF InPrologue
  <2>2. code_addr[1] \in Nat
    BY <1>1, ReadyFacts
  <2> QED BY <2>1, <2>2 DEF InBody
<1> QED BY <1>1, <1>2 DEF FrameInv, InSomeOp

LEMMA FrameInv_FrameIntact == FrameInv => FrameIntact
<1> SUFFICES ASSUME FrameInv, InBody
             PROVE  /\ Word(EntryRsp) = ReturnAddress
                    /\ Word(EntryRsp - 8) = CallerWord("rbp")
                    /\ IF ins.ins = "ret"
                       THEN Sp = EntryRsp /\ reg["rbp"] = CallerWord("rbp")
                       ELSE Sp <= EntryRsp - 8 /\ reg["rbp"] = RawInt(EntryRsp - 8)
  BY DEF FrameIntact
<1>1. phase = "ready" /\ InSomeOp
  BY BodyInOp
<1>2. PICK i, at, s, P, k : InOp(i, at, s, P, k)
  BY <1>1 DEF InSomeOp
<1>3. FrameWords
  BY <1>2 DEF InOp
<1>4. CASE ins.ins = "ret"
  <2>1. k = Len(s) + 2
    BY <1>1, <1>2, <1>4, RetIsLast
  <2>2. CallerFrame
    BY <1>2, <2>1 DEF InOp
  <2> QED BY <1>3, <1>4, <2>2 DEF FrameWords, Word, CallerFrame, Sp, RawInt
<1>5. CASE ins.ins # "ret"
  <2>1. k <= Len(s) + 1
    BY <1>1, <1>2, <1>5, RetIsLast
  <2>2. FrameBuilt(Depth(i) + seen.leaked + P[k - 1])
    BY <1>2, <2>1 DEF InOp
  <2>3. Depth(i) + seen.leaked + P[k - 1] \in Nat
    <3>1. AboveBottom(i, s, P, k)
      BY <1>1, <1>2, LevelFacts
    <3>2. k - 1 \in 0 .. Len(s)
      BY <2>1, <3>1 DEF AboveBottom
    <3> QED BY <3>1, <3>2 DEF AboveBottom
  <2>4. Sp <= EntryRsp - 8 /\ reg["rbp"] = RawInt(EntryRsp - 8)
    <3> DEFINE n == Depth(i) + seen.leaked + P[k - 1]
    <3> HIDE DEF n
    <3>1. n \in Nat /\ FrameBuilt(n)
      BY <2>2, <2>3 DEF n
    <3> QED BY <3>1, EntryAssumption DEF FrameBuilt, Sp, RawInt
  <2> QED BY <1>3, <1>5, <2>4 DEF FrameWords, Word
<1> QED BY <1>4, <1>5

LEMMA FrameInv_StackAtDepth == FrameInv => StackAtDepth
<1> SUFFICES ASSUME FrameInv, InBody, NEW j \in DOMAIN code_addr, code_addr[j] = rip
             PROVE  Sp = EntryRsp - 8 - 8 * (StackDepth[code][j] + seen.leaked)
  BY DEF StackAtDepth
<1>1. phase = "ready" /\ InSomeOp
  BY BodyInOp
<1>2. PICK i, at, s, P, k : InOp(i, at, s, P, k)
  BY <1>1 DEF InSomeOp
<1>3. /\ i \in 1 .. n_op /\ n_op \in Nat /\ Depth(i) \in Nat /\ seen.leaked \in Nat
      /\ DOMAIN code_addr = 1 .. n_op /\ code_addr \in Seq(Nat)
  BY <1>1, <1>2, ReadyFacts DEF InOp, FrameInv, MachineTypes
<1>4. k \in 1 .. Len(Part(i)) /\ Len(Part(i)) \in Nat /\ Len(s) \in Nat
  <2>1. AboveBottom(i, s, P, k)
    BY <1>1, <1>2, LevelFacts
  <2> QED BY <2>1 DEF AboveBottom
\* An op starts here, so this is its first instruction.
<1>5. k = 1
  <2> SUFFICES ASSUME k # 1 PROVE FALSE
    OBVIOUS
  <2>1. k \in 2 .. Len(Part(i)) /\ i \in 0 .. n_op /\ Whole(i, at) /\ rip = at[k]
    BY <1>2, <1>3, <1>4 DEF InOp, InPart
  <2> QED BY <1>1, <2>1, HeadsApart
<1>6. j = i
  <2>1. code_addr[i] = rip /\ i \in DOMAIN code_addr
    BY <1>2, <1>3, <1>5 DEF InOp, InPart, Whole, PartStart
  <2> QED BY <1>3, <2>1 DEF FrameInv, ControlInv, CodeTiled
<1>7. FrameBuilt(Depth(i) + seen.leaked)
  <2>1. FrameBuilt(Depth(i) + seen.leaked + P[1 - 1])
    BY <1>2, <1>4, <1>5 DEF InOp
  <2>2. P[1 - 1] = 0
    BY <1>2 DEF InOp, Levels
  <2>3. Depth(i) + seen.leaked + 0 = Depth(i) + seen.leaked
    BY <1>3
  <2> QED BY <2>1, <2>2, <2>3
<1> QED BY <1>6, <1>7 DEF FrameBuilt, Sp, RawInt, Depth

LEMMA FrameInv_JitTypeOK == FrameInv => JitTypeOK
<1> SUFFICES ASSUME FrameInv PROVE JitTypeOK
  OBVIOUS
<1>1. ASSUME run = "running"
      PROVE  rip \in DOMAIN text
  <2>1. phase = "ready" /\ n_op \in Nat
    <3>1. phase = "ready"
      BY <1>1 DEF FrameInv, MachineTypes
    <3> QED BY <3>1, ReadyFacts
  <2>2. ASSUME NEW at, NEW k, InPrologue(at, k)
        PROVE  rip \in DOMAIN text
    <3>1. 0 \in 0 .. n_op
      BY <2>1
    <3> QED BY <2>1, <2>2, <3>1, InsAt DEF InPrologue
  <2>3. ASSUME NEW i, NEW at, NEW s, NEW P, NEW k, InOp(i, at, s, P, k)
        PROVE  rip \in DOMAIN text
    <3>1. i \in 0 .. n_op
      BY <2>1, <2>3, ReadyFacts DEF InOp
    <3> QED BY <2>1, <2>3, <3>1, InsAt DEF InOp
  <2> QED BY <1>1, <2>2, <2>3 DEF FrameInv
<1> QED BY <1>1 DEF FrameInv, MachineTypes, JitTypeOK

LEMMA FrameInvariant == JitSpec => []FrameInv
  BY JitInit_FrameInv, JitNext_FrameInv, PTL DEF JitSpec

\* Whatever is compiled and whatever the calls return: the machine's state has its
\* types, rsp stays a multiple of 8 below the caller's frame, and control stays on
\* instructions of the code.
THEOREM MachineTyped == JitSpec => []JitTypeOK
<1> QED BY FrameInvariant, FrameInv_JitTypeOK, PTL

\* The saved rbp and the return address stay intact under the value stack, in the
\* body of func(), and ret finds both: the words each op takes off the stack were
\* put there by ops before it.
THEOREM FrameStaysIntact == JitSpec => []FrameIntact
<1> QED BY FrameInvariant, FrameInv_FrameIntact, PTL

\* In front of every op the machine stack is as deep as CPython's compiler counts
\* for the value stack, and the containers STORE_SUBSCR left, whichever way control
\* came.
THEOREM StackAtCPythonsDepth == JitSpec => []StackAtDepth
<1> QED BY FrameInvariant, FrameInv_StackAtDepth, PTL

\* The caller of func() gets rsp and rbp back, and r12 and r13 from code without
\* the ops that use them.
THEOREM CallerFindsItsFrame == JitSpec => []ReturnsToCaller
<1>1. FrameInv => ReturnsToCaller
  BY DEF FrameInv, ReturnsToCaller, CalleeSaved
<1> QED BY <1>1, FrameInvariant, PTL

\* Between any two ops the value stack moves by the stack effect of the op, on
\* every path and whatever the calls returned.
THEOREM OpsKeepStackEffects == JitSpec => StackEffects
<1> DEFINE OpMovesStack ==
             seen' # seen /\ run = "running" /\ InBody =>
               Len(seen'.stack) = Len(seen.stack) + StackEffect(Op(seen.pc), Arg(seen.pc))
<1>1. FrameInv /\ [JitNext]_jitVars => [OpMovesStack]_jitVars
  <2> SUFFICES ASSUME FrameInv, JitNext, seen' # seen, run = "running", InBody
               PROVE  Len(seen'.stack) = Len(seen.stack) + StackEffect(Op(seen.pc), Arg(seen.pc))
    OBVIOUS
  <2>1. Instruction
    BY DEF JitNext, Compile, Enter, runVars
  <2> QED BY <2>1, InstructionStep DEF EffectSeen
<1> QED BY <1>1, FrameInvariant, PTL DEF JitSpec, StackEffects

-----------------------------------------------------------------------------
\* The specification the runs check.

\* The account follows the activation and changes nothing in it, so that what holds
\* of every behaviour of JitSpec holds of OwnSpec, whatever the fairness.
LEMMA AccountUndisturbing == OwnSpec => JitInit /\ [][JitNext]_jitVars
<1>1. OwnInit => JitInit
  BY DEF OwnInit
<1>2. [OwnNext]_ownVars => [JitNext]_jitVars
  BY DEF OwnNext, ownVars
<1> QED BY <1>1, <1>2, PTL DEF OwnSpec
=============================================================================
