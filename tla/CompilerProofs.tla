---------------------------- MODULE CompilerProofs ----------------------------
(***************************************************************************)
(* Proofs about Compiler: whatever the bytecode, the bindings and the size *)
(* of the area, the compiler's state has its types, relocation does not    *)
(* abort, and every jump of the finished code leads where the bytecode     *)
(* does.                                                                   *)
(***************************************************************************)
EXTENDS Compiler, EmitterProofs

\* The inductive invariant.
IInv ==
  /\ CompileTypeOK
  /\ todo \in Seq(Instructions)
  /\ CompileInv

-----------------------------------------------------------------------------
\* Facts about data.

LEMMA WithFacts ==
  ASSUME NEW f, NEW x, NEW y
  PROVE  /\ DOMAIN With(f, x, y) = DOMAIN f \cup {x}
         /\ With(f, x, y)[x] = y
         /\ \A z \in DOMAIN f : z # x => With(f, x, y)[z] = f[z]
  BY DEF With

\* The code object, by index.
LEMMA OpTypes ==
  ASSUME code \in Programs, NEW i \in 0 .. n_op - 1
  PROVE  /\ i + 1 \in DOMAIN code
         /\ Arg(i) \in 0 .. 255
         /\ Op(i) \in JumpOpcodes => JumpTarget(Op(i), Arg(i), i) \in 0 .. n_op - 1
<1> DEFINE Units == [op : STRING, arg : 0 .. 255]
<1>1. code \in Seq(Units) /\ JumpsInside(code)
  BY ProgramsAssumption
<1>2. i + 1 \in DOMAIN code
  <2> HIDE DEF Units
  <2> QED BY <1>1 DEF n_op
<1>3. code[i + 1] \in Units
  <2> HIDE DEF Units
  <2> QED BY <1>1, <1>2
<1>4. (i + 1) - 1 = i
  OBVIOUS
<1> QED BY <1>1, <1>2, <1>3, <1>4 DEF JumpsInside, Op, Arg, n_op

\* The source and CPython agree where a jump op leads.
LEMMA JumpOpIndexIsTarget ==
  ASSUME NEW op \in JumpOpcodes, NEW arg \in Nat, NEW i \in Nat
  PROVE  JumpOpIndex(op, arg, i) = JumpTarget(op, arg, i)
  BY DEF JumpOpcodes, JumpOpIndex, JumpTarget, InlineCache

\* Where a finished compiler has code for the op a patch leads to.
LEMMA DisplacementType ==
  ASSUME IInv, phase \in {"reloc", "ready"}, NEW k \in DOMAIN reloc_patch
  PROVE  /\ reloc_patch[k].jump_op_index + 1 \in DOMAIN code_addr
         /\ reloc_patch[k].cur_op_index + 1 \in DOMAIN code_addr
         /\ Displacement(reloc_patch[k]) \in Int
<1> DEFINE rp == reloc_patch[k]
<1>1. rp \in RelocPatches
  BY DEF IInv, CompileTypeOK
<1>2. Len(code_addr) = n_op /\ code_addr \in Seq(Nat)
  BY AreaAssumption DEF IInv, CompileInv, PhaseInv, CompileTypeOK
<1>3. /\ rp.cur_op_index < Len(code_addr)
      /\ Op(rp.cur_op_index) \in JumpOpcodes
      /\ rp.jump_op_index = JumpTarget(Op(rp.cur_op_index), Arg(rp.cur_op_index), rp.cur_op_index)
  BY DEF IInv, CompileInv, PatchInv
<1>4. n_op \in Nat
  BY <1>2
<1>5. rp.cur_op_index \in 0 .. n_op - 1
  BY <1>1, <1>2, <1>3, <1>4 DEF RelocPatches
<1>6. rp.jump_op_index \in 0 .. n_op - 1
  BY <1>3, <1>5, OpTypes DEF IInv, CompileTypeOK
<1>7. rp.jump_op_index + 1 \in DOMAIN code_addr /\ rp.cur_op_index + 1 \in DOMAIN code_addr
  BY <1>2, <1>5, <1>6, <1>4
<1>8. rp.addend \in Int
  BY <1>1 DEF RelocPatches
<1> QED BY <1>2, <1>7, <1>8 DEF Displacement

-----------------------------------------------------------------------------
\* The invariant holds at the start.
LEMMA CompileInit_IInv == CompileInit => IInv
<1> SUFFICES ASSUME CompileInit PROVE IInv
  OBVIOUS
<1>1. DOMAIN <<>> = {}
  OBVIOUS
<1>2. Prologue \in Block
  BY FixedStraight DEF Prologue, Block
<1>3. todo \in Seq(Instructions)
  BY <1>2 DEF CompileInit, Block, Instructions
<1>4. \A k \in DOMAIN todo : ~IsJump(todo[k])
  BY <1>2, StraightHasNoJump DEF CompileInit, Block
<1>5. CompileTypeOK
  BY <1>1 DEF CompileInit, CompileTypeOK, CompilePhases, n_op
<1>6. PhaseInv /\ PointerInv
  BY <1>1, <1>4 DEF CompileInit, PhaseInv, PointerInv
<1>7. (\A k \in DOMAIN reloc_patch : PatchInv(k)) /\ PatchesAscend /\ JumpsPatched
  BY <1>1 DEF CompileInit, PatchesAscend, JumpsPatched
<1> QED BY <1>3, <1>5, <1>6, <1>7 DEF IInv, CompileInv

-----------------------------------------------------------------------------
\* One lemma per action: it preserves the invariant.

LEMMA Emit_IInv ==
  ASSUME IInv, Emit
  PROVE  IInv'
<1> DEFINE ins == Head(todo)
           end == code_ptr + InsLen(ins)
<1>1. /\ todo # <<>> /\ todo \in Seq(Instructions) /\ todo' = Tail(todo)
      /\ phase \in {"prologue", "ops"} /\ n_patched = 0
      /\ code' = code /\ globals' = globals /\ phase' = phase /\ code_addr' = code_addr
      /\ n_patched' = n_patched /\ code_ptr' = end /\ text' = With(text, code_ptr, ins)
  BY DEF Emit, IInv, CompileInv, PhaseInv
<1>2. /\ code_ptr \in Nat /\ InsLen(ins) \in 1 .. 15 /\ end \in Nat /\ end > code_ptr
      /\ IsJump(ins) => end - 4 > code_ptr
  BY InsLenType, SMTT(20) DEF IInv, CompileTypeOK
<1>3. /\ code_addr \in Seq(0 .. CODE_AREA_SIZE) /\ Len(code_addr) <= n_op
      /\ code_addr \in Seq(Nat)
      /\ reloc_patch \in Seq(RelocPatches)
      /\ \A i \in DOMAIN code_addr : code_addr[i] <= code_ptr
  BY AreaAssumption DEF IInv, CompileTypeOK, CompileInv, PointerInv
<1>4. todo' \in Seq(Instructions) /\ \A k \in DOMAIN todo' : todo'[k] = todo[k + 1]
  BY <1>1
<1>5. 1 \in DOMAIN todo /\ ins = todo[1] /\ \A k \in DOMAIN todo' : k + 1 \in DOMAIN todo
  BY <1>1
<1>6. PhaseInv'
  BY <1>1 DEF IInv, CompileInv, PhaseInv, n_op
<1>7. DOMAIN text' = DOMAIN text \cup {code_ptr} /\ text'[code_ptr] = ins
  <2> HIDE DEF ins, end
  <2> QED BY <1>1 DEF With
<1>8. \A a \in DOMAIN text : a < code_ptr /\ a \in Nat /\ text'[a] = text[a]
  <2>1. \A a \in DOMAIN text : a < code_ptr /\ a \in Nat
    BY DEF IInv, CompileTypeOK, CompileInv, PointerInv
  <2>2. \A a \in DOMAIN text : a # code_ptr
    BY <1>2, <2>1
  <2>3. \A a \in DOMAIN text : text'[a] = text[a]
    <3> HIDE DEF ins, end
    <3> QED BY <1>1, <2>2 DEF With
  <2> QED BY <2>1, <2>3
<1>9. DOMAIN text' \subseteq Nat /\ \A a \in DOMAIN text' : a < end
  BY <1>2, <1>7, <1>8
<1>10. PointerInv'
  <2>1. \A i \in DOMAIN code_addr' : code_addr'[i] <= code_ptr'
    BY <1>1, <1>2, <1>3
  <2>2. \A k \in DOMAIN todo' : IsJump(todo'[k]) => code_addr # <<>> /\ Op(op_index) \in JumpOpcodes
    BY <1>4, <1>5 DEF IInv, CompileInv, PointerInv
  <2>3. (Op(op_index))' = Op(op_index)
    BY <1>1 DEF Op, op_index
  <2> HIDE DEF end
  <2> QED BY <1>1, <1>9, <2>1, <2>2, <2>3 DEF PointerInv
<1>11. \A a, i : OwnedBy(a, i)' <=> OwnedBy(a, i)
  BY <1>1 DEF OwnedBy
<1>12. /\ \A k \in DOMAIN reloc_patch : PatchInv(k) /\ reloc_patch[k] \in RelocPatches
       /\ JumpsPatched /\ PatchesAscend /\ code \in Programs
  BY DEF IInv, CompileInv, CompileTypeOK
<1>13. CASE ~IsJump(ins)
  <2>1. rel32' = rel32 /\ reloc_patch' = reloc_patch
    BY <1>13 DEF Emit
  <2>2. CompileTypeOK'
    BY <1>1, <1>2, <1>9, <2>1 DEF IInv, CompileTypeOK, n_op
  <2>3. ASSUME NEW k \in DOMAIN reloc_patch' PROVE PatchInv(k)'
    <3>1. PatchInv(k) /\ reloc_patch[k].addr \in Nat
      BY <1>12, <2>1 DEF RelocPatches
    <3> QED BY <3>1, <1>1, <1>2, <2>1 DEF PatchInv, Displacement, Op, Arg
  <2>4. PatchesAscend'
    BY <2>1 DEF IInv, CompileInv, PatchesAscend
  <2>5. JumpsPatched'
    <3> SUFFICES ASSUME NEW a \in DOMAIN text', IsJump(text'[a])
                 PROVE  \E k \in DOMAIN reloc_patch' :
                           /\ reloc_patch'[k].addr = a + InsLen(text'[a]) - 4
                           /\ OwnedBy(a, reloc_patch'[k].cur_op_index + 1)
      BY <1>11, Zenon DEF JumpsPatched
    <3>1. a \in DOMAIN text /\ text'[a] = text[a]
      BY <1>7, <1>8, <1>13
    <3> QED BY <3>1, <2>1, <1>11, <1>12 DEF JumpsPatched
  <2> QED BY <1>4, <1>6, <1>10, <2>2, <2>3, <2>4, <2>5 DEF IInv, CompileInv
<1>14. CASE IsJump(ins)
  <2> DEFINE new == NewPatch(end)
             n == Len(reloc_patch) + 1
  <2>1. rel32' = With(rel32, end - 4, rel32_dummy_value) /\ reloc_patch' = Append(reloc_patch, new)
    BY <1>14 DEF Emit
  <2>2. /\ code_addr # <<>> /\ Op(op_index) \in JumpOpcodes
        /\ op_index \in 0 .. n_op - 1 /\ op_index \in Nat /\ op_index + 1 \in DOMAIN code_addr
        /\ op_index + 1 = Len(code_addr)
    <3>1. code_addr # <<>> /\ Op(op_index) \in JumpOpcodes
      BY <1>5, <1>14 DEF IInv, CompileInv, PointerInv
    <3>2. n_op \in Nat
      BY ProgramsAssumption DEF IInv, CompileTypeOK, n_op
    <3> QED BY <3>1, <3>2, <1>3 DEF op_index
  <2>3. Arg(op_index) \in Nat /\ JumpTarget(Op(op_index), Arg(op_index), op_index) \in Nat
    <3>1. op_index + 1 \in DOMAIN code /\ Arg(op_index) \in 0 .. 255
      BY <2>2, <1>12, OpTypes, Zenon
    <3>2. JumpTarget(Op(op_index), Arg(op_index), op_index) \in 0 .. n_op - 1
      BY <2>2, <1>12, OpTypes, Zenon
    <3> QED BY <3>1, <3>2
  <2>4. /\ new.addr = end - 4 /\ new.cur_op_index = op_index
        /\ new.jump_op_index = JumpTarget(Op(op_index), Arg(op_index), op_index)
        /\ new.addend = code_addr[op_index + 1] - end
    BY <2>2, <2>3, JumpOpIndexIsTarget DEF NewPatch
  <2>5. new \in RelocPatches
    <3>1. code_addr[op_index + 1] \in Nat /\ end - 4 \in Nat
      BY <1>2, <1>3, <1>14, <2>2
    <3> QED BY <3>1, <1>2, <2>2, <2>3, JumpOpIndexIsTarget DEF NewPatch, RelocPatches
  <2>6. /\ reloc_patch' \in Seq(RelocPatches) /\ Len(reloc_patch') = n
        /\ DOMAIN reloc_patch' = DOMAIN reloc_patch \cup {n} /\ n \notin DOMAIN reloc_patch
        /\ \A k \in DOMAIN reloc_patch : reloc_patch'[k] = reloc_patch[k] /\ k \in Nat /\ k < n
        /\ reloc_patch'[n] = new /\ n \in Nat \ {0}
    <3> HIDE DEF new
    <3> QED BY <1>3, <2>1, <2>5
  <2>7. DOMAIN rel32' = DOMAIN rel32 \cup {end - 4} /\ rel32'[end - 4] = rel32_dummy_value
        /\ \A z \in DOMAIN rel32 : z # end - 4 => rel32'[z] = rel32[z]
    <3> HIDE DEF end
    <3> QED BY <2>1 DEF With
  <2>8. CompileTypeOK'
    <3>1. /\ code' \in Programs /\ globals' \in Bindings /\ phase' \in CompilePhases
          /\ code_ptr' \in Nat /\ code_addr' \in Seq(0 .. CODE_AREA_SIZE)
          /\ Len(code_addr') <= n_op' /\ DOMAIN text' \subseteq Nat
      BY <1>1, <1>2, <1>3, <1>9 DEF IInv, CompileTypeOK, n_op
    <3>2. DOMAIN rel32' \subseteq Nat /\ \A a \in DOMAIN rel32' : rel32'[a] \in Int
      BY <1>2, <1>14, <2>7 DEF IInv, CompileTypeOK, rel32_dummy_value
    <3>3. n_patched' \in 0 .. Len(reloc_patch')
      BY <1>1, <2>6
    <3> QED BY <3>1, <3>2, <3>3, <2>6 DEF CompileTypeOK
  <2>9. ASSUME NEW k \in DOMAIN reloc_patch
        PROVE  PatchInv(k) /\ reloc_patch[k].addr \in Nat /\ reloc_patch[k].addr < end - 4
    <3>1. PatchInv(k) /\ reloc_patch[k].addr \in Nat
      BY <1>12 DEF RelocPatches
    <3> QED BY <3>1, <1>2, <1>14 DEF PatchInv
  <2>10. ASSUME NEW k \in DOMAIN reloc_patch' PROVE PatchInv(k)'
    <3>1. CASE k = n
      <4> HIDE DEF new
      <4>1. \A i : (Op(i))' = Op(i) /\ (Arg(i))' = Arg(i)
        BY <1>1 DEF Op, Arg
      <4>2. /\ op_index < Len(code_addr) /\ code_addr[op_index + 1] \in Nat /\ ~(n <= 0)
            /\ (end - 4) + 4 + (code_addr[op_index + 1] - end) = code_addr[op_index + 1]
            /\ end - 4 + 4 <= end
        BY <1>2, <1>3, <2>2, <2>6
      <4> QED BY <3>1, <4>1, <4>2, <1>1, <2>2, <2>4, <2>6, <2>7 DEF PatchInv
    <3>2. CASE k # n
      <4>1. k \in DOMAIN reloc_patch /\ reloc_patch'[k] = reloc_patch[k]
        BY <3>2, <2>6
      <4> QED BY <4>1, <2>9, <2>7, <1>1, <1>2 DEF PatchInv, Displacement, Op, Arg
    <3> QED BY <3>1, <3>2
  <2>11. PatchesAscend'
    BY <2>4, <2>6, <2>9 DEF IInv, CompileInv, PatchesAscend
  <2>12. JumpsPatched'
    <3> SUFFICES ASSUME NEW a \in DOMAIN text', IsJump(text'[a])
                 PROVE  \E k \in DOMAIN reloc_patch' :
                           /\ reloc_patch'[k].addr = a + InsLen(text'[a]) - 4
                           /\ OwnedBy(a, reloc_patch'[k].cur_op_index + 1)
      BY <1>11, Zenon DEF JumpsPatched
    <3>1. CASE a = code_ptr
      <4>1. reloc_patch'[n].addr = a + InsLen(text'[a]) - 4
        <5>1. text'[a] = ins
          BY <3>1, <1>7
        <5>2. reloc_patch'[n].addr = end - 4
          <6> HIDE DEF new, n, end
          <6> QED BY <2>4, <2>6
        <5>3. a + InsLen(text'[a]) = end
          <6> HIDE DEF ins
          <6> QED BY <3>1, <5>1
        <5>4. a \in Nat /\ InsLen(text'[a]) \in Nat
          BY <3>1, <1>2, InsLenType
        <5> HIDE DEF new, n, end
        <5> QED BY <5>2, <5>3, <5>4
      <4>2. OwnedBy(a, reloc_patch'[n].cur_op_index + 1)
        BY <3>1, <1>2, <1>3, <2>2, <2>4, <2>6, SMTT(20) DEF OwnedBy
      <4> QED BY <4>1, <4>2, <1>11, <2>6
    <3>2. CASE a # code_ptr
      <4>1. a \in DOMAIN text /\ text'[a] = text[a]
        BY <3>2, <1>7, <1>8
      <4>2. PICK k \in DOMAIN reloc_patch :
                   /\ reloc_patch[k].addr = a + InsLen(text[a]) - 4
                   /\ OwnedBy(a, reloc_patch[k].cur_op_index + 1)
        BY <4>1, <1>12 DEF JumpsPatched
      <4> QED BY <4>1, <4>2, <1>11, <2>6
    <3> QED BY <3>1, <3>2
  <2> QED BY <1>4, <1>6, <1>10, <2>8, <2>10, <2>11, <2>12 DEF IInv, CompileInv
<1> QED BY <1>13, <1>14

LEMMA BeginOp_IInv ==
  ASSUME IInv, BeginOp
  PROVE  IInv'
<1>1. /\ phase \in {"prologue", "ops"} /\ todo = <<>> /\ Len(code_addr) < n_op
      /\ code' = code /\ globals' = globals /\ code_ptr' = code_ptr /\ text' = text
      /\ rel32' = rel32 /\ reloc_patch' = reloc_patch /\ n_patched' = n_patched
      /\ n_patched = 0
  BY DEF BeginOp, IInv, CompileInv, PhaseInv
<1>2. /\ code \in Programs /\ globals \in Bindings /\ code_ptr \in Nat
      /\ code_addr \in Seq(0 .. CODE_AREA_SIZE) /\ code_addr \in Seq(Nat)
      /\ todo \in Seq(Instructions)
      /\ \A k \in DOMAIN reloc_patch : PatchInv(k) /\ reloc_patch[k] \in RelocPatches
      /\ PatchesAscend /\ JumpsPatched /\ PointerInv
  BY AreaAssumption DEF IInv, CompileInv, CompileTypeOK
<1>3. PatchesAscend'
  BY <1>1, <1>2 DEF PatchesAscend
<1>4. CASE phase' = "aborted" /\ UNCHANGED <<code_addr, todo>>
  <2>1. CompileTypeOK' /\ PhaseInv'
    BY <1>1, <1>4 DEF IInv, CompileInv, CompileTypeOK, CompilePhases, PhaseInv, n_op
  <2>2. PointerInv'
    BY <1>1, <1>2, <1>4 DEF PointerInv, Op, op_index
  <2>3. ASSUME NEW k \in DOMAIN reloc_patch' PROVE PatchInv(k)'
    BY <1>1, <1>2, <1>4 DEF PatchInv, Displacement, Op, Arg
  <2>4. JumpsPatched'
    BY <1>1, <1>2, <1>4 DEF JumpsPatched, OwnedBy
  <2> QED BY <1>2, <1>3, <1>4, <2>1, <2>2, <2>3, <2>4 DEF IInv, CompileInv
<1>5. CASE /\ RoomLeft /\ Compilable(Op(op_index + 1), Arg(op_index + 1), globals)
           /\ phase' = "ops" /\ code_addr' = Append(code_addr, code_ptr)
           /\ todo' = Template(Op(op_index + 1), Arg(op_index + 1), globals)
  <2> DEFINE m == Len(code_addr) + 1
  <2>1. /\ op_index + 1 \in 0 .. n_op - 1 /\ (op_index + 1) + 1 = m /\ m \in Nat \ {0}
        /\ m <= n_op
    <3>1. n_op \in Nat
      BY <1>2, ProgramsAssumption DEF n_op
    <3> QED BY <1>1, <1>2, <3>1 DEF op_index
  <2>2. code_ptr \in 0 .. CODE_AREA_SIZE
    BY <1>2, <1>5, AreaAssumption DEF RoomLeft
  <2>3. /\ code_addr' \in Seq(0 .. CODE_AREA_SIZE) /\ Len(code_addr') = m
        /\ DOMAIN code_addr' = DOMAIN code_addr \cup {m}
        /\ code_addr'[m] = code_ptr
        /\ \A i \in DOMAIN code_addr : code_addr'[i] = code_addr[i] /\ i \in Nat \ {0} /\ i < m
    BY <1>2, <1>5, <2>2
  <2>4. CompileTypeOK'
    BY <1>1, <1>5, <2>1, <2>3 DEF IInv, CompileTypeOK, CompilePhases, n_op
  <2>5. PhaseInv'
    BY <1>1, <1>5 DEF PhaseInv
  <2>6. /\ Op(op_index + 1) = Op(op_index)' /\ Arg(op_index + 1) \in Nat
        /\ Op(op_index + 1) = "LOAD_GLOBAL" => globals[Arg(op_index + 1) \div 2] \in Nat
    <3>1. (op_index + 1) + 1 \in DOMAIN code /\ Arg(op_index + 1) \in 0 .. 255
      BY <1>2, <2>1, OpTypes, Zenon
    <3>2. op_index' = op_index + 1
      BY <2>1, <2>3 DEF op_index
    <3>3. Op(op_index + 1) = Op(op_index)'
      BY <1>1, <3>2 DEF Op
    <3>4. Op(op_index + 1) = "LOAD_GLOBAL" => globals[Arg(op_index + 1) \div 2] \in Nat
      BY <1>2, <3>1, BindingsAssumption DEF Op, Arg
    <3> QED BY <3>1, <3>3, <3>4
  <2>7. /\ todo' \in Seq(Instructions)
        /\ Op(op_index + 1) \notin JumpOpcodes => todo' \in Block
    <3>1. /\ todo' \in Code
          /\ Op(op_index + 1) \notin JumpOpcodes => todo' \in Block
      BY <1>5, <2>6, TemplateType, Zenon
    <3> QED BY <3>1 DEF Code
  <2>8. PointerInv'
    <3>1. \A i \in DOMAIN code_addr' : code_addr'[i] <= code_ptr'
      BY <1>1, <1>2, <2>3 DEF PointerInv
    <3>2. \A a \in DOMAIN text' : a < code_ptr'
      BY <1>1, <1>2 DEF PointerInv
    <3>3. ASSUME NEW k \in DOMAIN todo', IsJump(todo'[k])
          PROVE  code_addr' # <<>> /\ Op(op_index)' \in JumpOpcodes
      <4>1. code_addr' # <<>>
        BY <2>1, <2>3
      <4>2. CASE Op(op_index + 1) \notin JumpOpcodes
        BY <3>3, <4>2, <2>7, StraightHasNoJump DEF Block
      <4> QED BY <4>1, <4>2, <2>6
    <3> QED BY <3>1, <3>2, <3>3 DEF PointerInv
  <2>9. ASSUME NEW k \in DOMAIN reloc_patch' PROVE PatchInv(k)'
    <3> DEFINE cur == reloc_patch[k].cur_op_index
    <3>1. PatchInv(k) /\ reloc_patch[k] \in RelocPatches /\ k \in Nat \ {0}
      BY <1>1, <1>2 DEF IInv, CompileTypeOK
    <3>2. cur + 1 \in DOMAIN code_addr /\ cur \in Nat
      BY <1>2, <3>1 DEF PatchInv, RelocPatches
    <3>3. code_addr'[cur + 1] = code_addr[cur + 1] /\ cur < Len(code_addr')
      BY <1>2, <2>3, <3>2
    <3>4. ~(k <= n_patched)
      BY <1>1, <3>1
    <3>5. \A i : Op(i)' = Op(i) /\ Arg(i)' = Arg(i)
      BY <1>1 DEF Op, Arg
    <3> QED BY <1>1, <3>1, <3>3, <3>4, <3>5 DEF PatchInv
  <2>10. JumpsPatched'
    <3> SUFFICES ASSUME NEW a \in DOMAIN text, IsJump(text[a])
                 PROVE  \E k \in DOMAIN reloc_patch :
                           /\ reloc_patch[k].addr = a + InsLen(text[a]) - 4
                           /\ OwnedBy(a, reloc_patch[k].cur_op_index + 1)'
      BY <1>1 DEF JumpsPatched
    <3>1. PICK k \in DOMAIN reloc_patch :
                 /\ reloc_patch[k].addr = a + InsLen(text[a]) - 4
                 /\ OwnedBy(a, reloc_patch[k].cur_op_index + 1)
      BY <1>2 DEF JumpsPatched
    <3> DEFINE i == reloc_patch[k].cur_op_index + 1
    <3>2. i \in DOMAIN code_addr
      BY <1>2 DEF PatchInv, RelocPatches
    <3>3. a < code_ptr
      BY <1>2 DEF PointerInv
    <3>4. code_addr'[i] <= a
      <4> HIDE DEF i
      <4> QED BY <3>1, <3>2, <2>3 DEF OwnedBy, i
    <3>5. i < Len(code_addr') => a < code_addr'[i + 1]
      <4>1. CASE i = Len(code_addr)
        <5> HIDE DEF i
        <5> QED BY <4>1, <3>3, <2>3
      <4>2. CASE i # Len(code_addr)
        <5>1. i + 1 \in DOMAIN code_addr /\ i < Len(code_addr)
          <6> HIDE DEF i
          <6> QED BY <1>2, <3>2, <4>2
        <5>2. a < code_addr[i + 1]
          BY <3>1, <5>1 DEF OwnedBy
        <5> HIDE DEF i
        <5> QED BY <2>3, <5>1, <5>2
      <4> QED BY <4>1, <4>2
    <3> QED BY <1>1, <3>1, <3>4, <3>5 DEF OwnedBy
  <2> QED BY <1>3, <2>4, <2>5, <2>7, <2>8, <2>9, <2>10 DEF IInv, CompileInv
<1> QED BY <1>4, <1>5 DEF BeginOp

LEMMA Patch_IInv ==
  ASSUME IInv, Patch
  PROVE  IInv' /\ phase' # "aborted"
<1> DEFINE p == n_patched + 1
<1>1. /\ phase = "reloc" /\ n_patched < Len(reloc_patch)
      /\ code' = code /\ globals' = globals /\ code_ptr' = code_ptr /\ text' = text
      /\ todo' = todo /\ code_addr' = code_addr /\ reloc_patch' = reloc_patch
  BY DEF Patch
<1>2. /\ code \in Programs /\ globals \in Bindings /\ code_ptr \in Nat
      /\ reloc_patch \in Seq(RelocPatches) /\ n_patched \in 0 .. Len(reloc_patch)
      /\ todo \in Seq(Instructions) /\ Len(code_addr) = n_op
      /\ \A k \in DOMAIN reloc_patch : PatchInv(k)
      /\ PatchesAscend /\ JumpsPatched /\ PointerInv
      /\ DOMAIN rel32 \subseteq Nat /\ \A a \in DOMAIN rel32 : rel32[a] \in Int
  BY <1>1 DEF IInv, CompileInv, CompileTypeOK, PhaseInv
<1>3. p \in DOMAIN reloc_patch /\ ~(p <= n_patched) /\ p \in 1 .. Len(reloc_patch)
  BY <1>1, <1>2
<1>4. Pending = reloc_patch[p] /\ Pending.addr \in DOMAIN rel32 /\ Pending.addr \in Nat
      /\ rel32[Pending.addr] = rel32_dummy_value
  <2>1. PatchInv(p)
    BY <1>2, <1>3
  <2> QED BY <1>2, <1>3, <2>1 DEF Pending, PatchInv
<1>5. /\ rel32' = [rel32 EXCEPT ![Pending.addr] = Displacement(Pending)]
      /\ n_patched' = p /\ phase' = phase
  BY <1>4 DEF Patch
<1>6. Displacement(Pending) \in Int
  BY <1>1, <1>3, <1>4, DisplacementType
<1>7. /\ DOMAIN rel32' = DOMAIN rel32 /\ rel32'[Pending.addr] = Displacement(Pending)
      /\ \A z \in DOMAIN rel32 : z # Pending.addr => rel32'[z] = rel32[z]
  BY <1>4, <1>5
<1>8. CompileTypeOK'
  <2>1. DOMAIN rel32' \subseteq Nat /\ \A a \in DOMAIN rel32' : rel32'[a] \in Int
    BY <1>2, <1>6, <1>7
  <2>2. n_patched' \in 0 .. Len(reloc_patch')
    BY <1>1, <1>2, <1>3, <1>5
  <2> QED BY <1>1, <1>5, <2>1, <2>2 DEF IInv, CompileTypeOK, n_op
<1>9. PhaseInv'
  BY <1>1, <1>2, <1>5 DEF PhaseInv, n_op
<1>10. PointerInv'
  BY <1>1, <1>2 DEF PointerInv, Op, op_index
<1>11. ASSUME NEW k \in DOMAIN reloc_patch' PROVE PatchInv(k)'
  <2>1. k \in 1 .. Len(reloc_patch) /\ PatchInv(k)
    BY <1>1, <1>2
  <2>2. \A i : Op(i)' = Op(i) /\ Arg(i)' = Arg(i)
    BY <1>1 DEF Op, Arg
  <2>3. \A rp : Displacement(rp)' = Displacement(rp)
    BY <1>1 DEF Displacement
  <2>4. CASE k = p
    BY <1>1, <1>3, <1>4, <1>5, <1>7, <2>1, <2>2, <2>3, <2>4 DEF PatchInv
  <2>5. CASE k # p
    <3>1. reloc_patch[k].addr # Pending.addr
      <4>1. k < p \/ p < k
        BY <2>1, <1>3, <2>5
      <4>2. reloc_patch[k] \in RelocPatches
        BY <1>2, <2>1
      <4>3. reloc_patch[k].addr \in Nat
        BY <4>2 DEF RelocPatches
      <4> QED BY <1>2, <1>3, <1>4, <2>1, <4>1, <4>3 DEF PatchesAscend
    <3>2. k <= n_patched <=> k <= p
      BY <1>2, <2>1, <2>5
    <3> QED BY <1>1, <1>5, <1>7, <2>1, <2>2, <2>3, <3>1, <3>2 DEF PatchInv
  <2> QED BY <2>4, <2>5
<1>12. PatchesAscend' /\ JumpsPatched'
  BY <1>1, <1>2 DEF PatchesAscend, JumpsPatched, OwnedBy
<1> QED BY <1>1, <1>2, <1>5, <1>8, <1>9, <1>10, <1>11, <1>12 DEF IInv, CompileInv

\* The actions that only change the phase.
LEMMA PhaseStep_IInv ==
  ASSUME IInv, Overrun \/ EndOps \/ EndReloc \/ UNCHANGED compileVars
  PROVE  IInv'
<1>1. UNCHANGED <<code, globals, todo, code_ptr, text, rel32, code_addr, reloc_patch, n_patched>>
  BY DEF Overrun, EndOps, EndReloc, compileVars
<1>2. \/ phase' = phase
      \/ phase' = "crashed"
      \/ phase' = "reloc" /\ Len(code_addr) = n_op
      \/ phase' = "ready" /\ phase = "reloc" /\ n_patched = Len(reloc_patch)
  BY DEF Overrun, EndOps, EndReloc, compileVars
<1>3. CompileTypeOK'
  BY <1>1, <1>2 DEF IInv, CompileTypeOK, CompilePhases, n_op
<1>4. PhaseInv'
  BY <1>1, <1>2 DEF IInv, CompileInv, PhaseInv, n_op
<1>5. PointerInv'
  BY <1>1 DEF IInv, CompileInv, PointerInv, Op, op_index
<1>6. ASSUME NEW k \in DOMAIN reloc_patch' PROVE PatchInv(k)'
  BY <1>1 DEF IInv, CompileInv, PatchInv, Displacement, Op, Arg
<1>7. PatchesAscend' /\ JumpsPatched'
  BY <1>1 DEF IInv, CompileInv, PatchesAscend, JumpsPatched, OwnedBy
<1> QED BY <1>1, <1>3, <1>4, <1>5, <1>6, <1>7 DEF IInv, CompileInv

-----------------------------------------------------------------------------
\* The theorems.

THEOREM CompilerInvariant == CompileSpec => []IInv
<1>1. CompileInit => IInv
  BY CompileInit_IInv
<1>2. IInv /\ [CompileNext]_compileVars => IInv'
  BY Emit_IInv, BeginOp_IInv, Patch_IInv, PhaseStep_IInv DEF CompileNext
<1> QED BY <1>1, <1>2, PTL DEF CompileSpec

\* The compiler's state has its types; in particular no op starts behind the end
\* of the area.
THEOREM CompileTypes == CompileSpec => []CompileTypeOK
<1>1. IInv => CompileTypeOK
  BY DEF IInv
<1> QED BY <1>1, CompilerInvariant, PTL

\* The list of patches describes the jumps throughout both passes.
THEOREM CompileBookkeeping == CompileSpec => []CompileInv
<1>1. IInv => CompileInv
  BY DEF IInv
<1> QED BY <1>1, CompilerInvariant, PTL

\* CHECK_EQ(*p, rel32_dummy_value) of the relocation pass never fails.
THEOREM RelocationSucceeds == CompileSpec => RelocNeverAborts
<1>1. ASSUME IInv, CompileNext, phase = "reloc" PROVE phase' # "aborted"
  <2>1. CASE Patch
    BY <1>1, <2>1, Patch_IInv
  <2>2. CASE EndReloc
    BY <2>2 DEF EndReloc
  <2>3. CASE Emit \/ Overrun \/ BeginOp \/ EndOps
    BY <1>1, <2>3 DEF Emit, Overrun, BeginOp, EndOps
  <2> QED BY <1>1, <2>1, <2>2, <2>3 DEF CompileNext
<1>2. IInv /\ [CompileNext]_compileVars =>
        [phase = "reloc" => phase' # "aborted"]_compileVars
  BY <1>1
<1> QED BY <1>2, CompilerInvariant, PTL DEF CompileSpec, RelocNeverAborts

LEMMA IInv_JumpsLand == IInv => JumpsLand
<1> SUFFICES ASSUME IInv, phase = "ready", NEW a \in DOMAIN text, IsJump(text[a])
             PROVE  \E i \in DOMAIN code_addr :
                      /\ OwnedBy(a, i)
                      /\ JumpTarget(code[i].op, code[i].arg, i - 1) + 1 \in DOMAIN code_addr
                      /\ a + InsLen(text[a]) + rel32[a + InsLen(text[a]) - 4]
                           = code_addr[JumpTarget(code[i].op, code[i].arg, i - 1) + 1]
  BY DEF JumpsLand
<1>1. PICK k \in DOMAIN reloc_patch :
             /\ reloc_patch[k].addr = a + InsLen(text[a]) - 4
             /\ OwnedBy(a, reloc_patch[k].cur_op_index + 1)
  BY DEF IInv, CompileInv, JumpsPatched
<1> DEFINE rp == reloc_patch[k]
           i  == rp.cur_op_index + 1
           j  == rp.jump_op_index + 1
<1>2. i \in DOMAIN code_addr /\ j \in DOMAIN code_addr
  BY DisplacementType
<1>3. /\ code_addr \in Seq(Nat) /\ rp \in RelocPatches /\ PatchInv(k)
      /\ k <= n_patched
  BY AreaAssumption DEF IInv, CompileTypeOK, CompileInv, PhaseInv
<1>4. a \in Nat /\ InsLen(text[a]) \in Nat
  BY InsLenType DEF IInv, CompileTypeOK
<1>5. /\ rp.jump_op_index = JumpTarget(code[i].op, code[i].arg, i - 1)
      /\ rp.addr + 4 + rp.addend = code_addr[i]
      /\ rel32[rp.addr] = code_addr[j] - code_addr[i] + rp.addend
  <2>1. i - 1 = rp.cur_op_index
    BY <1>3 DEF RelocPatches
  <2> QED BY <1>3, <2>1 DEF PatchInv, Displacement, Op, Arg
<1>6. a + InsLen(text[a]) = rp.addr + 4 /\ rp.addr = a + InsLen(text[a]) - 4
  BY <1>1, <1>4
<1>7. /\ code_addr[i] \in Nat /\ code_addr[j] \in Nat /\ rp.addr \in Nat /\ rp.addend \in Int
  BY <1>2, <1>3 DEF RelocPatches
<1>8. (rp.addr + 4) + rel32[rp.addr] = code_addr[j]
  BY <1>5, <1>7
<1> QED BY <1>1, <1>2, <1>5, <1>6, <1>8

\* Every jump of the code that is called leads where the bytecode does.
THEOREM JumpsLandRight == CompileSpec => []JumpsLand
  BY IInv_JumpsLand, CompilerInvariant, PTL
=============================================================================
