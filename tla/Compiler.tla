------------------------------- MODULE Compiler -------------------------------
(***************************************************************************)
(* The compile half of RaijitEvalFrame (src/src/raijit.cc): one pass over  *)
(* the bytecode that appends machine code to an mmapped area, then one     *)
(* pass over the relocations.                                              *)
(*                                                                         *)
(* Addresses are offsets from code_mem.  One step is one Write* call, so   *)
(* that what a check made between two of them can and cannot see is        *)
(* visible; the Write* calls an opcode still has to make are kept in todo. *)
(* The loop variable op_index is the index of the newest code_addr entry.  *)
(***************************************************************************)
EXTENDS Emitter

CONSTANTS
  Programs,        \* the bytecode sequences to compile: Seq of [op, arg]
  Bindings,        \* the name bindings to compile them under (see Emitter)
  CODE_AREA_SIZE   \* bytes mmapped for the code (4096 * 4 in the source)

ASSUME ProgramsAssumption ==
  /\ Programs \subseteq Seq([op : STRING, arg : 0 .. 255])
  /\ \A prog \in Programs : JumpsInside(prog)
ASSUME BindingsAssumption ==
  \A glob \in Bindings, prog \in Programs : \A i \in DOMAIN prog :
    prog[i].op = "LOAD_GLOBAL" => glob[prog[i].arg \div 2] \in Nat
ASSUME AreaAssumption == CODE_AREA_SIZE \in Nat

VARIABLES
  code,         \* co_code
  globals,      \* what LOAD_GLOBAL finds: name index -> version of the binding
  phase,        \* where RaijitEvalFrame is
  todo,         \* Write* calls left of the prologue or of the current opcode
  code_ptr,     \* next free byte
  text,         \* the instructions written, by offset
  rel32,        \* the rel32 operands in text, by the offset of their four bytes
  code_addr,    \* where the code of each op starts
  reloc_patch,  \* the RelocPatch records
  n_patched     \* how many of them have been applied

compileVars ==
  <<code, globals, phase, todo, code_ptr, text, rel32, code_addr, reloc_patch, n_patched>>

\* 0xdeadbeef as an int32_t.
rel32_dummy_value == -559038737

n_op     == Len(code)
op_index == Len(code_addr) - 1
Op(i)    == code[i + 1].op
Arg(i)   == code[i + 1].arg

Prologue == <<WriteEndbr64, WritePushRbp, WriteMovRspToRbp>>

CompileInit ==
  /\ code \in Programs
  /\ globals \in Bindings
  /\ phase = "prologue"
  /\ todo = Prologue
  /\ code_ptr = 0
  /\ text = <<>>
  /\ rel32 = <<>>
  /\ code_addr = <<>>
  /\ reloc_patch = <<>>
  /\ n_patched = 0

-----------------------------------------------------------------------------
\* f with x mapped to y, whether or not x is in its domain yet.
With(f, x, y) == [z \in DOMAIN f \cup {x} |-> IF z = x THEN y ELSE f[z]]

\* The emplace_back behind a jump that ends at end: the rel32 is the last four
\* bytes, the addend leads from behind the jump back to the head of the op.
NewPatch(end) ==
  [addr          |-> end - 4,
   cur_op_index  |-> op_index,
   jump_op_index |-> JumpOpIndex(Op(op_index), Arg(op_index), op_index),
   addend        |-> code_addr[op_index + 1] - end]

\* A Write* call, and what follows it when it wrote a jump.
Emit ==
  /\ phase \in {"prologue", "ops"}
  /\ todo # <<>>
  /\ LET ins == Head(todo)
         end == code_ptr + InsLen(ins)
     IN  /\ text' = With(text, code_ptr, ins)
         /\ code_ptr' = end
         /\ IF IsJump(ins)
            THEN /\ rel32' = With(rel32, end - 4, rel32_dummy_value)
                 /\ reloc_patch' = Append(reloc_patch, NewPatch(end))
            ELSE UNCHANGED <<rel32, reloc_patch>>
  /\ todo' = Tail(todo)
  /\ UNCHANGED <<code, globals, phase, code_addr, n_patched>>

\* The same call when the instruction does not fit: nothing checks it, and the
\* bytes behind the area may be unmapped.
Overrun ==
  /\ phase \in {"prologue", "ops"}
  /\ todo # <<>>
  /\ code_ptr + InsLen(Head(todo)) > CODE_AREA_SIZE
  /\ phase' = "crashed"
  /\ UNCHANGED <<code, globals, todo, code_ptr, text, rel32, code_addr, reloc_patch, n_patched>>

\* Mutant: no check.
NoRoomCheck == TRUE
\* CHECK_LE at the head of the loop over the ops.
RoomLeft == code_ptr <= CODE_AREA_SIZE

\* The head of the loop: CHECK_LE, emplace_back, switch.
BeginOp ==
  /\ phase \in {"prologue", "ops"}
  /\ todo = <<>>
  /\ Len(code_addr) < n_op
  /\ IF RoomLeft /\ Compilable(Op(op_index + 1), Arg(op_index + 1), globals)
     THEN /\ phase' = "ops"
          /\ code_addr' = Append(code_addr, code_ptr)
          /\ todo' = Template(Op(op_index + 1), Arg(op_index + 1), globals)
     ELSE /\ phase' = "aborted"
          /\ UNCHANGED <<code_addr, todo>>
  /\ UNCHANGED <<code, globals, code_ptr, text, rel32, reloc_patch, n_patched>>

EndOps ==
  /\ phase \in {"prologue", "ops"}
  /\ todo = <<>>
  /\ Len(code_addr) = n_op
  /\ phase' = "reloc"
  /\ UNCHANGED <<code, globals, todo, code_ptr, text, rel32, code_addr, reloc_patch, n_patched>>

\* Mutant: taken from the head of the jump op instead of from behind the jump.
DisplacementNoAddend(rp) ==
  code_addr[rp.jump_op_index + 1] - code_addr[rp.cur_op_index + 1]
\* The value a patch stores; "v" in the source.
Displacement(rp) ==
  code_addr[rp.jump_op_index + 1] - code_addr[rp.cur_op_index + 1] + rp.addend

\* Mutant: always the first one.
PendingFirst == reloc_patch[1]
\* The patch whose turn it is.
Pending == reloc_patch[n_patched + 1]

\* One round of the loop over reloc_patch: CHECK_EQ, then the store.
Patch ==
  /\ phase = "reloc"
  /\ n_patched < Len(reloc_patch)
  /\ IF rel32[Pending.addr] = rel32_dummy_value
     THEN /\ rel32' = [rel32 EXCEPT ![Pending.addr] = Displacement(Pending)]
          /\ n_patched' = n_patched + 1
          /\ UNCHANGED phase
     ELSE /\ phase' = "aborted"
          /\ UNCHANGED <<rel32, n_patched>>
  /\ UNCHANGED <<code, globals, todo, code_ptr, text, code_addr, reloc_patch>>

\* compile_success: the area is disassembled and called.
EndReloc ==
  /\ phase = "reloc"
  /\ n_patched = Len(reloc_patch)
  /\ phase' = "ready"
  /\ UNCHANGED <<code, globals, todo, code_ptr, text, rel32, code_addr, reloc_patch, n_patched>>

CompileNext == Emit \/ Overrun \/ BeginOp \/ EndOps \/ Patch \/ EndReloc

\* RaijitEvalFrame runs straight through its loops.
CompileSpec == CompileInit /\ [][CompileNext]_compileVars /\ WF_compileVars(CompileNext)
-----------------------------------------------------------------------------
(***************************************************************************)
(* Properties.                                                             *)
(***************************************************************************)

CompilePhases == {"prologue", "ops", "reloc", "ready", "aborted", "crashed"}

RelocPatches == [addr : Nat, cur_op_index : Nat, jump_op_index : Nat, addend : Int]

\* The types of the compiler's state.  That no op starts behind the end of the
\* area is what CHECK_LE is there for: whatever is written past the end is code
\* of one op only.
CompileTypeOK ==
  /\ code \in Programs
  /\ globals \in Bindings
  /\ phase \in CompilePhases
  /\ code_ptr \in Nat
  /\ DOMAIN text \subseteq Nat
  /\ DOMAIN rel32 \subseteq Nat
  /\ \A a \in DOMAIN rel32 : rel32[a] \in Int
  /\ code_addr \in Seq(0 .. CODE_AREA_SIZE)
  /\ Len(code_addr) <= n_op
  /\ reloc_patch \in Seq(RelocPatches)
  /\ n_patched \in 0 .. Len(reloc_patch)

\* The op, counted from 1, whose code a byte at a belongs to.
OwnedBy(a, i) ==
  /\ code_addr[i] <= a
  /\ i < Len(code_addr) => a < code_addr[i + 1]

\* When the code is about to be called, every jump in it has been relocated, and
\* it leads to the first byte of the op that CPython's own arithmetic says the
\* bytecode jumps to.  (The operands and their patches are separate, op indices
\* and addresses are, and FOR_ITER and JUMP_BACKWARD count caches differently.)
JumpsLand ==
  phase = "ready" =>
    \A a \in DOMAIN text : IsJump(text[a]) =>
      \E i \in DOMAIN code_addr :
        /\ OwnedBy(a, i)
        /\ JumpTarget(code[i].op, code[i].arg, i - 1) + 1 \in DOMAIN code_addr
        /\ a + InsLen(text[a]) + rel32[a + InsLen(text[a]) - 4]
             = code_addr[JumpTarget(code[i].op, code[i].arg, i - 1) + 1]

\* Where the compiler is: what its bookkeeping looks like in each phase.
PhaseInv ==
  /\ phase = "prologue" => code_addr = <<>>
  /\ phase \in {"prologue", "ops"} => n_patched = 0
  /\ phase \in {"reloc", "ready"} => Len(code_addr) = n_op
  /\ phase = "ready" => n_patched = Len(reloc_patch)

\* code_ptr is behind everything written, and only a jump op writes jumps.
PointerInv ==
  /\ \A i \in DOMAIN code_addr : code_addr[i] <= code_ptr
  /\ \A a \in DOMAIN text : a < code_ptr
  /\ \A k \in DOMAIN todo :
       IsJump(todo[k]) => code_addr # <<>> /\ Op(op_index) \in JumpOpcodes

\* A RelocPatch names a jump op and where it leads, its addend leads from behind
\* the operand to the head of that op, and the operand is the dummy until the
\* patch has been applied.
PatchInv(k) ==
  LET rp == reloc_patch[k]
      cur == rp.cur_op_index
  IN  /\ cur < Len(code_addr)
      /\ Op(cur) \in JumpOpcodes
      /\ rp.jump_op_index = JumpTarget(Op(cur), Arg(cur), cur)
      /\ rp.addr + 4 + rp.addend = code_addr[cur + 1]
      /\ rp.addr + 4 <= code_ptr
      /\ rp.addr \in DOMAIN rel32
      /\ rel32[rp.addr] = IF k <= n_patched THEN Displacement(rp) ELSE rel32_dummy_value

\* The operands of the patches are in the order of the code, so no two are one.
PatchesAscend ==
  \A j, k \in DOMAIN reloc_patch : j < k => reloc_patch[j].addr < reloc_patch[k].addr

\* Every jump in the code has a patch that names the op it belongs to.
JumpsPatched ==
  \A a \in DOMAIN text : IsJump(text[a]) =>
    \E k \in DOMAIN reloc_patch :
      /\ reloc_patch[k].addr = a + InsLen(text[a]) - 4
      /\ OwnedBy(a, reloc_patch[k].cur_op_index + 1)

\* The jumps of the code and the list of patches agree throughout the two
\* passes: why the code is right when it is called.  Inductive, together with
\* CompileTypeOK and the type of todo (CompilerProofs).
CompileInv ==
  /\ PhaseInv
  /\ PointerInv
  /\ \A k \in DOMAIN reloc_patch : PatchInv(k)
  /\ PatchesAscend
  /\ JumpsPatched

\* CHECK_EQ(*p, rel32_dummy_value) never fails: no two patches share an operand,
\* and each points at the operand of a jump.
RelocNeverAborts == [][phase = "reloc" => phase' # "aborted"]_compileVars

\* A function all of whose ops have a case, and whose code fits the area, is
\* compiled in the end.
CompileEnds ==
  <>(\/ phase = "ready"
     \/ Len(code_addr) < n_op /\ ~Compilable(Op(op_index + 1), Arg(op_index + 1), globals)
     \/ todo # <<>> /\ code_ptr + InsLen(Head(todo)) > CODE_AREA_SIZE
     \/ todo = <<>> /\ code_ptr > CODE_AREA_SIZE)

\* What CHECK_LE(code_ptr, code_mem + CODE_AREA_SIZE) asserts, taken at the end
\* of the pass: the code handed to Disasm and called lies inside the area.
CodeInsideArea == phase = "ready" => code_ptr <= CODE_AREA_SIZE
=============================================================================
