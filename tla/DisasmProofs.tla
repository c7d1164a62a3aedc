----------------------------- MODULE DisasmProofs -----------------------------
(***************************************************************************)
(* Proofs about the listing, whatever was compiled: the code is tiled by   *)
(* its instructions, and the listing prints each of them once, with the    *)
(* comments of the ops where their code starts.                            *)
(***************************************************************************)
EXTENDS Disasm, CompilerProofs

\* The inductive invariant: the compiler's and the listing's.
DisasmInv == IInv /\ CodeTiled /\ ListingPosition /\ ListingFaithful

-----------------------------------------------------------------------------
\* Facts about data.

LEMMA AsCharFacts ==
  ASSUME NEW byte \in 0 .. 255
  PROVE  AsChar(byte) % 256 = byte
<1>1. CASE byte < 128
  <2>1. (byte + 128) % 256 = byte + 128
    BY <1>1
  <2> QED BY <2>1 DEF AsChar
<1>2. CASE byte >= 128
  <2>1. (byte + 128) % 256 = byte - 128
    BY <1>2
  <2> QED BY <1>2, <2>1 DEF AsChar
<1> QED BY <1>1, <1>2

\* The case of an op emits something.
LEMMA BeginOpEmits ==
  ASSUME IInv, BeginOp, phase' # "aborted"
  PROVE  todo' # <<>>
<1>1. /\ code \in Programs /\ globals \in Bindings /\ code_addr \in Seq(Nat)
      /\ Len(code_addr) < n_op
  BY AreaAssumption DEF IInv, CompileTypeOK, BeginOp
<1>2. /\ Compilable(Op(op_index + 1), Arg(op_index + 1), globals)
      /\ todo' = Template(Op(op_index + 1), Arg(op_index + 1), globals)
  BY DEF BeginOp
<1>3. op_index + 1 \in 0 .. n_op - 1
  <2>1. n_op \in Nat
    BY <1>1, ProgramsAssumption DEF n_op
  <2> QED BY <1>1, <2>1 DEF op_index
<1>4. (op_index + 1) + 1 \in DOMAIN code /\ Arg(op_index + 1) \in 0 .. 255
  BY <1>1, <1>3, OpTypes, Zenon
<1>5. Arg(op_index + 1) \in Nat
  BY <1>4
<1>6. Op(op_index + 1) = "LOAD_GLOBAL" => globals[Arg(op_index + 1) \div 2] \in Nat
  BY <1>1, <1>4, BindingsAssumption DEF Op, Arg
<1>7. todo' \in Code
  BY <1>2, <1>5, <1>6, TemplateType, Zenon
<1> QED BY <1>7 DEF Code

-----------------------------------------------------------------------------
\* The compiler tiles the code.

LEMMA Emit_CodeTiled ==
  ASSUME IInv, CodeTiled, Emit
  PROVE  CodeTiled'
<1> DEFINE ins == Head(todo)
           end == code_ptr + InsLen(ins)
<1>1. /\ text' = With(text, code_ptr, ins) /\ code_ptr' = end /\ code_addr' = code_addr
      /\ phase' = phase /\ phase \in {"prologue", "ops"}
  BY DEF Emit
<1>2. /\ code_ptr \in Nat /\ InsLen(ins) \in 1 .. 15
      /\ \A a \in DOMAIN text : a \in Nat /\ a < code_ptr /\ InsLen(text[a]) \in 1 .. 15
      /\ code_addr \in Seq(Nat)
      /\ \A i \in DOMAIN code_addr : code_addr[i] \in Nat /\ code_addr[i] <= code_ptr
  BY AreaAssumption, InsLenType DEF IInv, CompileTypeOK, CompileInv, PointerInv
<1>3. end \in Nat /\ end > code_ptr
  <2> HIDE DEF ins
  <2> QED BY <1>2
<1>4. /\ DOMAIN text' = DOMAIN text \cup {code_ptr} /\ text'[code_ptr] = ins
      /\ \A a \in DOMAIN text : text'[a] = text[a]
  <2>1. \A a \in DOMAIN text : a # code_ptr
    BY <1>2
  <2> HIDE DEF ins, end
  <2> QED BY <1>1, <2>1 DEF With
<1>5. ASSUME NEW a \in DOMAIN text'
      PROVE  a + InsLen(text'[a]) \in DOMAIN text' \cup {end}
  <2>1. CASE a = code_ptr
    BY <1>4, <2>1
  <2>2. CASE a # code_ptr
    <3> HIDE DEF end
    <3> QED BY <1>4, <2>2 DEF CodeTiled
  <2> QED BY <2>1, <2>2
<1>6. ASSUME NEW a \in DOMAIN text', NEW b \in DOMAIN text', a < b
      PROVE  a + InsLen(text'[a]) <= b
  <2>1. a \in DOMAIN text /\ text'[a] = text[a]
    BY <1>2, <1>4, <1>6
  <2>2. CASE b = code_ptr
    <3>1. a + InsLen(text[a]) \in DOMAIN text \cup {code_ptr}
      BY <2>1 DEF CodeTiled
    <3> QED BY <1>2, <2>1, <2>2, <3>1
  <2>3. CASE b # code_ptr
    BY <1>4, <1>6, <2>1, <2>3 DEF CodeTiled
  <2> QED BY <2>2, <2>3
<1>7. \A i \in DOMAIN code_addr : code_addr[i] \in DOMAIN text' /\ code_addr[i] < end
  <2> HIDE DEF end
  <2> QED BY <1>2, <1>3, <1>4 DEF CodeTiled
<1>8. 0 \in DOMAIN text' \cup {end}
  BY <1>4 DEF CodeTiled
<1>9. \A i, j \in DOMAIN code_addr : i < j => code_addr[i] < code_addr[j]
  BY DEF CodeTiled
<1> HIDE DEF ins, end
<1> QED BY <1>1, <1>5, <1>6, <1>7, <1>8, <1>9 DEF CodeTiled

LEMMA BeginOp_CodeTiled ==
  ASSUME IInv, CodeTiled, BeginOp
  PROVE  CodeTiled'
<1>1. /\ UNCHANGED <<code_ptr, text>> /\ todo = <<>> /\ phase' \in {"ops", "aborted"}
  BY DEF BeginOp
<1>2. CASE phase' = "aborted"
  <2>1. UNCHANGED <<code_addr, todo>>
    BY <1>2 DEF BeginOp
  <2> QED BY <1>1, <1>2, <2>1 DEF CodeTiled
<1>3. CASE phase' # "aborted"
  <2>1. todo' # <<>>
    BY <1>3, BeginOpEmits
  <2>2. code_addr' = Append(code_addr, code_ptr)
    BY <1>3 DEF BeginOp
  <2>3. code_addr \in Seq(Nat) /\ code_ptr \in Nat
    BY AreaAssumption DEF IInv, CompileTypeOK
  <2> DEFINE m == Len(code_addr) + 1
  <2>4. /\ DOMAIN code_addr' = DOMAIN code_addr \cup {m} /\ code_addr'[m] = code_ptr
        /\ \A i \in DOMAIN code_addr : code_addr'[i] = code_addr[i] /\ i \in Nat /\ i < m
        /\ m \in Nat
    BY <2>2, <2>3
  <2> HIDE DEF m
  <2>5. \A i \in DOMAIN code_addr' : code_addr'[i] \in DOMAIN text \cup {code_ptr}
    BY <2>4 DEF CodeTiled
  <2>6. ASSUME NEW i \in DOMAIN code_addr', NEW j \in DOMAIN code_addr', i < j
        PROVE  code_addr'[i] < code_addr'[j]
    <3>1. i \in DOMAIN code_addr
      BY <2>4, <2>6
    <3>2. CASE j = m
      BY <1>1, <2>4, <3>1, <3>2 DEF CodeTiled
    <3>3. CASE j # m
      BY <2>4, <2>6, <3>1, <3>3 DEF CodeTiled
    <3> QED BY <3>2, <3>3
  <2> QED BY <1>1, <1>3, <2>1, <2>5, <2>6 DEF CodeTiled
<1> QED BY <1>2, <1>3

LEMMA CompileNext_CodeTiled ==
  ASSUME IInv, CodeTiled, [CompileNext]_compileVars
  PROVE  CodeTiled'
<1>1. CASE Emit
  BY <1>1, Emit_CodeTiled
<1>2. CASE BeginOp
  BY <1>2, BeginOp_CodeTiled
<1>3. CASE Overrun \/ EndOps \/ Patch \/ EndReloc \/ UNCHANGED compileVars
  <2>1. /\ UNCHANGED <<code_ptr, text, code_addr, todo>>
        /\ phase' \in {"reloc", "ready"} => todo = <<>>
    BY <1>3 DEF Overrun, EndOps, Patch, EndReloc, compileVars, CodeTiled
  <2> QED BY <2>1 DEF CodeTiled
<1> QED BY <1>1, <1>2, <1>3 DEF CompileNext

-----------------------------------------------------------------------------
\* Before the code is ready the listing has not begun.
LEMMA CompileStep_ListingInv ==
  ASSUME DisasmInv, CodeTiled', IInv', CompileStep \/ UNCHANGED disasmVars
  PROVE  ListingPosition' /\ ListingFaithful'
<1>1. UNCHANGED listVars
  BY DEF CompileStep, disasmVars
<1>2. CASE CompileStep
  <2>1. phase # "ready"
    BY <1>2 DEF CompileStep, CompileNext, Emit, Overrun, BeginOp, EndOps, Patch, EndReloc
  <2>2. /\ offset = 0 /\ opcode_count = 0 /\ listing = <<>>
        /\ offset' = 0 /\ opcode_count' = 0 /\ listing' = <<>>
    BY <1>1, <2>1 DEF DisasmInv, ListingPosition, listVars
  <2>3. /\ \A a \in DOMAIN text' : a \in Nat
        /\ code_addr' \in Seq(Nat)
        /\ \A i \in DOMAIN code_addr' : code_addr'[i] \in Nat /\ i \in Nat \ {0}
        /\ Len(code_addr') \in Nat
    BY AreaAssumption DEF IInv, CompileTypeOK
  <2>4. ListingPosition'
    BY <2>2, <2>3 DEF ListingPosition, CodeTiled
  <2>5. DOMAIN listing' = {a \in DOMAIN text' : a < offset'}
    <3>1. DOMAIN <<>> = {}
      OBVIOUS
    <3>2. {a \in DOMAIN text' : a < 0} = {}
      BY <2>3
    <3> QED BY <2>2, <3>1, <3>2
  <2>6. \A i \in DOMAIN code_addr' : ~(code_addr'[i] < offset')
    BY <2>2, <2>3
  <2>7. \A a \in DOMAIN listing' : FALSE
    BY <2>2
  <2> QED BY <2>4, <2>5, <2>6, <2>7 DEF ListingFaithful
<1>3. CASE UNCHANGED disasmVars
  BY <1>3 DEF DisasmInv, ListingPosition, ListingFaithful, disasmVars, listVars, compileVars,
             Op, Arg
<1> QED BY <1>2, <1>3

\* A round of the loop.
LEMMA ListInstruction_ListingInv ==
  ASSUME DisasmInv, ListInstruction
  PROVE  DisasmInv'
<1> DEFINE next == offset + InsLen(text[offset])
<1>1. /\ phase = "ready" /\ offset < code_ptr /\ UNCHANGED compileVars
  BY DEF ListInstruction
<1>2. /\ IInv' /\ CodeTiled'
  <2>1. CodeTiled'
    BY <1>1 DEF DisasmInv, CodeTiled, compileVars
  <2>2. IInv'
    BY <1>1, PhaseStep_IInv DEF DisasmInv
  <2> QED BY <2>1, <2>2
<1>3. /\ \A a \in DOMAIN text : a \in Nat /\ a < code_ptr /\ InsLen(text[a]) \in 1 .. 15
      /\ code_ptr \in Nat /\ code_addr \in Seq(Nat)
      /\ \A i \in DOMAIN code_addr : code_addr[i] \in Nat /\ i \in Nat \ {0}
      /\ Len(code_addr) = n_op /\ n_op \in Nat /\ code \in Programs
  BY <1>1, AreaAssumption, InsLenType
     DEF DisasmInv, IInv, CompileTypeOK, CompileInv, PointerInv, PhaseInv
<1>4. offset \in DOMAIN text /\ offset \in Nat /\ next \in Nat /\ next > offset
  <2>1. offset \in DOMAIN text
    BY <1>1, <1>3 DEF DisasmInv, ListingPosition
  <2> QED BY <1>3, <2>1, SMTT(20)
<1>5. next \in DOMAIN text \cup {code_ptr} /\ next <= code_ptr
  <2>1. next \in DOMAIN text \cup {code_ptr}
    BY <1>4 DEF DisasmInv, CodeTiled
  <2> HIDE DEF next
  <2> QED BY <1>3, <2>1
<1>6. ASSUME NEW a \in DOMAIN text \cup {code_ptr}, a > offset
      PROVE  a >= next
  <2>1. CASE a \in DOMAIN text
    BY <1>4, <1>6, <2>1 DEF DisasmInv, CodeTiled
  <2>2. CASE a = code_ptr
    BY <1>3, <1>4, <1>5, <2>2
  <2> QED BY <2>1, <2>2
<1>7. {a \in DOMAIN text : a < next} = {a \in DOMAIN text : a < offset} \cup {offset}
  <2> HIDE DEF next
  <2> QED BY <1>3, <1>4, <1>6
<1>8. /\ opcode_count \in Nat /\ opcode_count <= n_op
      /\ \A i \in DOMAIN code_addr : code_addr[i] < offset <=> i <= opcode_count
      /\ DOMAIN listing = {a \in DOMAIN text : a < offset}
  BY <1>1, <1>3 DEF DisasmInv, ListingPosition, ListingFaithful
<1>9. PICK head \in HeadOfNextOp :
       IF OpStarts(head)
       THEN IF HasName(Op(opcode_count))
            THEN /\ listing' = With(listing, offset, Comment(opcode_count))
                 /\ opcode_count' = opcode_count + 1
                 /\ offset' = next
            ELSE UNCHANGED <<offset, opcode_count, listing>>
       ELSE /\ listing' = With(listing, offset, NoComment)
            /\ offset' = next
            /\ UNCHANGED opcode_count
  BY DEF ListInstruction
<1>10. /\ code_addr' = code_addr /\ text' = text /\ code_ptr' = code_ptr /\ phase' = phase
       /\ \A i : Op(i)' = Op(i) /\ Arg(i)' = Arg(i)
  BY <1>1 DEF compileVars, Op, Arg
<1> HIDE DEF next
\* Whatever is printed: every instruction in front of next, and the ops behind
\* offset start at next or later.
<1>11. ASSUME NEW comment, listing' = With(listing, offset, comment), offset' = next
       PROVE  /\ DOMAIN listing' = {a \in DOMAIN text : a < next}
              /\ listing'[offset] = comment
              /\ \A a \in DOMAIN listing : listing'[a] = listing[a] /\ a # offset
              /\ \A i \in DOMAIN code_addr : code_addr[i] < next <=> code_addr[i] <= offset
  <2>1. DOMAIN listing' = DOMAIN listing \cup {offset} /\ listing'[offset] = comment
    BY <1>11 DEF With
  <2>2. \A a \in DOMAIN listing : a # offset
    BY <1>3, <1>4, <1>8
  <2>3. \A a \in DOMAIN listing : listing'[a] = listing[a]
    BY <1>11, <2>2 DEF With
  <2>4. ASSUME NEW i \in DOMAIN code_addr
        PROVE  code_addr[i] < next <=> code_addr[i] <= offset
    <3>1. code_addr[i] \in DOMAIN text \cup {code_ptr}
      BY DEF DisasmInv, CodeTiled
    <3> QED BY <1>3, <1>4, <1>6, <3>1
  <2> QED BY <1>7, <1>8, <2>1, <2>2, <2>3, <2>4
<1>12. CASE OpStarts(head) /\ HasName(Op(opcode_count))
  <2> DEFINE c == opcode_count + 1
  <2>1. /\ listing' = With(listing, offset, Comment(opcode_count))
        /\ opcode_count' = c /\ offset' = next
    BY <1>9, <1>12
  <2>2. c \in DOMAIN code_addr /\ code_addr[c] = offset
    BY <1>3, <1>8, <1>9, <1>12 DEF OpStarts, HeadOfNextOp
  <2> HIDE DEF c
  <2>3. \A i \in DOMAIN code_addr : code_addr[i] <= offset <=> i <= c
    <3> SUFFICES ASSUME NEW i \in DOMAIN code_addr
                 PROVE  code_addr[i] <= offset <=> i <= c
      OBVIOUS
    <3>1. CASE i < c
      <4>1. code_addr[i] < code_addr[c]
        BY <2>2, <3>1 DEF DisasmInv, CodeTiled
      <4> QED BY <1>3, <2>2, <3>1, <4>1
    <3>2. CASE c < i
      <4>1. code_addr[c] < code_addr[i]
        BY <2>2, <3>2 DEF DisasmInv, CodeTiled
      <4> QED BY <1>3, <2>2, <3>2, <4>1
    <3>3. CASE i = c
      BY <1>3, <2>2, <3>3
    <3> QED BY <1>3, <2>2, <3>1, <3>2, <3>3
  <2>4. /\ DOMAIN listing' = {a \in DOMAIN text : a < next}
        /\ listing'[offset] = Comment(opcode_count)
        /\ \A a \in DOMAIN listing : listing'[a] = listing[a] /\ a # offset
        /\ \A i \in DOMAIN code_addr : code_addr[i] < next <=> i <= c
    BY <1>11, <2>1, <2>3
  <2>5. ListingPosition'
    BY <1>3, <1>5, <1>10, <1>1, <2>1, <2>2, <2>4 DEF ListingPosition
  <2>6. ASSUME NEW i \in DOMAIN code_addr, code_addr[i] < next
        PROVE  /\ listing'[code_addr[i]].op = Op(i - 1)
               /\ listing'[code_addr[i]].oprand % 256 = Arg(i - 1)
    <3>1. CASE i = c
      <4>1. i - 1 = opcode_count /\ opcode_count \in 0 .. n_op - 1
        BY <1>3, <1>8, <2>2, <3>1 DEF c
      <4>2. Arg(opcode_count) \in 0 .. 255
        BY <1>3, <4>1, OpTypes, Zenon
      <4>3. /\ Comment(opcode_count).op = Op(opcode_count)
            /\ Comment(opcode_count).oprand % 256 = Arg(opcode_count)
        BY <4>2, AsCharFacts DEF Comment
      <4> QED BY <2>2, <2>4, <3>1, <4>1, <4>3
    <3>2. CASE i # c
      <4>1. i <= opcode_count
        BY <1>3, <1>8, <2>2, <2>4, <2>6, <3>2 DEF c
      <4>2. code_addr[i] < offset /\ code_addr[i] \in DOMAIN listing
        <5>1. code_addr[i] < offset
          BY <1>8, <4>1
        <5>2. code_addr[i] \in DOMAIN text \cup {code_ptr}
          BY DEF DisasmInv, CodeTiled
        <5> QED BY <1>1, <1>3, <1>4, <1>8, <5>1, <5>2
      <4> QED BY <1>1, <2>4, <4>2 DEF DisasmInv, ListingFaithful
    <3> QED BY <3>1, <3>2
  <2>7. ASSUME NEW a \in DOMAIN listing', listing'[a] # NoComment
        PROVE  \E i \in DOMAIN code_addr : code_addr[i] = a
    <3>1. CASE a = offset
      BY <2>2, <3>1
    <3>2. CASE a # offset
      <4>1. a \in DOMAIN listing
        BY <1>7, <1>8, <2>4, <3>2
      <4> QED BY <1>1, <2>4, <2>7, <4>1 DEF DisasmInv, ListingFaithful
    <3> QED BY <3>1, <3>2
  <2>8. ListingFaithful'
    BY <1>10, <2>1, <2>4, <2>6, <2>7 DEF ListingFaithful
  <2> QED BY <1>2, <2>5, <2>8 DEF DisasmInv
<1>13. CASE OpStarts(head) /\ ~HasName(Op(opcode_count))
  <2>1. UNCHANGED <<offset, opcode_count, listing>>
    BY <1>9, <1>13
  <2> QED BY <1>1, <1>2, <1>10, <2>1 DEF DisasmInv, ListingPosition, ListingFaithful
<1>14. CASE ~OpStarts(head)
  <2>1. /\ listing' = With(listing, offset, NoComment) /\ offset' = next
        /\ opcode_count' = opcode_count
    BY <1>9, <1>14
\* No op starts here: the next one would be found.
  <2>2. \A i \in DOMAIN code_addr : code_addr[i] # offset
    <3> SUFFICES ASSUME NEW i \in DOMAIN code_addr, code_addr[i] = offset
                 PROVE  FALSE
      OBVIOUS
    <3>1. i > opcode_count /\ opcode_count < n_op
      BY <1>3, <1>4, <1>8
    <3>2. opcode_count + 1 \in DOMAIN code_addr /\ code_addr[opcode_count + 1] # offset
      BY <1>3, <1>8, <1>9, <1>14, <3>1 DEF OpStarts, HeadOfNextOp
    <3>3. ~(code_addr[opcode_count + 1] < offset)
      BY <1>8, <3>2
    <3>4. opcode_count + 1 < i
      BY <1>3, <1>8, <3>1, <3>2
    <3>5. code_addr[opcode_count + 1] < code_addr[i]
      BY <3>2, <3>4 DEF DisasmInv, CodeTiled
    <3> QED BY <3>3, <3>5
  <2>3. /\ DOMAIN listing' = {a \in DOMAIN text : a < next}
        /\ listing'[offset] = NoComment
        /\ \A a \in DOMAIN listing : listing'[a] = listing[a] /\ a # offset
        /\ \A i \in DOMAIN code_addr : code_addr[i] < next <=> code_addr[i] < offset
    <3>1. \A i \in DOMAIN code_addr : code_addr[i] <= offset <=> code_addr[i] < offset
      BY <1>3, <1>4, <2>2
    <3> QED BY <1>11, <2>1, <3>1
  <2>4. ListingPosition'
    BY <1>1, <1>3, <1>5, <1>8, <1>10, <2>1, <2>3 DEF ListingPosition
  <2>5. ASSUME NEW i \in DOMAIN code_addr, code_addr[i] < next
        PROVE  /\ listing'[code_addr[i]].op = Op(i - 1)
               /\ listing'[code_addr[i]].oprand % 256 = Arg(i - 1)
    <3>1. code_addr[i] < offset
      BY <2>3, <2>5
    <3>2. code_addr[i] \in DOMAIN listing
      <4>1. code_addr[i] \in DOMAIN text \cup {code_ptr}
        BY DEF DisasmInv, CodeTiled
      <4> QED BY <1>1, <1>3, <1>4, <1>8, <3>1, <4>1
    <3> QED BY <1>1, <2>3, <3>1, <3>2 DEF DisasmInv, ListingFaithful
  <2>6. ASSUME NEW a \in DOMAIN listing', listing'[a] # NoComment
        PROVE  \E i \in DOMAIN code_addr : code_addr[i] = a
    <3>1. a \in DOMAIN listing
      BY <1>7, <1>8, <2>3, <2>6
    <3> QED BY <1>1, <2>3, <2>6, <3>1 DEF DisasmInv, ListingFaithful
  <2>7. ListingFaithful'
    BY <1>10, <2>1, <2>3, <2>5, <2>6 DEF ListingFaithful
  <2> QED BY <1>2, <2>4, <2>7 DEF DisasmInv
<1> QED BY <1>12, <1>13, <1>14

-----------------------------------------------------------------------------
LEMMA DisasmInit_DisasmInv == DisasmInit => DisasmInv
<1> SUFFICES ASSUME DisasmInit PROVE DisasmInv
  OBVIOUS
<1>1. IInv
  BY CompileInit_IInv DEF DisasmInit
<1>2. /\ text = <<>> /\ code_ptr = 0 /\ code_addr = <<>> /\ phase = "prologue"
      /\ offset = 0 /\ opcode_count = 0 /\ listing = <<>>
  BY DEF DisasmInit, CompileInit
<1>3. DOMAIN <<>> = {} /\ Len(<<>>) = 0
  OBVIOUS
<1> QED BY <1>1, <1>2, <1>3 DEF DisasmInv, CodeTiled, ListingPosition, ListingFaithful

LEMMA DisasmNext_DisasmInv == DisasmInv /\ [DisasmNext]_disasmVars => DisasmInv'
<1> SUFFICES ASSUME DisasmInv, [DisasmNext]_disasmVars PROVE DisasmInv'
  OBVIOUS
<1>1. CASE ListInstruction
  BY <1>1, ListInstruction_ListingInv
<1>2. CASE CompileStep \/ UNCHANGED disasmVars
  <2>1. [CompileNext]_compileVars
    BY <1>2 DEF CompileStep, disasmVars
  <2>2. IInv'
    BY <2>1, Emit_IInv, BeginOp_IInv, Patch_IInv, PhaseStep_IInv DEF DisasmInv, CompileNext
  <2>3. CodeTiled'
    BY <2>1, CompileNext_CodeTiled DEF DisasmInv
  <2> QED BY <1>2, <2>2, <2>3, CompileStep_ListingInv DEF DisasmInv
<1> QED BY <1>1, <1>2 DEF DisasmNext

\* Whatever is compiled: the instructions fill the code, the listing finds the
\* first one of every op although it looks for the next op only, and comments it
\* with that op.
THEOREM ListingCorrect == DisasmSpec => []ListingInv
<1>1. DisasmInv => ListingInv
  BY DEF DisasmInv, ListingInv
<1> QED BY <1>1, DisasmInit_DisasmInv, DisasmNext_DisasmInv, PTL DEF DisasmSpec

-----------------------------------------------------------------------------
\* The names.

\* The switch and the table are two lists kept by hand: each opcode a case of the
\* one accepts has an entry in the other.
LEMMA EveryCaseNamed ==
  ASSUME NEW op, NEW oprand, NEW glob, Compilable(op, oprand, glob)
  PROVE  HasName(op)
<1>1. CASE op \in PlainOpcodes
  BY <1>1 DEF PlainOpcodes, JumpOpcodes, HasName, opcode_to_name
<1>2. CASE op \in {"CALL", "BINARY_OP", "COMPARE_OP", "CALL_INTRINSIC_1", "LOAD_GLOBAL"}
  BY <1>2 DEF HasName, opcode_to_name
<1> QED BY <1>1, <1>2 DEF Compilable

\* The ops compiled so far have names, and when the listing begins they are all.
NamesInv ==
  /\ DisasmInv
  /\ \A i \in DOMAIN code_addr : HasName(Op(i - 1))
  /\ phase \in {"reloc", "ready"} => Len(code_addr) = n_op
  /\ disasm = "listing"

LEMMA CompileNext_Names ==
  ASSUME NamesInv, CompileNext
  PROVE  /\ \A i \in DOMAIN code_addr' : HasName(Op(i - 1))'
         /\ (phase \in {"reloc", "ready"} => Len(code_addr) = n_op)'
<1>1. code' = code /\ code_addr \in Seq(0 .. CODE_AREA_SIZE)
  <2>1. code_addr \in Seq(0 .. CODE_AREA_SIZE)
    BY DEF NamesInv, DisasmInv, IInv, CompileTypeOK
  <2> QED BY <2>1 DEF CompileNext, Emit, Overrun, BeginOp, EndOps, Patch, EndReloc
<1>2. CASE BeginOp
  <2>1. CASE phase' = "aborted" /\ code_addr' = code_addr
    BY <1>1, <2>1 DEF NamesInv, Op
  <2>2. CASE phase' = "ops" /\ code_addr' = Append(code_addr, code_ptr)
    <3>1. Compilable(Op(op_index + 1), Arg(op_index + 1), globals)
      BY <1>2, <2>2 DEF BeginOp
    <3>2. HasName(Op(op_index + 1))
      BY <3>1, EveryCaseNamed
    <3>3. op_index + 1 = Len(code_addr) /\ Len(code_addr) \in Nat
      BY <1>1 DEF op_index
    <3>4. DOMAIN code_addr' = 1 .. Len(code_addr) + 1 /\ DOMAIN code_addr = 1 .. Len(code_addr)
      BY <1>1, <2>2 DEF NamesInv, DisasmInv, IInv, CompileTypeOK
    <3>5. ASSUME NEW i \in DOMAIN code_addr'
          PROVE  HasName(Op(i - 1))
      <4>1. CASE i \in DOMAIN code_addr
        BY <4>1 DEF NamesInv
      <4>2. CASE i = Len(code_addr) + 1
        <5>1. i - 1 = op_index + 1
          BY <3>3, <4>2
        <5> QED BY <3>2, <5>1
      <4> QED BY <3>3, <3>4, <4>1, <4>2
    <3> QED BY <1>1, <2>2, <3>5 DEF Op
  <2> QED BY <1>2, <2>1, <2>2 DEF BeginOp
<1>3. CASE Emit \/ Overrun \/ EndOps \/ Patch \/ EndReloc
  <2>1. code_addr' = code_addr /\ n_op' = n_op
    BY <1>1, <1>3 DEF Emit, Overrun, EndOps, Patch, EndReloc, n_op
  <2>2. (phase \in {"reloc", "ready"} => Len(code_addr) = n_op)'
    BY <1>3, <2>1 DEF NamesInv, Emit, Overrun, EndOps, Patch, EndReloc
  <2> QED BY <1>1, <2>1, <2>2 DEF NamesInv, Op
<1> QED BY <1>2, <1>3 DEF CompileNext

\* Disasm never ends the process: an op whose code has been written has a name to
\* be listed with, whatever the bytecode.
THEOREM ListingNeverAborts == DisasmSpec => [](disasm = "listing")
<1>1. DisasmInit => NamesInv
  <2> SUFFICES ASSUME DisasmInit PROVE NamesInv
    OBVIOUS
  <2>1. code_addr = <<>> /\ phase = "prologue" /\ disasm = "listing" /\ DOMAIN <<>> = {}
    BY DEF DisasmInit, CompileInit
  <2> QED BY <2>1, DisasmInit_DisasmInv DEF NamesInv
<1>2. NamesInv /\ [DisasmNext]_disasmVars => NamesInv'
  <2> SUFFICES ASSUME NamesInv, [DisasmNext]_disasmVars PROVE NamesInv'
    OBVIOUS
  <2>1. DisasmInv'
    BY DisasmNext_DisasmInv DEF NamesInv
  <2>2. CASE CompileStep
    BY <2>1, <2>2, CompileNext_Names DEF NamesInv, CompileStep, listVars
  <2>3. CASE ListInstruction
    <3>1. UNCHANGED compileVars /\ phase = "ready"
      BY <2>3 DEF ListInstruction
    <3>2. n_op \in Nat /\ opcode_count \in Nat /\ DOMAIN code_addr = 1 .. n_op
      BY <3>1 DEF NamesInv, DisasmInv, ListingPosition, IInv, CompileTypeOK
    <3>3. opcode_count < n_op => HasName(Op(opcode_count))
      <4> SUFFICES ASSUME opcode_count < n_op PROVE HasName(Op(opcode_count))
        OBVIOUS
      <4>1. opcode_count + 1 \in DOMAIN code_addr /\ (opcode_count + 1) - 1 = opcode_count
        BY <3>2
      <4>2. HasName(Op((opcode_count + 1) - 1))
        BY <4>1 DEF NamesInv
      <4> QED BY <4>1, <4>2
    <3>4. disasm' = disasm
      BY <2>3, <3>3 DEF ListInstruction, OpStarts
    <3> QED BY <2>1, <3>1, <3>4 DEF NamesInv, compileVars, Op, n_op
  <2>4. CASE UNCHANGED disasmVars
    BY <2>1, <2>4 DEF NamesInv, disasmVars, compileVars, listVars, Op, n_op
  <2> QED BY <2>2, <2>3, <2>4 DEF DisasmNext
<1>3. NamesInv => disasm = "listing"
  BY DEF NamesInv
<1> QED BY <1>1, <1>2, <1>3, PTL DEF DisasmSpec

-----------------------------------------------------------------------------
\* The listing leaves the compiler's state alone: what is proved of CompileSpec
\* carries over to the specification the runs check.
LEMMA CompilerUndisturbed == DisasmSpec => CompileInit /\ [][CompileNext]_compileVars
<1>1. DisasmInit => CompileInit
  BY DEF DisasmInit
<1>2. [DisasmNext]_disasmVars => [CompileNext]_compileVars
  BY DEF DisasmNext, CompileStep, ListInstruction, disasmVars
<1> QED BY <1>1, <1>2, PTL DEF DisasmSpec
=============================================================================
