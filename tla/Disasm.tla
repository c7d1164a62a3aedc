------------------------------- MODULE Disasm -------------------------------
(***************************************************************************)
(* The listing Disasm prints of a compiled function (src/src/disasm.cc):   *)
(* the code is decoded from its first byte on, and a comment with opcode   *)
(* and operand goes in front of the instruction an op starts with.  What   *)
(* becomes of the file it goes to is DisasmFiles.tla.                      *)
(*                                                                         *)
(* One step is one round of the loop.  The five instructions of            *)
(* WriteCallRax are one round here; no op starts at the inner ones.        *)
(***************************************************************************)
EXTENDS Compiler, OpcodeTable

VARIABLES
  disasm,         \* "listing" or "aborted"
  offset,         \* where the next instruction is
  opcode_count,   \* ops with a comment so far
  listing         \* the comment, or none, of each instruction printed, by offset

listVars   == <<disasm, offset, opcode_count, listing>>
disasmVars == <<compileVars, listVars>>

NoComment == [op |-> "none", oprand |-> 0]

\* code_buf is a const char *: printed with %d, an operand above 127 is negative.
AsChar(byte) == ((byte + 128) % 256) - 128
Comment(i)   == [op |-> Op(i), oprand |-> AsChar(Arg(i))]

DisasmInit ==
  /\ CompileInit
  /\ disasm = "listing"
  /\ offset = 0
  /\ opcode_count = 0
  /\ listing = <<>>

CompileStep == CompileNext /\ UNCHANGED listVars

\* What code_addr[opcode_count] may give: behind the last element, whatever is
\* there, the current address or another one.
HeadOfNextOp ==
  IF opcode_count < n_op THEN {code_addr[opcode_count + 1]} ELSE {offset, -1}

\* The condition in front of the comment.
OpStarts(head) == head = offset /\ opcode_count < n_op

\* A round of the loop.  Zydis decodes while there are bytes left.
ListInstruction ==
  /\ phase = "ready"
  /\ disasm = "listing"
  /\ offset < code_ptr
  /\ \E head \in HeadOfNextOp :
       IF OpStarts(head)
       THEN IF HasName(Op(opcode_count))
            THEN /\ listing' = With(listing, offset, Comment(opcode_count))
                 /\ opcode_count' = opcode_count + 1
                 /\ offset' = offset + InsLen(text[offset])
                 /\ UNCHANGED disasm
            ELSE disasm' = "aborted" /\ UNCHANGED <<offset, opcode_count, listing>>
       ELSE /\ listing' = With(listing, offset, NoComment)
            /\ offset' = offset + InsLen(text[offset])
            /\ UNCHANGED <<disasm, opcode_count>>
  /\ UNCHANGED compileVars

DisasmNext == CompileStep \/ ListInstruction

\* Disasm runs straight through, like the compiler that calls it.
DisasmSpec == DisasmInit /\ [][DisasmNext]_disasmVars /\ WF_disasmVars(DisasmNext)
-----------------------------------------------------------------------------
(***************************************************************************)
(* Properties.                                                             *)
(***************************************************************************)

\* The instructions fill the code without gap or overlap, and no two ops start
\* at the same byte (a case that wrote nothing would make them).  Why the listing
\* finds every op: it compares the next instruction with the next op only, and an
\* op it misses is never looked for again.
CodeTiled ==
  /\ 0 \in DOMAIN text \cup {code_ptr}
  /\ \A a \in DOMAIN text : a + InsLen(text[a]) \in DOMAIN text \cup {code_ptr}
  /\ \A a, b \in DOMAIN text : a < b => a + InsLen(text[a]) <= b
  /\ \A i \in DOMAIN code_addr : code_addr[i] \in DOMAIN text \cup {code_ptr}
  /\ \A i, j \in DOMAIN code_addr : i < j => code_addr[i] < code_addr[j]
  /\ todo = <<>> => \A i \in DOMAIN code_addr : code_addr[i] < code_ptr
  /\ phase \in {"reloc", "ready"} => todo = <<>>

\* Where the listing is: at an instruction, in front of the ops it has not
\* commented and behind those it has.
ListingPosition ==
  /\ offset \in DOMAIN text \cup {code_ptr}
  /\ opcode_count \in 0 .. Len(code_addr)
  /\ \A i \in DOMAIN code_addr : code_addr[i] < offset <=> i <= opcode_count
  /\ phase # "ready" => offset = 0 /\ opcode_count = 0 /\ listing = <<>>

\* Every instruction behind is printed once; the first one of each op, and no
\* other, has the comment with that op and an operand that is the same byte.
ListingFaithful ==
  phase = "ready" =>
    /\ DOMAIN listing = {a \in DOMAIN text : a < offset}
    /\ \A i \in DOMAIN code_addr : code_addr[i] < offset =>
         /\ listing[code_addr[i]].op = Op(i - 1)
         /\ listing[code_addr[i]].oprand % 256 = Arg(i - 1)
    /\ \A a \in DOMAIN listing :
         listing[a] # NoComment => \E i \in DOMAIN code_addr : code_addr[i] = a

\* The inductive invariant of the listing.
ListingInv == CodeTiled /\ ListingPosition /\ ListingFaithful

\* Once the code is relocated it is printed to the end, with a comment for every
\* op: no op the switch has a case for is missing in the table of names.
ListingEnds == phase = "ready" ~> offset = code_ptr /\ opcode_count = n_op

\* What the condition opcode_count < n_op is there for: code_addr is read where it
\* has an element.
ReadsInside == phase = "ready" /\ offset < code_ptr => opcode_count < n_op
=============================================================================
