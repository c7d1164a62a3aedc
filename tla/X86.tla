--------------------------------- MODULE X86 ---------------------------------
(***************************************************************************)
(* The machine instructions raijit writes (src/src/write_insts.cc).        *)
(*                                                                         *)
(* Every Write* function of the source appends one instruction at an       *)
(* address and returns the address behind it.  Here it is the instruction  *)
(* it appends, a record, and InsLen is the distance between the two        *)
(* addresses.  WriteCallRax appends five instructions that only make sense *)
(* together; they are one record here, and CallSequence.tla models the     *)
(* five.                                                                   *)
(*                                                                         *)
(* A machine word is a pair <<tag, value>>, so that a raw integer, the     *)
(* address of a C function and a Python object are never confused.         *)
(***************************************************************************)
EXTENDS Integers, Sequences

\* Words the compiler embeds in the code as 64 bit immediates.
FnAddr(name)     == <<"fn", name>>          \* a C function
LocalAddr(i)     == <<"local", i>>          \* &interpreter_frame->localsplus[i]
ConstObj(i)      == <<"const", i>>          \* co_consts[i]
NameObj(i)       == <<"name", i>>           \* co_names[i]
GlobalObj(i, v)  == <<"global", <<i, v>>>>  \* what co_names[i] was bound to
RawInt(n)        == <<"int", n>>
PyNone           == <<"none", 0>>

\* Words that only appear at run time.
PyBool(b)        == <<"bool", b>>
NULL             == <<"null", 0>>
Junk             == <<"junk", 0>>  \* a word the code has no control over

-----------------------------------------------------------------------------
\* Stack and register moves.

Push(r)      == [ins |-> "push", reg |-> r]
Pop(r)       == [ins |-> "pop", reg |-> r]
MovImm(r, w) == [ins |-> "movimm", reg |-> r, imm |-> w]
MovReg(d, s) == [ins |-> "movreg", dst |-> d, src |-> s]

WritePushRbp == Push("rbp")
WritePushRax == Push("rax")
WritePushRdi == Push("rdi")
WritePushR12 == Push("r12")
WritePopRax  == Pop("rax")
WritePopRsi  == Pop("rsi")
WritePopRdx  == Pop("rdx")
WritePopRdi  == Pop("rdi")
WritePopR13  == Pop("r13")

\* "Handy aliases" of write_insts.h: the System V argument registers.
WritePop1stArg  == WritePopRdi
WritePop2ndArg  == WritePopRsi
WritePop3rdArg  == WritePopRdx
WritePush1stArg == WritePushRdi

WriteMovRax(w)             == MovImm("rax", w)
WriteMovRdi(w)             == MovImm("rdi", w)
WriteMovTo1stArgFromImm(w) == MovImm("rdi", w)
WriteMovTo2ndArgFromImm(w) == MovImm("rsi", w)
WriteMovTo3rdArgFromImm(w) == MovImm("rdx", w)

WriteMovRspToRbp        == MovReg("rbp", "rsp")
WriteMovTo2ndArgFromRet == MovReg("rsi", "rax")
WriteMovTo1stArgFromR12 == MovReg("rdi", "r12")
WriteMovToR12FromRet    == MovReg("r12", "rax")
WriteMovTo1stArgFromR13 == MovReg("rdi", "r13")

\* mov rax, [rdi]  and  mov [rax], rdi
WriteMovToRaxFromPtrRdi == [ins |-> "loadptr"]
WriteMovToPtrRaxFromRdi == [ins |-> "storeptr"]

\* mov rdi, [rsp + offset]: the offset is a signed 8 bit number of BYTES.
WriteMovToRdiFromQwordPtrRspOffset(offset) ==
  [ins |-> "loadstack", off |-> ((offset + 128) % 256) - 128]

-----------------------------------------------------------------------------
\* Control.

WriteEndbr64 == [ins |-> "endbr64"]
WriteNop     == [ins |-> "nop"]
WriteLeave   == [ins |-> "leave"]
WriteRet     == [ins |-> "ret"]
WriteCallRax == [ins |-> "callrax"]

WriteCmpRaxImm8(imm8) == [ins |-> "cmp", imm |-> imm8]

\* Their rel32 operand is the last four bytes of the instruction.
WriteJzRel32  == [ins |-> "jz"]
WriteJnzRel32 == [ins |-> "jnz"]
WriteJmpRel32 == [ins |-> "jmp"]

IsJump(i) == i.ins \in {"jz", "jnz", "jmp"}

\* How far each Write* function advances the pointer it is given.
InsLen(i) ==
  CASE i.ins \in {"push", "pop"} -> IF i.reg \in {"r12", "r13"} THEN 2 ELSE 1
    [] i.ins = "movimm"                              -> 10
    [] i.ins \in {"movreg", "loadptr", "storeptr"}   -> 3
    [] i.ins \in {"loadstack", "jmp"}                -> 5
    [] i.ins \in {"endbr64", "cmp"}                  -> 4
    [] i.ins = "callrax"                             -> 15
    [] i.ins \in {"jz", "jnz"}                       -> 6
    [] OTHER                                         -> 1  \* nop, leave, ret
=============================================================================
