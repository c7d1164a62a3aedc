----------------------------- MODULE CallSequence -----------------------------
(***************************************************************************)
(* The five instructions of WriteCallRax (src/src/write_insts.cc):         *)
(*                                                                         *)
(*   push rsp ; push [rsp] ; and rsp, -16 ; call rax ; mov rsp, [rsp + 8]  *)
(*                                                                         *)
(* The generated code does not know whether rsp is a multiple of 16 or     *)
(* just of 8 when it makes a call: that depends on how many values are on  *)
(* the stack of the bytecode.  rsp is pushed twice, so that one of the     *)
(* copies is at [rsp + 8] after the call in both cases.                    *)
(***************************************************************************)
EXTENDS Integers

CONSTANTS Slots,   \* the addresses of the stack slots
          Words    \* what a slot may hold, addresses included

\* The deepest the five instructions push.
Reach == 24

\* Slots are 8 bytes wide and hold addresses of slots.
ASSUME SlotsAssumption == /\ \A a \in Slots : a \in Nat /\ a % 8 = 0
                          /\ Slots \subseteq Words

\* The code around the call is at least Reach bytes away from the end of the
\* stack, and every slot above the lowest it reaches is there.
StackTops == {a \in Slots : \A k \in 1 .. Reach \div 8 : a - 8 * k \in Slots}

VARIABLES at,     \* the instruction to execute next
          rsp,
          mem,    \* the stack
          top,    \* history variable: rsp before the five instructions
          entry   \* history variable: rsp at the call, 0 before it

vars == <<at, rsp, mem, top, entry>>

Init == /\ at = "push_rsp"
        /\ rsp \in StackTops
        /\ mem \in [Slots -> Words]
        /\ top = rsp
        /\ entry = 0

Push(word) == /\ rsp' = rsp - 8
              /\ mem' = [mem EXCEPT ![rsp - 8] = word]
              /\ UNCHANGED <<top, entry>>

\* push rsp: the value pushed is that of rsp before it is decremented.
PushRsp == /\ at = "push_rsp"
           /\ at' = "push_top"
           /\ Push(rsp)

\* push QWORD PTR [rsp]
PushTop == /\ at = "push_top"
           /\ at' = "and_rsp"
           /\ Push(mem[rsp])

\* Mutant: trusts rsp to be a multiple of 16 already.
AlignNot(a) == a
\* and rsp, 0xfffffffffffffff0
Align(a) == a - (a % 16)
AndRsp == /\ at = "and_rsp"
          /\ at' = "call_rax"
          /\ rsp' = Align(rsp)
          /\ UNCHANGED <<mem, top, entry>>

\* call rax, up to the instruction behind it: the return address and the frames
\* of the callees overwrite what is below rsp, the callee pops what it pushes.
CallRax == /\ at = "call_rax"
           /\ at' = "mov_rsp"
           /\ mem' \in [Slots -> Words]
           /\ \A a \in Slots : a >= rsp => mem'[a] = mem[a]
           /\ entry' = rsp
           /\ UNCHANGED <<rsp, top>>

\* Mutant: mov rsp, QWORD PTR [rsp].
SavedRspOffsetZero == 0
\* mov rsp, QWORD PTR [rsp + 8]
SavedRspOffset == 8
MovRsp == /\ at = "mov_rsp"
          /\ at' = "done"
          /\ rsp' = mem[rsp + SavedRspOffset]
          /\ UNCHANGED <<mem, top, entry>>

Next == PushRsp \/ PushTop \/ AndRsp \/ CallRax \/ MovRsp

Spec == Init /\ [][Next]_vars

-----------------------------------------------------------------------------
\* The state of the five instructions, step by step.  The strengthening the
\* theorems of CallSequenceProofs rest on: how many copies of top have been
\* pushed, where they are, and where rsp is.
CallTypeOK ==
  /\ at \in {"push_rsp", "push_top", "and_rsp", "call_rax", "mov_rsp", "done"}
  /\ mem \in [Slots -> Words]
  /\ top \in StackTops
  /\ entry \in Slots \cup {0}

Saved(n) == \A k \in 1 .. n : mem[top - 8 * k] = top

CallInv ==
  /\ CallTypeOK
  /\ at \in {"push_rsp", "done"} => rsp = top
  /\ at = "push_top" => rsp = top - 8 /\ Saved(1)
  /\ at = "and_rsp" => rsp = top - 16 /\ Saved(2)
  /\ at \in {"call_rax", "mov_rsp"} => rsp = Align(top - 16) /\ Saved(2)
  /\ at \in {"mov_rsp", "done"} => entry = Align(top - 16)

\* The five instructions are one call as the code around them sees it: the
\* callee gets an aligned stack, whatever rsp was, and nothing the code around
\* has on the stack changes.
Abstract == INSTANCE AlignedCall WITH
  stage <- (CASE at = "mov_rsp" -> "in" [] at = "done" -> "after" [] OTHER -> "before"),
  sp    <- (IF at = "done" THEN rsp ELSE top),
  frame <- [a \in {x \in Slots : x >= top} |-> mem[a]]
ImplementsAlignedCall == Abstract!AbsSpec
=============================================================================
