-------------------------- MODULE CallSequenceProofs --------------------------
(***************************************************************************)
(* Proofs about WriteCallRax's instructions for every stack pointer that   *)
(* is a multiple of 8 and every content of the stack.                      *)
(***************************************************************************)
EXTENDS CallSequence, TLAPS

USE DEF Reach, SavedRspOffset

\* The slots the sequence writes exist, and lie below the caller's.
LEMMA TopFacts ==
  ASSUME top \in StackTops
  PROVE  /\ top \in Nat /\ top % 8 = 0 /\ top \in Slots
         /\ top - 8 \in Slots /\ top - 16 \in Slots /\ top - 24 \in Slots
<1>1. top \in Slots /\ \A k \in 1 .. 3 : top - 8 * k \in Slots
  BY DEF StackTops
<1>2. top - 8 * 1 \in Slots /\ top - 8 * 2 \in Slots /\ top - 8 * 3 \in Slots
  BY <1>1
<1>3. top \in Nat /\ top % 8 = 0
  BY <1>1, SlotsAssumption
<1> QED BY <1>1, <1>2, <1>3

\* Rounding down to a multiple of 16 skips one slot at most: the second copy is
\* then at [rsp], the first at [rsp + 8].
LEMMA AlignCases ==
  ASSUME NEW a \in Nat, a % 8 = 0
  PROVE  /\ Align(a) % 16 = 0
         /\ Align(a) = a \/ Align(a) = a - 8
  BY DEF Align

\* Where rsp is at the call: on a slot, 16 or 24 bytes below the caller's.
LEMMA AlignedTop ==
  ASSUME top \in StackTops
  PROVE  /\ Align(top - 16) \in Slots
         /\ Align(top - 16) % 16 = 0
         /\ Align(top - 16) + 8 \in {top - 8, top - 16}
<1>1. /\ top \in Nat /\ top - 16 \in Slots /\ top - 24 \in Slots
  BY TopFacts
<1>2. top - 16 \in Nat /\ (top - 16) % 8 = 0
  BY <1>1, SlotsAssumption
<1>3. /\ Align(top - 16) % 16 = 0
      /\ Align(top - 16) = top - 16 \/ Align(top - 16) = (top - 16) - 8
  BY <1>2, AlignCases
<1> QED BY <1>1, <1>3

LEMMA InitInv == Init => CallInv
  BY DEF Init, CallInv, CallTypeOK, StackTops

LEMMA SavedTwice ==
  ASSUME top \in StackTops, mem \in [Slots -> Words]
  PROVE  /\ Saved(1) <=> mem[top - 8] = top
         /\ Saved(2) <=> mem[top - 8] = top /\ mem[top - 16] = top
<1>1. top \in Nat BY TopFacts
<1>2. 1 .. 1 = {1} /\ 1 .. 2 = {1, 2} OBVIOUS
<1> QED BY <1>1, <1>2 DEF Saved

\* Each instruction takes CallInv to CallInv.
LEMMA NextInv == CallInv /\ [Next]_vars => CallInv'
<1> SUFFICES ASSUME CallInv, [Next]_vars PROVE CallInv'
  OBVIOUS
<1> USE DEF CallInv, CallTypeOK
<1>1. CASE PushRsp
  <2>1. /\ rsp = top /\ rsp' = top - 8 /\ top' = top /\ entry' = entry
        /\ at' = "push_top" /\ mem' = [mem EXCEPT ![top - 8] = top]
    BY <1>1 DEF PushRsp, Push
  <2>2. top \in Nat /\ top \in Words /\ top - 8 \in Slots
    BY TopFacts, SlotsAssumption
  <2>3. mem' \in [Slots -> Words] /\ mem'[top - 8] = top
    BY <2>1, <2>2
  <2>4. Saved(1)'
    BY <2>1, <2>2, <2>3 DEF Saved
  <2> QED BY <2>1, <2>3, <2>4
<1>2. CASE PushTop
  <2>1. /\ rsp = top - 8 /\ Saved(1) /\ top' = top /\ entry' = entry
        /\ at' = "and_rsp" /\ rsp' = rsp - 8
        /\ mem' = [mem EXCEPT ![rsp - 8] = mem[rsp]]
    BY <1>2 DEF PushTop, Push
  <2>2. /\ top \in Nat /\ top \in Words /\ top - 8 \in Slots /\ top - 16 \in Slots
        /\ rsp - 8 = top - 16 /\ mem[top - 8] = top
    BY <2>1, TopFacts, SavedTwice, SlotsAssumption
  <2>3. mem' = [mem EXCEPT ![top - 16] = top]
    BY <2>1, <2>2
  <2>4. mem' \in [Slots -> Words] /\ mem'[top - 8] = top /\ mem'[top - 16] = top
    BY <2>2, <2>3
  <2>5. Saved(2)'
    BY <2>1, <2>2, <2>4 DEF Saved
  <2> QED BY <2>1, <2>2, <2>4, <2>5
<1>3. CASE AndRsp
  BY <1>3 DEF AndRsp, Saved
<1>4. CASE CallRax
  <2>1. /\ rsp = Align(top - 16) /\ rsp' = rsp /\ top' = top /\ entry' = rsp
        /\ at' = "mov_rsp" /\ mem' \in [Slots -> Words]
        /\ \A a \in Slots : a >= rsp => mem'[a] = mem[a]
    BY <1>4 DEF CallRax
  <2>2. /\ top \in Nat /\ top - 8 \in Slots /\ top - 16 \in Slots
        /\ top - 8 >= rsp /\ top - 16 >= rsp /\ rsp \in Slots
    BY <2>1, TopFacts, AlignedTop, SlotsAssumption
  <2>3. mem[top - 8] = top /\ mem[top - 16] = top
    BY <1>4, SavedTwice DEF CallRax
  <2>4. mem'[top - 8] = top /\ mem'[top - 16] = top
    BY <2>1, <2>2, <2>3
  <2>5. Saved(2)'
    BY <2>1, <2>2, <2>4 DEF Saved
  <2> QED BY <2>1, <2>2, <2>5
<1>5. CASE MovRsp
  <2>1. /\ rsp' = mem[Align(top - 16) + 8] /\ at' = "done"
        /\ UNCHANGED <<mem, top, entry>> /\ entry = Align(top - 16)
    BY <1>5 DEF MovRsp
  <2>2. mem[top - 8] = top /\ mem[top - 16] = top
    BY <1>5, SavedTwice DEF MovRsp
  <2>3. rsp' = top
    BY <2>1, <2>2, AlignedTop
  <2> QED BY <2>1, <2>3
<1>6. CASE UNCHANGED vars
  BY <1>6 DEF vars, Saved
<1> QED BY <1>1, <1>2, <1>3, <1>4, <1>5, <1>6 DEF Next

\* CallInv holds at every instruction: the inductive invariant, checked by the
\* run call_sequence, for every stack.
THEOREM CallInvariant == Spec => []CallInv
  BY InitInv, NextInv, PTL DEF Spec

-----------------------------------------------------------------------------
\* The refinement, with the mapping of CallSequence.

LEMMA InitRefines == Init => Abstract!AbsInit
<1> SUFFICES ASSUME Init PROVE Abstract!AbsInit
  OBVIOUS
<1>1. at = "push_rsp" /\ top = rsp /\ top \in Slots /\ entry = 0 /\ mem \in [Slots -> Words]
  BY DEF Init, StackTops
<1> QED BY <1>1 DEF Abstract!AbsInit

\* What the instructions leave of the caller's frame is all of it.
LEMMA FrameKept ==
  ASSUME CallInv, CallInv', [Next]_vars
  PROVE  /\ top' = top
         /\ [a \in {x \in Slots : x >= top'} |-> mem'[a]]
              = [a \in {x \in Slots : x >= top} |-> mem[a]]
<1> USE DEF CallInv, CallTypeOK
<1>1. top' = top
  BY DEF Next, PushRsp, PushTop, Push, AndRsp, CallRax, MovRsp, vars
<1>2. top \in Nat /\ \A a \in Slots : a \in Nat
  BY TopFacts, SlotsAssumption
<1>3. ASSUME NEW a \in Slots, a >= top PROVE mem'[a] = mem[a]
  <2>1. CASE PushRsp
    <3>1. mem' = [mem EXCEPT ![top - 8] = rsp]
      BY <2>1 DEF PushRsp, Push
    <3> QED BY <1>2, <1>3, <3>1
  <2>2. CASE PushTop
    <3>1. mem' = [mem EXCEPT ![rsp - 8] = mem[rsp]] /\ rsp = top - 8
      BY <2>2 DEF PushTop, Push
    <3>2. rsp - 8 # a
      BY <1>2, <1>3, <3>1
    <3> QED BY <3>1, <3>2
  <2>3. CASE CallRax
    <3>1. rsp = Align(top - 16) /\ (a >= rsp => mem'[a] = mem[a])
      BY <2>3 DEF CallRax
    <3>2. Align(top - 16) + 8 \in {top - 8, top - 16} /\ Align(top - 16) \in Nat
      BY AlignedTop, SlotsAssumption
    <3> QED BY <1>2, <1>3, <3>1, <3>2
  <2>4. CASE AndRsp \/ MovRsp \/ UNCHANGED vars
    BY <2>4 DEF AndRsp, MovRsp, vars
  <2> QED BY <2>1, <2>2, <2>3, <2>4 DEF Next
<1> QED BY <1>1, <1>3

LEMMA NextRefines ==
  CallInv /\ CallInv' /\ [Next]_vars => [Abstract!AbsNext]_(Abstract!absVars)
<1> SUFFICES ASSUME CallInv, CallInv', [Next]_vars
             PROVE  [Abstract!AbsNext]_(Abstract!absVars)
  OBVIOUS
<1> DEFINE Frame == [a \in {x \in Slots : x >= top} |-> mem[a]]
<1>1. top' = top /\ Frame' = Frame
  BY FrameKept
<1> HIDE DEF Frame
<1>2. CASE PushRsp \/ PushTop \/ AndRsp
  BY <1>1, <1>2 DEF PushRsp, PushTop, Push, AndRsp, Abstract!absVars, Frame
<1>3. CASE CallRax
  <2>1. at = "call_rax" /\ at' = "mov_rsp" /\ entry' = Align(top - 16)
    BY <1>3 DEF CallRax, CallInv
  <2>2. /\ Align(top - 16) \in Slots /\ Align(top - 16) % 16 = 0
        /\ Align(top - 16) < top
    BY AlignedTop, TopFacts, SlotsAssumption DEF CallInv, CallTypeOK
  <2> QED BY <1>1, <2>1, <2>2 DEF Abstract!AbsNext, Abstract!AbsCall, Frame
<1>4. CASE MovRsp
  <2>1. at = "mov_rsp" /\ at' = "done" /\ rsp' = top /\ entry' = entry
    BY <1>1, <1>4 DEF MovRsp, CallInv
  <2> QED BY <1>1, <2>1 DEF Abstract!AbsNext, Abstract!AbsReturn, Frame
<1>5. CASE UNCHANGED vars
  BY <1>5 DEF vars, Abstract!absVars
<1> QED BY <1>2, <1>3, <1>4, <1>5 DEF Next

\* WriteCallRax's five instructions implement one aligned call, for every rsp
\* that is a multiple of 8: how deep the value stack is does not matter.
THEOREM CallSequenceCorrect == Spec => ImplementsAlignedCall
<1>1. Init => Abstract!AbsInit
  BY InitRefines
<1>2. CallInv /\ CallInv' /\ [Next]_vars => [Abstract!AbsNext]_(Abstract!absVars)
  BY NextRefines
<1> QED BY <1>1, <1>2, CallInvariant, PTL DEF Spec, ImplementsAlignedCall, Abstract!AbsSpec
=============================================================================
