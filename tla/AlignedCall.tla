------------------------------ MODULE AlignedCall ------------------------------
(***************************************************************************)
(* What WriteCallRax (src/src/write_insts.cc) promises the code around it: *)
(* the C function in rax is entered on a stack aligned to 16 bytes, as the *)
(* System V ABI wants, and when it has returned the stack pointer and      *)
(* every word of the stack are what they were.                             *)
(***************************************************************************)
EXTENDS Integers

CONSTANTS Slots,   \* the addresses of the stack slots
          Words    \* what a slot may hold

VARIABLES stage,   \* "before", "in" or "after" the call
          sp,      \* the stack pointer of the code around the call
          frame,   \* the words at and above it
          entry    \* the stack pointer at the call instruction

absVars == <<stage, sp, frame, entry>>

AbsInit == /\ stage = "before"
           /\ sp \in Slots
           /\ frame \in [{a \in Slots : a >= sp} -> Words]
           /\ entry = 0

AbsCall == /\ stage = "before"
           /\ stage' = "in"
           /\ entry' \in {a \in Slots : a < sp /\ a % 16 = 0}
           /\ UNCHANGED <<sp, frame>>

AbsReturn == /\ stage = "in"
             /\ stage' = "after"
             /\ UNCHANGED <<sp, frame, entry>>

AbsNext == AbsCall \/ AbsReturn

AbsSpec == AbsInit /\ [][AbsNext]_absVars
=============================================================================
