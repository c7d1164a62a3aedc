---------------------------- MODULE MCCallSequence ----------------------------
(***************************************************************************)
(* CallSequence on a stack of six slots, three of which can be where a     *)
(* call starts, two of them multiples of 16 and one of 8 only.             *)
(***************************************************************************)
EXTENDS CallSequence

MCSlots == {8 * k : k \in 3 .. 8}
MCWords == MCSlots
=============================================================================
