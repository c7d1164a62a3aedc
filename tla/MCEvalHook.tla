------------------------------ MODULE MCEvalHook ------------------------------
(***************************************************************************)
(* EvalHook with two threads that run a test function and another one.     *)
(***************************************************************************)
EXTENDS EvalHook, TLC

CONSTANTS t1, t2, a1, a2, a3
MCThreads   == {t1, t2}
MCFunctions == {"raijit_test_f", "g"}
MCTestFns   == {"raijit_test_f"}
MCBuilders  == {"g"}
MCAreas     == {a1, a2, a3}

\* Threads are alike, and so are areas.
HookSymmetry == Permutations(MCThreads) \cup Permutations(MCAreas)
=============================================================================
