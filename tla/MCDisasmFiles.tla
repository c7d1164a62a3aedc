---------------------------- MODULE MCDisasmFiles ----------------------------
(***************************************************************************)
(* DisasmFiles with three processes.                                       *)
(***************************************************************************)
EXTENDS DisasmFiles

CONSTANTS p1, p2, p3
MCProcesses == {p1, p2, p3}
\* One of them compiles the function twice.
MCMaxListings == [p \in MCProcesses |-> IF p = p1 THEN 2 ELSE 1]
=============================================================================
