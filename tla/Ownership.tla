------------------------------- MODULE Ownership -------------------------------
(***************************************************************************)
(* Who owns a reference to what: Jit with the account an activation of the *)
(* compiled code runs up.  Py_INCREF(result) in RaijitEvalFrame is the     *)
(* only reference count the code of src/src/raijit.cc touches itself; the  *)
(* rest is what the C functions it calls return, borrow and steal, as the  *)
(* documentation of the C API says.                                        *)
(*                                                                         *)
(* own is a history variable: the references that were handed to the       *)
(* activation, minus those it has given away.  It may be below zero, as no *)
(* case of the switch takes a reference before it gives one away: what     *)
(* keeps the object then is that the list or tuple it was given to lives.  *)
(***************************************************************************)
EXTENDS Jit, FiniteSets

VARIABLE own   \* by object; an object not yet seen counts 0

ownVars == <<jitVars, own>>

\* C functions that return a new reference, if anything, and those that steal
\* the one they are given as third argument.  PyTuple_GetItem returns a borrowed
\* reference and PyDict_SetItem takes its own.
Stealing     == {"PyList_SetItem", "PyTuple_SetItem"}
NoReferences == {"PyDict_SetItem", "PyTuple_GetItem", "PyObject_Not", "IsPyTrue",
                 "Py_Is", "PySequence_Contains"}
Owned(w) == IF w \in DOMAIN own THEN own[w] ELSE 0
Adds(w, n) == With(own, w, Owned(w) + n)

\* The frame holds a reference to each argument, and never drops it.
OwnInit == JitInit /\ own = [w \in {localsplus[i] : i \in DOMAIN localsplus} |-> 1]

\* A C function has returned.
AfterCall ==
  CASE Fn \in Stealing     -> Adds(Args[3], -1)
    [] Fn \in NoReferences -> own
    [] OTHER -> IF reg'["rax"] = NULL THEN own ELSE Adds(reg'["rax"], 1)

Py_INCREF == 1

\* The caller of the function owns what it returns.
AfterReturn == Adds(result', Py_INCREF - 1)

OwnNext ==
  /\ JitNext
  /\ own' = IF At({"callrax"}) /\ rip' # rip THEN AfterCall
            ELSE IF run' = "returned" /\ run # "returned" THEN AfterReturn
            ELSE own

OwnSpec == OwnInit /\ [][OwnNext]_ownVars /\ WF_ownVars(OwnNext)
-----------------------------------------------------------------------------
\* Property.

\* The slots of lists and tuples that hold w, each with the reference it was given.
\* (A slot that is written again drops the reference of what it held.)
Slots(w) ==
  UNION {{<<b, i>> : i \in {j \in DOMAIN heap[b].items : heap[b].items[j] = w}} :
           b \in {c \in DOMAIN heap : heap[c].kind \in {"list", "tuple"}}}

\* One reference must be left of an argument, of what a call returned and of what
\* the function built.  Constants, names, bools and globals have other owners.
Kept(w) == IF w[1] \in {"arg", "obj", "box"} THEN 1 ELSE 0

\* The BUILD_ cases hand references they only borrow to PyList_SetItem and
\* PyTuple_SetItem, which steal them, and no case ever takes one.  Still, as long as
\* what the function built is alive, nothing that a local, the stack or the
\* caller may hold is freed: each reference that was given away without being held
\* is in a slot of its own, which no later round, nor another container, takes from
\* it, and Py_INCREF makes good for the one that is returned.
ReferencesCovered == \A w \in DOMAIN own : own[w] + Cardinality(Slots(w)) >= Kept(w)
=============================================================================
