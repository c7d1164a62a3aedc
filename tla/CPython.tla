------------------------------- MODULE CPython -------------------------------
(***************************************************************************)
(* The part of CPython 3.12 that raijit is written against.  CPython is    *)
(* not in the repository; this is what src/ relies on: the C functions the *)
(* generated code calls.                                                   *)
(*                                                                         *)
(* A call that runs Python code is recorded in a log with its arguments    *)
(* and its result, and an object it returns is a fresh name, so two runs   *)
(* with the same log saw the same objects and had the same effects.        *)
(* Containers built by the BUILD_* opcodes are kept in a heap, a sequence  *)
(* of [kind, items]: the items of a list or tuple are a sequence, those of *)
(* a dict a sequence of <<key, value>> in insertion order.                 *)
(***************************************************************************)
EXTENDS X86, CodeObject

CONSTANTS
  ApiMayFail,   \* whether a call may raise (return NULL or -1)
  MaxCalls,     \* bound: once the log is this long, iterators are exhausted
                \* and comparisons are false
  MaxRebinds,   \* bound: how often calls may rebind a global name
  DictObjs      \* the objects from outside that are dicts

ASSUME ApiAssumption == ApiMayFail \in BOOLEAN /\ MaxCalls \in Nat /\ MaxRebinds \in Nat

-----------------------------------------------------------------------------
\* The log and the heap.

Fresh(calls)               == <<"obj", Len(calls) + 1>>
Logged(calls, f, args, r)  == Append(calls, [fn |-> f, args |-> args, ret |-> r])
NewBox(heap)               == <<"box", Len(heap) + 1>>
ItemOf(tuple, i)           == <<"item", <<tuple, i>>>>
IsDictBox(w, heap)         == w[1] = "box" /\ heap[w[2]].kind = "dict"

\* A dict keeps the place of a key that is stored again.
DictStore(items, k, v) ==
  IF \E i \in DOMAIN items : items[i][1] = k
  THEN [i \in DOMAIN items |-> IF items[i][1] = k THEN <<k, v>> ELSE items[i]]
  ELSE Append(items, <<k, v>>)

\* localsplus when a function is entered.
Arguments(n) == [i \in 0 .. n - 1 |-> <<"arg", i>>]

\* "running" and "raised" stand for a result that is not there (yet).
Running == <<"running", 0>>
Raised  == <<"raised", 0>>

Fail == IF ApiMayFail THEN {NULL} ELSE {}

\* What a C function that runs Python code may return.
Results(f, args, calls) ==
  CASE f = "PyIter_Next" ->
         {NULL} \cup (IF Len(calls) < MaxCalls THEN {Fresh(calls)} ELSE {})
    [] f = "PyObject_RichCompare" ->
         IF Len(calls) < MaxCalls
         THEN {PyBool(TRUE), PyBool(FALSE), Fresh(calls)} \cup Fail
         ELSE {PyBool(FALSE)}
    [] f = "Py_Is" ->
         IF args[1] = args[2] THEN {RawInt(1)} ELSE {RawInt(0), RawInt(1)}
    [] f \in {"PySequence_Contains", "PyObject_Not"} ->
         {RawInt(0), RawInt(1)} \cup (IF ApiMayFail THEN {RawInt(-1)} ELSE {})
    [] OTHER -> {Fresh(calls)} \cup Fail

\* What running Python code may do to the global names (only calls made by the
\* CALL opcode are taken to do it).
Rebindings(f, globals) ==
  IF f \in {"PyObject_CallNoArgs", "PyObject_CallOneArg"}
  THEN {globals} \cup {[globals EXCEPT ![n] = @ + 1] :
                         n \in {m \in DOMAIN globals : globals[m] \in 1 .. MaxRebinds}}
  ELSE {globals}

Arity(f) ==
  CASE f = "PyDict_New" -> 0
    [] f \in {"PyList_New", "PyTuple_New", "PyNumber_Negative", "PyNumber_Positive",
              "PyNumber_Invert", "PyObject_Not", "ConvertToPyBool", "IsPyTrue",
              "PyObject_GetIter", "PyIter_Next", "PyObject_CallNoArgs"} -> 1
    [] f \in {"PyList_SetItem", "PyTuple_SetItem", "PyDict_SetItem", "PyNumber_Power",
              "PyNumber_InPlacePower", "PyObject_RichCompare"} -> 3
    [] OTHER -> 2

-----------------------------------------------------------------------------
\* The C functions as the machine sees them: a set of [ret, heap, calls].
\* PyDict_SetItem refuses what is no dict: it returns -1 and stores nothing.

Outcome(r, heap, calls) == [ret |-> r, heap |-> heap, calls |-> calls]

SequenceStore(w, i, v, heap) == [heap EXCEPT ![w[2]].items[i[2] + 1] = v]

Outcomes(f, args, heap, calls) ==
  CASE f = "PyDict_New" ->
         {Outcome(NewBox(heap), Append(heap, [kind |-> "dict", items |-> <<>>]), calls)}
    [] f \in {"PyList_New", "PyTuple_New"} ->
         {Outcome(NewBox(heap),
                  Append(heap, [kind  |-> IF f = "PyList_New" THEN "list" ELSE "tuple",
                                items |-> [i \in 1 .. args[1][2] |-> NULL]]), calls)}
    [] f \in {"PyList_SetItem", "PyTuple_SetItem"} ->
         {Outcome(RawInt(0), SequenceStore(args[1], args[2], args[3], heap), calls)}
    [] f = "PyTuple_GetItem" ->
         {Outcome(ItemOf(args[1], args[2][2]), heap, calls)}
    [] f = "PyDict_SetItem" ->
         IF IsDictBox(args[1], heap)
         THEN {Outcome(RawInt(0),
                       [heap EXCEPT ![args[1][2]].items = DictStore(@, args[2], args[3])],
                       calls)}
         ELSE IF args[1] \in DictObjs
              THEN {Outcome(RawInt(0), heap, Logged(calls, "SetItem", args, RawInt(0)))}
              ELSE {Outcome(RawInt(-1), heap, calls)}
    [] OTHER ->
         {Outcome(r, heap, Logged(calls, f, args, r)) : r \in Results(f, args, calls)}
=============================================================================
