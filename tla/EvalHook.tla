------------------------------- MODULE EvalHook -------------------------------
(***************************************************************************)
(* The frame evaluation hook (PEP 523) and the activations it gets to see  *)
(* (src/src/raijit.cc): PyInit_raijit, enable, disable, the gate of the    *)
(* test mode, and the code area of each activation, mapped when the frame  *)
(* is evaluated and unmapped when it returns.                              *)
(*                                                                         *)
(* Threads call functions that call functions, and any of them may switch  *)
(* the hook, as may another user of PEP 523 (CPython is external, and so   *)
(* is that user).  Compilation and Disasm are one step with the evaluation *)
(* of the frame: they keep the interpreter lock.                           *)
(***************************************************************************)
EXTENDS Integers, Sequences

CONSTANTS
  Threads,     \* of the main interpreter
  Functions,   \* the Python functions they call
  TestFns,     \* those whose name starts with "raijit_test_"
  Builders,    \* those with BUILD_LIST, BUILD_TUPLE or BUILD_CONST_KEY_MAP
  Areas,       \* places mmap may return
  MaxDepth     \* bound: activations of one thread at a time

ASSUME HookAssumption ==
  /\ TestFns \subseteq Functions
  /\ Builders \subseteq Functions
  /\ MaxDepth \in Nat
  /\ "none" \notin Areas

VARIABLES
  hook,        \* the interpreter's frame evaluation function
  original,    \* original_eval_frame_func
  test_mode,   \* whether RAIJIT_TEST_MODE is set
  saved,       \* what the other user of PEP 523 replaced
  frames,      \* the activations of each thread, innermost last
  areas,       \* what is mapped
  spoilt,      \* the activations that found r12 or r13 changed by an inner one
  crashed,     \* the process is gone
  on,          \* history: enable was called later than disable
  alone,       \* history: since the import nobody else has switched the hook
  lost         \* history: the areas munmap was given a wrong address for

vars == <<hook, original, test_mode, saved, frames, areas, spoilt, crashed, on, alone, lost>>
activationVars == <<frames, areas, spoilt, crashed, lost>>

EvalFns == {"_PyEval_EvalFrameDefault", "RaijitEvalFrame", "other"}
Unset   == "NULL"
NoArea  == "none"

Frames == [fn : Functions, by : EvalFns, area : Areas \cup {NoArea}]

\* Another user may have been there first.
Init ==
  /\ saved \in {Unset, "_PyEval_EvalFrameDefault"}
  /\ hook = IF saved = Unset THEN "_PyEval_EvalFrameDefault" ELSE "other"
  /\ original = Unset
  /\ test_mode \in BOOLEAN
  /\ frames = [t \in Threads |-> <<>>]
  /\ areas = {}
  /\ spoilt = {}
  /\ crashed = FALSE
  /\ on = FALSE
  /\ alone = TRUE
  /\ lost = {}

-----------------------------------------------------------------------------
\* Switching the hook.

PyInit_raijit ==
  /\ original = Unset
  /\ original' = hook
  /\ alone' = TRUE
  /\ UNCHANGED <<hook, test_mode, saved, on, activationVars>>

\* Mutant: remembers what it replaces, also the second time.
enableSaves ==
  /\ original # Unset
  /\ original' = hook
  /\ hook' = "RaijitEvalFrame"
  /\ on' = TRUE
  /\ UNCHANGED <<test_mode, saved, alone, activationVars>>
\* Its result, whether the hook was another one, is left out.
enable ==
  /\ original # Unset
  /\ hook' = "RaijitEvalFrame"
  /\ on' = TRUE
  /\ UNCHANGED <<original, test_mode, saved, alone, activationVars>>

\* Mutant: assumes that nobody else uses the hook.
RestoredDefault == "_PyEval_EvalFrameDefault"
Restored        == original

disable ==
  /\ original # Unset
  /\ hook' = Restored
  /\ on' = FALSE
  /\ UNCHANGED <<original, test_mode, saved, alone, activationVars>>

\* The other user puts back what it found, as disable does.
OtherInstalls ==
  /\ saved = Unset
  /\ saved' = hook
  /\ hook' = "other"
  /\ alone' = FALSE
  /\ UNCHANGED <<original, test_mode, on, activationVars>>
OtherRemoves ==
  /\ saved # Unset
  /\ hook' = saved
  /\ saved' = Unset
  /\ alone' = FALSE
  /\ UNCHANGED <<original, test_mode, on, activationVars>>

\* os.environ is written through to the environment getenv reads.
SetTestMode ==
  /\ test_mode' = ~test_mode
  /\ UNCHANGED <<hook, original, saved, on, alone, activationVars>>

Switch == /\ ~crashed
          /\ PyInit_raijit \/ enable \/ disable \/ OtherInstalls \/ OtherRemoves \/ SetTestMode

-----------------------------------------------------------------------------
\* Activations.

Gated(fn) == test_mode /\ fn \notin TestFns

Evaluate(t, fn, by, area) ==
  frames' = [frames EXCEPT ![t] = Append(@, [fn |-> fn, by |-> by, area |-> area])]

\* CPython evaluates the frame itself: the hook is not raijit's, or the gate calls
\* _PyEval_EvalFrameDefault, whatever enable replaced.
Interpret(t, fn) ==
  /\ hook # "RaijitEvalFrame" \/ Gated(fn)
  /\ Evaluate(t, fn, IF hook = "other" THEN "other" ELSE "_PyEval_EvalFrameDefault", NoArea)
  /\ UNCHANGED <<areas, crashed>>

\* RaijitEvalFrame up to func().
Compile(t, fn) ==
  /\ hook = "RaijitEvalFrame"
  /\ ~Gated(fn)
  /\ \E area \in Areas \ areas :
       /\ areas' = areas \cup {area}
       /\ Evaluate(t, fn, "RaijitEvalFrame", area)
  /\ UNCHANGED crashed

\* mmap returns MAP_FAILED, and the prologue is written there.
OutOfMemory(t, fn) ==
  /\ hook = "RaijitEvalFrame"
  /\ ~Gated(fn)
  /\ Areas \subseteq areas
  /\ crashed' = TRUE
  /\ UNCHANGED <<frames, areas>>

Call(t) ==
  /\ ~crashed
  /\ Len(frames[t]) < MaxDepth
  /\ \E fn \in Functions : Interpret(t, fn) \/ Compile(t, fn) \/ OutOfMemory(t, fn)
  /\ UNCHANGED <<hook, original, test_mode, saved, spoilt, on, alone, lost>>

\* The code of a Builder returns with r12 and r13 changed (ReturnsToCaller in Jit),
\* and so does any function that called it, unless a C function in between saved
\* them.  RaijitEvalFrame is built with -O2 (src/src/CMakeLists.txt) and may keep
\* code_mem in one of them across func().
RegistersLost(t) ==
  LET depth == Len(frames[t])
      frame == frames[t][depth]
  IN  \/ frame.by = "RaijitEvalFrame" /\ frame.fn \in Builders
      \/ <<t, depth>> \in spoilt

SpoiltAfter(t) ==
  LET depth == Len(frames[t])
      rest  == spoilt \ {<<t, depth>>}
  IN  {rest} \cup (IF RegistersLost(t) /\ depth > 1 THEN {rest \cup {<<t, depth - 1>>}} ELSE {})

\* munmap behind func().  It refuses an address that is not its page's first, as a
\* container's hardly ever is.
\* Mutant: only the fallback unmaps.
LeakedAreas(t, area) == {areas}
AreasAfter(t, area)  == {areas \ {area}} \cup (IF RegistersLost(t) THEN {areas} ELSE {})

\* The innermost activation of a thread ends.
Return(t) ==
  /\ ~crashed
  /\ frames[t] # <<>>
  /\ LET area == frames[t][Len(frames[t])].area
     IN  /\ areas' \in AreasAfter(t, area)
         /\ lost' = lost \cup (IF RegistersLost(t) THEN areas' \cap {area} ELSE {})
  /\ spoilt' \in SpoiltAfter(t)
  /\ frames' = [frames EXCEPT ![t] = SubSeq(@, 1, Len(@) - 1)]
  /\ UNCHANGED <<hook, original, test_mode, saved, crashed, on, alone>>

\* What else the build keeps in r12 or r13 across func(), in RaijitEvalFrame the
\* buffers of code_addr and reloc_patch it has to free, is not there any more.
Misled(t) ==
  /\ ~crashed
  /\ frames[t] # <<>> /\ RegistersLost(t)
  /\ crashed' = TRUE
  /\ UNCHANGED <<hook, original, test_mode, saved, frames, areas, spoilt, on, alone, lost>>

Next == Switch \/ \E t \in Threads : Call(t) \/ Return(t) \/ Misled(t)

Spec == Init /\ [][Next]_vars
-----------------------------------------------------------------------------
(***************************************************************************)
(* Properties.                                                             *)
(***************************************************************************)

\* The types of the hook's state and of the activations.  What disable puts back is
\* never raijit's own function.
HookTypeOK ==
  /\ hook \in EvalFns
  /\ original \in (EvalFns \ {"RaijitEvalFrame"}) \cup {Unset}
  /\ test_mode \in BOOLEAN
  /\ saved \in EvalFns \cup {Unset}
  /\ frames \in [Threads -> Seq(Frames)]
  /\ areas \subseteq Areas
  /\ spoilt \subseteq Threads \X (1 .. MaxDepth)
  /\ crashed \in BOOLEAN
  /\ on \in BOOLEAN
  /\ alone \in BOOLEAN
  /\ lost \subseteq Areas

\* enable and disable, called any number of times by any thread, in whatever
\* activation, switch between raijit and what was installed when the module was
\* imported, as long as nobody else uses the hook in the meantime.  (With another
\* user, disable may throw its function out, and that user may bring raijit's back.)
SwitchWorks ==
  original # Unset /\ alone => hook = IF on THEN "RaijitEvalFrame" ELSE original

\* The activations that are compiled, by thread and depth.
FrameAt(c) == frames[c[1]][c[2]]
Compiled   == {c \in Threads \X (1 .. MaxDepth) :
                 c[2] <= Len(frames[c[1]]) /\ FrameAt(c).by = "RaijitEvalFrame"}
AreaOf(c)  == FrameAt(c).area

\* Every activation that runs compiled code has an area of its own, whoever disables
\* the hook or sets the test mode while it runs: what is unmapped is never
\* another activation's code.  Nothing else stays mapped but the areas of
\* activations whose code, or that of a function they called, changed the
\* register code_mem was in.
AreasMatchActivations ==
  /\ areas = {AreaOf(c) : c \in Compiled} \cup lost
  /\ \A c \in Compiled : AreaOf(c) \notin lost
  /\ \A c, d \in Compiled : AreaOf(c) = AreaOf(d) => c = d
=============================================================================
