# A TLA+ model of raijit

raijit (`src/`) is a method JIT compiler for CPython 3.12 on x86-64: a Python
extension module that replaces the interpreter's frame evaluation function
(PEP 523) by one that translates the bytecode of a function to machine code, runs
that code once and throws it away. These modules model the translation, the
execution of what it produces, the listing and the files it leaves behind, and the hook
itself. They are checked with TLC, and what does not depend on the Python functions at hand
is proved with TLAPS.

## 1. Inventory

### Components

| component | source | state it keeps | operations |
|---|---|---|---|
| Instruction encoders | `src/src/write_insts.cc`, `.h` | none | one `Write*` function per instruction: appends bytes, returns the address behind them |
| Opcode switch | `src/src/raijit.cc:166-629` | none of its own | one `case` per opcode: a series of `Write*` calls, for jumps a `RelocPatch` |
| Compiler loop and relocation | `src/src/raijit.cc:125-643` | code area, `code_ptr`, `code_addr`, `reloc_patch` | prologue, loop over the ops, loop over the patches |
| Execution of the code | the generated code, `raijit.cc:652-657` | registers, machine stack, `localsplus`, the heap of Python objects | one instruction at a time; calls into CPython |
| Hook installation | `src/src/raijit.cc:663-710` | `original_eval_frame_func`, the interpreter's eval function | `PyInit_raijit`, `enable`, `disable`, the `RAIJIT_TEST_MODE` gate |
| Disassembly files | `src/src/disasm.cc` | `offset`, `opcode_count`; a file per compilation, a symbolic link per function name | `Disasm`: the listing, and the system calls around it |
| Opcode names | `src/src/opcode_table.cc` | a table | `OpcodeToString` |
| Helpers | `src/src/raijit.cc:38-112` | none | `ConvertToPyBool`, `IsPyTrue` (called by the code); `PyLongAdd`, `PyLongSub` (called by ops that never appear); others (called by nothing) |
| Logging | `src/src/log.h` | none | |
| Build, scripts, tests | CMake files, `scripts/`, `ci/`, `opcode_tests/`, `app_tests/`, `users/` | | |

### How they interact

A frame is evaluated on the thread that calls the Python function. CPython calls
`RaijitEvalFrame` instead of its own evaluation function. That one calls the
encoders through the switch, op by op, then patches the `rel32` operands of the jumps,
lets `Disasm` write the code out, and calls the area as a C function without arguments
(`func()`). The generated code calls CPython's C API, which runs arbitrary Python
code, and so comes back to `RaijitEvalFrame` for nested functions. The area is
unmapped when `func()` returns; a function is compiled again for every call.

What activations share is the hook (one per interpreter; `enable` and `disable` may be called in the
middle of any of them, and other modules may use PEP 523 too), the address space
their areas come from, and, with other processes, the temporary directory: the link there is named after
the function alone, and the file after the function and a clock of milliseconds.

The generated code keeps the value stack of the bytecode on the machine stack, on top
of the frame `push rbp; mov rbp, rsp` makes. Every case pops its operands into the
argument registers, calls a C function, and pushes `rax`. Containers under construction
are kept in `r12` and `r13`. There is no run-time support: nothing compares the result
of a call with NULL, and nothing counts references.

### What is hard here

There is no lock. Most of the difficulty is in long sequences of steps whose parts are
far from each other in the source, the rest in the few things activations share:

- the three ways of counting: op indices with caches, offsets in the code area, and
  displacements from behind an instruction (`raijit.cc:471-504`, `594-601`, `631-640`);
- a capacity check at the head of the loop and writes everywhere else (`raijit.cc:160`);
- the machine stack used for three things at a time, with a depth that depends on the
  path through the bytecode, and an ABI that wants it aligned at calls
  (`write_insts.cc:236-263`);
- operands in the order each C function wants, and registers that survive or do not
  survive the calls in between;
- calls that fail, rebind globals, or return conditions that are no bool;
- references that are borrowed, stolen or new, with one `Py_INCREF` in all the code
  (`raijit.cc:655`);
- `exists`, `remove`, `create_symlink` and `fopen` on names that other processes use, and may
  die in between (`disasm.cc:30-41`);
- a hook that is switched while what it installed is running, with areas mapped and
  unmapped by several threads (`raijit.cc:143`, `653`, `671`).

`PROJECT.json` lists each under `hazards`, with its line.

### What makes each component correct

- *Encoders*: five instructions around a call align the stack and restore it, whatever
  its alignment was (`CallInv`, `ImplementsAlignedCall`).
- *Switch*: every case has the effect of its opcode (`ImplementsBytecode`) and
  its stack effect on every path (`StackEffects`, `StackAtDepth`, `IterProtocol`).
- *Compiler*: every jump is patched once and leads to the op it should (`JumpsLand`,
  `RelocNeverAborts`, `CompileInv`); code stays in the area (`CompileTypeOK`,
  `CodeInsideArea`); compilation ends (`CompileEnds`).
- *Execution*: what the caller of `func()` has in its frame and registers is intact
  (`FrameIntact`, `ReturnsToCaller`), control stays on instructions (`JitTypeOK`), an
  activation ends (`ActivationEnds`).
- *Hook*: `enable` and `disable` switch between raijit and what was there before (`SwitchWorks`);
  every running activation has an area of its own, and nothing else stays mapped but where the
  address went with `r12` or `r13` (`AreasMatchActivations`).
- *Disassembly*: the listing has every instruction once and every op at its first one
  (`ListingInv`), and a name for each (`ListingEnds`, `ListingNeverAborts`); a process prints its own listing (`PrintsOwnListing`); the link named
  after a function leads to a complete file but for the moments it cannot (`LinkLeads`,
  `SettlesOnAListing`), and only another process makes `create_symlink` throw (`TripsOverOthersOnly`).
- *References*: while the lists and tuples an activation built are alive, nothing is freed that a local, the stack or its
  caller may hold (`ReferencesCovered`).

## 2. The modules

```
 X86   CodeObject                   instructions; bytecode format and stack effects
   \    /    \
  Emitter    CPython                the switch; the C API as the code uses it
     |        |     \
  Compiler    |    Bytecode         compile loop and relocation; the value stack machine
   |    |     |      :
   |    +--- Jit - - -              compile, then run; refines Bytecode
   |          |
   |       Ownership                the references an activation owes
   |
   +-- Disasm -- OpcodeTable        the listing behind the compiler; the names

 CallSequence - - - AlignedCall     WriteCallRax; refines AlignedCall
 DisasmFiles                        what becomes of the listing's file and link
 EvalHook                           the hook and the areas of the activations
```

(a solid line is EXTENDS, a dotted one a refinement)

and of the proofs:

```
 EmitterProofs -- CompilerProofs -- DisasmProofs --\
                                             Jit -- StackProofs --\
                                                        Ownership -- JitProofs
 CallSequenceProofs     DisasmFilesProofs     EvalHookProofs
```

| module | models | how its definitions correspond to the code |
|---|---|---|
| `X86` | `write_insts.cc`, `.h` | one operator per `Write*` function, of the same name: the instruction as a record. `InsLen` is how far the function advances the pointer. Machine words are tagged pairs, so that an object, a raw integer and the address of a C function are never equal by accident. Offsets of `mov rdi, [rsp + off]` are 8 bit and signed. |
| `CodeObject` | CPython (external) | which ops jump and where to, caches, stack effects; `Balanced` is the discipline of CPython's compiler, which counts how deep the stack is in front of each op to size it |
| `Emitter` | the switch | one operator per `case`, of the same name: the sequence of instructions it appends. `Template` is the `switch`; `Compilable` says which opcodes and operands do not end in `LOG(FATAL)` or a failing `CHECK`; `JumpOpIndex` is the `.jump_op_index` the jump cases compute |
| `Compiler` | `RaijitEvalFrame` up to `compile_success` | `Emit` is one `Write*` call (`todo` holds those the case still has to make), with the `emplace_back` behind a jump; `BeginOp` the head of the loop with its `CHECK_LE`; `Overrun` a write behind the area that hits unmapped memory; `Patch` a round of the relocation loop with its `CHECK_EQ`; `EndOps`, `EndReloc` the ends of the loops |
| `Jit` | `func()` and the code behind it | one action per kind of instruction on `reg`, `zf`, `stk`, `localsplus`; `CallReturns`, `CallAborts`, `CallCrashes` are the three ends of a call; `Ret` includes `munmap` and `Py_INCREF(result)` |
| `CPython` | CPython (external) | what the C functions return and do: a log of calls, a heap of containers built by the code, and rebindings of globals |
| `Bytecode` | CPython (external) | the abstract specification: the value stack machine for the opcodes the switch has a case for |
| `CallSequence` | `WriteCallRax` | its five instructions, one action each, on a stack of words |
| `AlignedCall` | what `WriteCallRax` is for | the abstract specification: a call on an aligned stack that keeps `rsp` and everything above |
| `Ownership` | `Py_INCREF(result)`, and what the C functions return, borrow and steal | `own` counts, by object, the references handed to the activation less those it has given away; `AfterCall` and `AfterReturn` are joined to the steps of `Jit`. Which C functions steal (`Stealing`) and which return a new reference is the C API's documentation (external); which objects reach them, and in which slots they end up, is the code's |
| `OpcodeTable` | `opcode_table.cc` | `opcode_to_name` is the set of opcodes with an entry; `HasName` says whether `OpcodeToString` returns |
| `Disasm` | the loop of `Disasm` | `ListInstruction` is one round: `OpStarts` its condition, `HeadOfNextOp` what `code_addr[opcode_count]` may read, `AsChar` the `%d` of a `char`. It runs on the code `Compiler` wrote, in the same specification |
| `DisasmFiles` | the system calls of `Disasm` | one action per call, per process: `ReadClock`, `Exists`, `Remove`, `CreateSymlink` or `CreateThrows`, `Open`, `Write`, `Dump`; `Die` anywhere in between |
| `EvalHook` | `PyInit_raijit`, `enable`, `disable`, the gate of the test mode, `mmap` and `munmap` | one action per function; `Call` starts an activation on a thread (`Interpret`, `Compile`, `OutOfMemory`), `Return` ends the innermost one with its `munmap`. Code of `Builders` leaves `r12` and `r13` changed (`RegistersLost`, `spoilt` for what called it), and then `Return` may unmap nothing, as the build may have `code_mem` in one of them, or the process may go on wrongly and end (`Misled`). `OtherInstalls` and `OtherRemoves` are another user of PEP 523 (external) |
| `MCCompiler`, `MCJit`, `MCCallSequence`, `MCDisasmFiles`, `MCEvalHook` | | the instances TLC checks; `MCCompiler` is `Disasm` with `Compiler`, `MCJit` is `Ownership` with `Jit` |
| `EmitterProofs`, `CompilerProofs`, `DisasmProofs`, `StackProofs`, `JitProofs`, `CallSequenceProofs`, `DisasmFilesProofs`, `EvalHookProofs` | | theorems and proofs |

How the parts compose: `Disasm` and `Jit` both go on where `Compiler` has got to `phase = "ready"`, each leaving
its variables alone, and `DisasmFiles` takes a listing as a unit that is written in chunks. `EvalHook`
takes an activation as a whole, from the mapping of its area to the unmapping. What a nested
activation does to the one that called it, besides logging calls, is what `ReturnsToCaller` lets it do to `r12` and `r13`: a
call that runs Python code returns them `Clobbered` in `Jit`, and `ReturnsToCaller` is checked under this
assumption about the inner activations (induction over the depth of the nesting, the induction itself is not
formalised).

Two variables of `Jit` are not in the code. `live` holds the bindings of the
global names, which are CPython's. `seen` is a history variable: whenever control
reaches the first instruction of an op, it takes down the op, the words on the machine
stack since the prologue, the locals, the containers and the call log. The refinement
mapping of `ImplementsBytecode` reads the state of `Bytecode` off `seen`.
`STORE_SUBSCR` leaves its container on the stack (`raijit.cc:205`). When nothing else is
on the stack, as at the end of a statement outside a for loop, that is a word at the bottom nobody
looks at. `seen.leaked` counts these words and the mapping skips them. When there is
something below, the container lies on top of it, and that is the finding
`setitem_in_for`.

Operators under the comment "Mutant:" are variants of the operator that follows them,
with a plausible bug. They are used by nothing in the specifications, only
to see that the property they are listed with in `PROJECT.json` fails with them.

## 3. What the runs check

Run with `tlc -config <cfg> <module>`. *pass* means TLC explores every state and finds
no error.

| run | module, cfg | question | result |
|---|---|---|---|
| `compiler` | `MCCompiler`, `MCCompiler.cfg` | every bytecode of at most 4 ops over an alphabet with all four jump ops and all operands that can land inside, an op without a case, an operand above 127, and a name that may be unbound, and each other op with a case once: do the patches match the jumps throughout, do the jumps land, can `CHECK_EQ` fail, is every op listed once and at its first instruction, does no op with a case lack a name, and do both end? | pass, 250k states |
| `functions` | `MCJit`, `MCJit.cfg` | fourteen functions, most of them modelled on `opcode_tests` and `app_tests`, and every kind of op followed by every other: does the machine code do what the bytecode does, does nothing an op relies on depend on the registers the previous one or a nested activation used, does it return to its caller and end, and is each reference it gives away without holding it in a slot of its own? | pass, 73k states |
| `errors` | `MCJit`, `MCJitErrors.cfg` | the same, and the functions of `copy` and `setitem_in_for`, with calls that may return NULL or -1, which the code does not look at: is the machine stack as deep in front of each op as CPython's compiler counts, are the saved `rbp` and the return address safe? | pass, 94k states |
| `call_sequence` | `MCCallSequence`, `MCCallSequence.cfg` | is the callee entered on an aligned stack, are `rsp` and the stack restored? | pass |
| `files` | `MCDisasmFiles`, `MCDisasmFiles.cfg` | processes that compile functions of one name at the same time and may die anywhere: where does the link lead, what is printed, who makes `create_symlink` throw, is a link left that leads to a file? | pass, 1.5M states |
| `hook` | `MCEvalHook`, `MCEvalHook.cfg` | threads with nested activations, `enable`, `disable`, the test mode and another user of the hook, in any order, where one of two functions builds a container: what is installed, what is mapped? | pass, 830k states, threads and areas being interchangeable |
| `area` | `MCCompiler`, `MCCompilerArea.cfg` | does `CHECK_LE` keep the code inside the area? | violated |
| `overread` | `MCCompiler`, `MCCompilerOverread.cfg` | does the listing read `code_addr` inside its bounds? | violated |
| `copy` | `MCJit`, `MCJitCopy.cfg` | `pos[0] -= 1.0` (`copy.py`) | violated |
| `setitem_in_for` | `MCJit`, `MCJitSetItem.cfg` | a store to a dict inside a for loop | violated |
| `inplace_pow` | `MCJit`, `MCJitPow.cfg` | `a **= b` (`inplace.py`) | violated |
| `stale_global` | `MCJit`, `MCJitGlobal.cfg` | a global rebound by a call in the middle of an activation | violated |

The violated ones are the findings in `PROJECT.json`; each quotes the line of the
repository that says otherwise. `copy`, `inplace_pow` and `stale_global` refute the refinement on one
small function, which the counterexample follows op by op; the others refute an invariant. `ListingInv`
holds although `ReadsInside` does not: it is checked with whatever the read behind the end may give.

Two wrong results need no run, because the cases show them: `is not` and `not in`
ignore the operand that negates (`raijit.cc:172`), and `a + b` goes on with NULL when `+` raises. They are listed as hazards,
and the passing runs have the positive forms, and calls that succeed where results matter.

### Bounds

- *Compiler*: `MaxOps = 4` ops is enough for a jump over an op in both directions,
  two jumps in either order, nested and crossing jumps, and a jump to itself. Each of the 35 ops with a case occurs
  (`CasePrograms`; of those whose operand selects a callee, one operand). The area of
  100 bytes is one that a few of the bytecodes do not fit, so that `Overrun` and the
  failing `CHECK_LE` happen. Neither bound is in the theorems.
- *Jit*: at most `MaxCalls = 9` logged calls (6 in `errors`) before iterators are exhausted and
  comparisons come out false. Loops run up to several rounds and nested loops end and start
  again inside them. `MaxRebinds = 1`: a global changes at most once. `NLocals = 3`. The code
  area has its real size. `EntryRsp` stands for any address that is 8 modulo 16: the
  words have tags, so its value is never confused with data.
- *Pairs* (in `functions` and `errors`): operands 0 to 3 where they count elements. Every operator of
  `BINARY_OP` (but the one in `inplace_pow`) and of `COMPARE_OP` occurs, but only one of each shape is paired with every op: they
  differ in the callee only. The cases read no state but operands and
  registers, so interference between ops, if any, shows in a pair.
- *Depths*: `MCStackDepth` works the depths out in one pass over a function, as CPython's compiler does, and
  TLC's evaluation of `DepthAssumption` confirms that every function and every pair of the runs is balanced.
- *CallSequence*: six slots are enough for stack tops of both alignments with words
  above and below. The theorems are for any stack.
- *DisasmFiles*: three processes, so that two can disturb a third; one of them compiles twice, so that it meets its own
  link again; two values of the clock, so that listings do and do not share a name; two chunks, so
  that a file is seen half written. The theorems are for any of these; `SettlesOnAListing` rests on the run.
- *EvalHook*: two threads, depth 2 and three areas, so that both nesting and interleaving occur and `mmap`
  fails one activation before the limit; of the two functions, one is a test and the other builds a container. The theorems are for any of these.

### Fairness

`CompileSpec`, `DisasmSpec`, `JitSpec` and `OwnSpec` assume weak fairness of their next-state relation: the thread
goes on as long as it can. `RaijitEvalFrame`, `Disasm` and the generated code run straight
through on the thread that called the function, without waiting for anything. A C function
that is called returns, and iterators are finite (`MaxCalls`): `ActivationEnds` is about the
generated code, not about Python code that loops. `CompileEnds` excludes
what does not end in compiled code by design (an op without a case, an unbound global, no
room), and says nothing else can stop it, a failing `CHECK_EQ` included. `ListingEnds` has no such exception.
`DisasmFiles` assumes that each process in the middle of `Disasm` makes its next system call, unless it dies
(`WF_vars(Call(p))`): none of these calls waits for another process. It does not assume that a process compiles again, or that
the clock moves. `EvalHook` has no liveness property and assumes nothing. No other
property depends on fairness. Deadlock is not checked, because a compilation or an activation that
has ended is the end of the behaviour.

## 4. What is proved

For every set of bytecodes, bindings and area size, a stack of any size, any number of processes, listings, threads,
functions and areas:

| theorem | says |
|---|---|
| `CompileTypes` | `CompileSpec => []CompileTypeOK`: in particular no op starts behind the end of the area |
| `CompileBookkeeping` | `CompileSpec => []CompileInv`: the list of patches describes the jumps in the code, throughout |
| `JumpsLandRight` | `CompileSpec => []JumpsLand`: a jump of the finished code leads to the first byte of the op CPython's arithmetic names |
| `RelocationSucceeds` | `CompileSpec => RelocNeverAborts` |
| `TemplateType` | each case of the switch emits a sequence of instructions, with a jump only as the last one and only in the four jump ops |
| `CallInvariant` | `Spec => []CallInv`: `rsp` and the copies of it, instruction by instruction |
| `CallSequenceCorrect` | `Spec => ImplementsAlignedCall`: the refinement |
| `ListingCorrect` | `DisasmSpec => []ListingInv`: the instructions tile the code, and every op is listed once, at its first instruction |
| `ListingNeverAborts` | `DisasmSpec => [](disasm = "listing")`: every op whose code has been written has an entry in the table of names, so that `OpcodeToString` never ends the process |
| `ControlStaysOnInstructions` | `JitSpec => []ControlStays`: the running code is always at the first byte of an instruction (or behind the last one, where bytecode that runs off its end leads) |
| `TemplateShape` | what each of the 35 cases writes moves the machine stack by the stack effect of the opcode (one word more for `STORE_SUBSCR`, which leaves its container), takes no word that was there but those the op pops, and writes `r12` and `r13` in the cases that build containers only |
| `CodeLaidOut` | `CompileSpec => []CodeComplete`: when the code is called, what the case of each op wrote is there whole, from the op's address to the next one's |
| `FrameStaysIntact` | `JitSpec => []FrameIntact`: the value stack never reaches the saved `rbp` and the return address, and `ret` finds both |
| `StackAtCPythonsDepth` | `JitSpec => []StackAtDepth`: in front of each op, on every path, the machine stack is as deep as CPython's compiler counts (and the containers `STORE_SUBSCR` left) |
| `OpsKeepStackEffects` | `JitSpec => StackEffects`: from one op to the next the value stack, which leaves out the containers `STORE_SUBSCR` left, moves by the op's stack effect, whatever the calls returned |
| `CallerFindsItsFrame` | `JitSpec => []ReturnsToCaller`: the caller gets `rsp` and `rbp` back, and `r12` and `r13` from code that builds no container |
| `MachineTyped` | `JitSpec => []JitTypeOK`: `rsp` stays aligned to slots and below the caller's frame, and `rip` on an instruction |
| `TypesOfTheFiles`, `TheLinkLeads`, `OwnListingPrinted`, `OthersTripIt` | `Spec => []FilesTypeOK`, `[]LinkLeads`, `PrintsOwnListing`, `TripsOverOthersOnly` of `DisasmFiles` |
| `TypesOfTheHook`, `EnableDisableSwitch`, `OneAreaPerActivation` | `Spec => []HookTypeOK`, `[]SwitchWorks`, `[]AreasMatchActivations` of `EvalHook` |

*Compiler.* `JumpsLand` is not inductive. It is about the end of compilation, and
the reasons are in the middle of it. `CompileInv` is the strengthening. It says
of each patch that its `addr` is an operand of a jump that belongs to op `cur_op_index`, that
`addr + 4 + addend` is where that op starts, and that the operand is the dummy until the patch's
turn and the displacement after it (`PatchInv`). Operands ascend strictly, so no two
patches share one (`PatchesAscend`; this is what makes `CHECK_EQ` succeed, and
what keeps one patch from changing another). Each jump in the text has a patch
(`JumpsPatched`). Together with `CompileTypeOK` and the type of `todo` (`IInv` of
`CompilerProofs`) it is inductive: one lemma for `Emit`, `BeginOp`, `Patch`, and the steps that
only change `phase`. At the end, the displacement added to the address behind the
jump cancels to `code_addr` of the target, and `JumpOpIndexIsTarget` shows that the source's
`+ 2` for `FOR_ITER` and `+ 1` elsewhere agree with CPython's rule about caches.
The inputs of the switch that `Emit` depends on come from `EmitterProofs`, which goes through all
the cases, with the loops of `BUILD_*` by arithmetic on the index instead
of induction.

*Call sequence.* `CallInv` is inductive as it stands. The one arithmetic fact is `AlignedTop`:
`(top - 16) - ((top - 16) % 16)` is `top - 16` or `top - 24`, so that `[rsp + 8]` is the first or the second of
the two copies.

*Listing.* `ListingFaithful` is about the instructions printed so far; it is preserved because the loop cannot pass
an op: `CodeTiled` says that instructions follow one another without a gap and that ops start at different instructions
(each case writes at least one, `Code` in `EmitterProofs`), and `ListingPosition` that the next op to comment is not behind
`offset`. `DisasmInv` adds the compiler's `IInv`, for the steps in which the code is still being written. For `ListingNeverAborts`
the invariant is that each op begun has a name (`NamesInv`), which goes through the opcodes `Compilable` lets pass (`EveryCaseNamed`).

*Specifications with something beside them.* `DisasmSpec` is the compiler with a listing behind it, and `OwnSpec` an activation with
an account beside it. Two lemmas (`CompilerUndisturbed`, `AccountUndisturbing`) note that neither changes what it watches, so that
the theorems about `CompileSpec` and `JitSpec` hold of the specifications the runs check; they say nothing about the code.

*Control.* `ControlInv` is the compiler's `IInv`, `CodeTiled`, and where `rip` is. An instruction that does not
jump leads to the one behind it (`CodeTiled`); one that does leads to the head of an op, which is what
`JumpsLand` says. So the theorem joins the arithmetic of the compiler to the execution.

*Frame.* None of the properties about the machine stack is inductive: in the middle of an op the stack is deeper
or shallower than the bytecode means, and how deep depends on how far the op has got. The argument has three parts.

1. *The switch* (`StackProofs`). The levels `P` of a sequence of instructions say how many words the first `k` of them leave
   on the stack. `Works(W, need, total)` is the set of sequences whose levels stay at or above `-need` and end at `total`, and which change `rsp` by pushes
   and pops only, `rbp` not at all, and of `r12` and `r13` those in `W` only. Levels add up under concatenation (`WorkConcat`), which gives one lemma for each
   helper and case of the switch, and `TemplateShape` for all of them. The loops of the `BUILD_` cases are concatenations of rounds of equal length; their levels are
   given outright, by division with remainder (`WorkRounds`), since induction over the rounds is out of reach.
2. *The layout* (`StackProofs`). `LayoutInv` follows the compiler: of each op begun, the part of its template already written is in the text, instruction after
   instruction, and `todo` is the rest. Relocation changes operands only. At the end every op is whole (`CodeLaidOut`).
3. *The machine* (`JitProofs`). `FrameInv` says where control is: at instruction `k` of the prologue, with the caller's registers untouched, or at
   instruction `k` of the code of an op `i`, with the stack at `Depth(i) + seen.leaked + P[k - 1]` words under an intact frame. `FrameBuilt` says so up to `leave`,
   `CallerFrame` behind it. The step from one instruction to the next is `WorkStep`; the step to another op (`ArriveNext`) is where the depths CPython's compiler
   assigns to the two ops have to fit, and `HeadsApart` where it is needed that no op starts inside another. That an op finds its operands is `Balanced`; that the words below are
   the frame's, and not the op's, is the lower bound on the levels. A call keeps the words at and above `rsp` and so the frame.

The depths come from `DepthAssumption`: CPython's compiler computes the depth of the stack in front of each op in order to know the frame's size,
and would not compile a function in which two paths disagree or an op finds too little. The assumption says this of the bytecode
and nothing of raijit; the theorems say that raijit's machine stack, on which nothing checks a bound, keeps to it. They hold for failing calls too (`ApiMayFail` is either), because no
case looks at a result, and for the ops of the findings: COPY and SWAP read and write the wrong words, and `STORE_SUBSCR` leaves one, but none
of them unbalances the stack.

*Files.* `LinkLeads` follows from how far the maker of the link has got, and that from the history of who
opened which file. `FilesInv` is `FilesTypeOK` with four parts: a file exists once it was opened, and one with a single
opener holds what that one has written (`FilesOpened`); a link leads to the file its maker opened, is about to open, or died before
opening (`LinkMade`); when the maker is done and nobody else opened the file, it is whole (`LinkWhole`); and a process about
to make its link finds none of its own and none that it removed (`LooksInv`), from which `OthersTripIt` follows.

*Hook.* `SwitchWorks` needs to know that raijit's function is nowhere, in the hook or with the other user, before the
import (`ImportFirst`): otherwise `PyInit_raijit` would take it for what it has to restore. `AreasMatchActivations` needs that
interpreted activations have no area (`FramesInv`), so that their end unmaps nothing; it is then preserved by `Call`, which maps what
is not mapped, and by `Return`, because no two activations share an area: it unmaps the area of the one that ends or, where the registers
were lost, moves it to `lost`. The switches touch the first pair, calls and returns the second.

Assumptions on the constants: `ProgramsAssumption` (ops and operands are
bytes, jumps lead to an op of the same code object, as CPython's compiler guarantees),
`BindingsAssumption` (bindings are defined for the names the bytecode uses), `AreaAssumption`
(a natural number), `SlotsAssumption` (slots are 8 bytes apart and may hold addresses of slots),
`StackTops` (the call has three words of stack below it), `FilesAssumption` (numbers, and a listing takes at least one write),
`HookAssumption` (test functions and builders are functions; "none" is no area), `EntryAssumption` (`rsp` is 8 modulo 16, System V), `DepthAssumption` (see *Frame*). TLC evaluates
the `ASSUME`s on every run.

*Model-checked only.* `CompileEnds`, `ListingEnds`, `ActivationEnds` and `SettlesOnAListing` are liveness properties, which the proof
system does not handle under fairness. `ReferencesCovered` depends on which word is in `rdx` at a call, as `ImplementsBytecode` does. Of `Jit`, `ImplementsBytecode` is checked on the functions and the pairs above: it is false for the ops of the findings, and a proof
for the others has to follow the words on the stack, and not only their number, through every case. So is the induction over nested activations that joins
`CallerFindsItsFrame` to the assumption `Clobbered` makes about inner ones.

## 5. What is not modelled

- The bytes of instructions. A wrong opcode byte or a wrong register field
  is outside the model; an instruction is what the comment and the name of its encoder say.
- What a failed call leaves behind: the exception that is set, and what `RaijitEvalFrame` returning NULL does to CPython. The `errors` run
  follows the stack only.
- The lifetime of objects: `Ownership` has the balance of references of one activation while the containers it built live. When each `[1.0, 2.0]`
  is freed later, a reference of `co_consts` is gone that nobody gives back; and the references to the code object
  that `raijit.cc:131` never drops are a leak it does not look for.
- The frame: it is neither cleared nor popped when the activation ends (`raijit.cc:656`), and CPython's frame stack
  is not modelled.
- What becomes of C and C++ callers whose `r12` or `r13` was changed, but for `code_mem` (an area that stays mapped) and the end of the process. An
  address in them that is not a page's is refused by `munmap`; that of a container could by chance be one.
- The contents of the area are those just written; permissions are left out.
- The results of `enable` and `disable`; subinterpreters.
- Zydis, which decodes the code for the listing: it is taken to find the instructions the encoders wrote. The bytes and the wording of a line
  of the listing are left out, and the five instructions of `WriteCallRax` are one.
- The temporary directory's permissions (with the sticky bit, `remove` throws over another user's link) and its size: a file per activation stays there.
  The read of the file at the end of `Disasm` is one step.
- Errors raised by `BUILD_*` (out of memory, unhashable keys), and the values of
  Python objects: objects are names, and a call returns a fresh one.
- The self-or-NULL slot under a callable, which the repository's code leaves out, is left
  out of `Bytecode` too. A `LOAD_ATTR` for a method is one value in both.
- `EXTENDED_ARG` has no case in the switch: compilation aborts (checked in `compiler`). What `Bytecode` would do
  with it is left out.
- Dict displays with equal keys. `BUILD_MAP` and `BUILD_CONST_KEY_MAP` store the pairs last to
  first (`raijit.cc:283-291`), so of `{a: b, a: c}` the first value stays, where `Bytecode` keeps
  the last. No run has such a display. The order of the keys of a dict, which is reversed for the same
  reason, is not looked at.
- Encoders nothing calls; helpers nothing calls; the specialised opcodes `BINARY_OP_ADD_INT` and
  `BINARY_OP_SUBTRACT_INT` are in the switch and in `Emitter`, but `PyCode_GetCode` never returns
  them, so `Jit` does not know their callees.
- Logging, the build and the scripts.

## 6. Plan

The order was: the compiler, because everything else executes what it writes; the call sequence,
because every call depends on it; then execution against the bytecode; then what the
activations share, the hook and the files; and theorems about each as TLC had agreed.

Done: all components with behaviour of their own, and the proofs of section 4.

To come:

1. What each case of the switch leaves in the words on top of the stack and passes to its callee, next to `TemplateShape`, towards `ImplementsBytecode` for
   bytecode without the ops of the findings: `FrameInv` has the places of the words, what is missing is their contents.
2. The induction over nested activations, with a depth as a parameter of `Jit`.
