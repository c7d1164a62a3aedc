---------------------------- MODULE EvalHookProofs ----------------------------
(***************************************************************************)
(* Proofs about EvalHook for any threads, functions, areas and depth of    *)
(* calls.                                                                  *)
(***************************************************************************)
EXTENDS EvalHook, SequenceTheorems, TLAPS

\* Raijit's function can be found in the hook, or with the other user, only after
\* the import.
ImportFirst ==
  original = Unset => hook # "RaijitEvalFrame" /\ saved # "RaijitEvalFrame" /\ ~on

\* An interpreted activation has no area its end could unmap.
FramesInv ==
  \A t \in Threads :
    /\ Len(frames[t]) <= MaxDepth
    /\ \A d \in 1 .. Len(frames[t]) :
         frames[t][d].by # "RaijitEvalFrame" => frames[t][d].area = NoArea

\* The inductive invariant, in its two parts: the switches touch one, calls and
\* returns the other.
SwitchInv == ImportFirst /\ SwitchWorks
HookInv == HookTypeOK /\ SwitchInv /\ FramesInv /\ AreasMatchActivations

switchVars == <<hook, original, saved, on, alone>>

-----------------------------------------------------------------------------
\* The parts depend on their variables only.

LEMMA FramesKept ==
  ASSUME FramesInv, AreasMatchActivations, UNCHANGED <<frames, areas, lost>>
  PROVE  FramesInv' /\ AreasMatchActivations'
<1>1. Compiled' = Compiled
  BY DEF Compiled, FrameAt
<1>2. ASSUME NEW c PROVE AreaOf(c)' = AreaOf(c)
  BY DEF AreaOf, FrameAt
<1>3. {AreaOf(c) : c \in Compiled}' = {AreaOf(c) : c \in Compiled}
  BY <1>1 DEF AreaOf, FrameAt
<1>4. FramesInv'
  BY DEF FramesInv
<1> QED BY <1>1, <1>2, <1>3, <1>4 DEF AreasMatchActivations

LEMMA SwitchKept ==
  ASSUME SwitchInv, UNCHANGED switchVars
  PROVE  SwitchInv'
  BY DEF SwitchInv, ImportFirst, SwitchWorks, switchVars

LEMMA Init_HookInv == Init => HookInv
<1> SUFFICES ASSUME Init PROVE HookInv
  OBVIOUS
<1>1. frames = [t \in Threads |-> <<>>] /\ areas = {} /\ lost = {} /\ spoilt = {} /\ crashed = FALSE
  BY DEF Init
<1>2. HookTypeOK
  <2>1. frames \in [Threads -> Seq(Frames)]
    <3>1. <<>> \in Seq(Frames)
      OBVIOUS
    <3> QED BY <1>1, <3>1
  <2>2. /\ hook \in EvalFns
        /\ original \in (EvalFns \ {"RaijitEvalFrame"}) \cup {Unset}
        /\ saved \in EvalFns \cup {Unset}
    BY DEF Init, EvalFns, Unset
  <2> QED BY <1>1, <2>1, <2>2 DEF Init, HookTypeOK
<1>3. SwitchInv
  BY DEF Init, SwitchInv, ImportFirst, SwitchWorks, Unset
<1>4. \A t \in Threads : Len(frames[t]) = 0 /\ 1 .. Len(frames[t]) = {}
  <2>1. Len(<<>>) = 0 /\ 1 .. 0 = {}
    OBVIOUS
  <2> QED BY <1>1, <2>1
<1>5. FramesInv
  <2>1. 0 <= MaxDepth
    BY HookAssumption
  <2> QED BY <1>4, <2>1 DEF FramesInv
<1>6. Compiled = {}
  BY <1>4 DEF Compiled
<1>7. AreasMatchActivations
  BY <1>1, <1>6 DEF AreasMatchActivations
<1> QED BY <1>2, <1>3, <1>5, <1>7 DEF HookInv

LEMMA Switch_HookInv ==
  ASSUME HookInv, Switch
  PROVE  HookInv'
<1> USE DEF HookInv
<1>1. UNCHANGED activationVars
  BY DEF Switch, PyInit_raijit, enable, disable, OtherInstalls, OtherRemoves,
         SetTestMode, activationVars
<1>2. FramesInv' /\ AreasMatchActivations'
  BY <1>1, FramesKept DEF activationVars
<1>3. /\ frames' \in [Threads -> Seq(Frames)] /\ areas' \subseteq Areas /\ crashed' \in BOOLEAN
      /\ spoilt' \subseteq Threads \X (1 .. MaxDepth) /\ lost' \subseteq Areas
  BY <1>1 DEF activationVars, HookTypeOK
<1>4. HookTypeOK' /\ SwitchInv'
  <2> USE DEF HookTypeOK, SwitchInv, ImportFirst, SwitchWorks, EvalFns, Unset
  <2>1. CASE PyInit_raijit
    BY <2>1, <1>3 DEF PyInit_raijit
  <2>2. CASE enable
    BY <2>2, <1>3 DEF enable
  <2>3. CASE disable
    BY <2>3, <1>3 DEF disable, Restored
  <2>4. CASE OtherInstalls
    BY <2>4, <1>3 DEF OtherInstalls
  <2>5. CASE OtherRemoves
    BY <2>5, <1>3 DEF OtherRemoves
  <2>6. CASE SetTestMode
    BY <2>6, <1>3 DEF SetTestMode
  <2> QED BY <2>1, <2>2, <2>3, <2>4, <2>5, <2>6 DEF Switch
<1> QED BY <1>2, <1>4

-----------------------------------------------------------------------------
\* Calls and returns.

\* A call adds one frame behind the others of its thread.
LEMMA Pushed ==
  ASSUME HookInv, NEW t \in Threads, NEW f \in Frames,
         NEW top, top = <<t, Len(frames[t]) + 1>>,
         Len(frames[t]) < MaxDepth,
         f.by # "RaijitEvalFrame" => f.area = NoArea,
         frames' = [frames EXCEPT ![t] = Append(@, f)]
  PROVE  /\ frames' \in [Threads -> Seq(Frames)]
         /\ FramesInv'
         /\ \A c \in Compiled : FrameAt(c)' = FrameAt(c)
         /\ f.by # "RaijitEvalFrame" => Compiled' = Compiled
         /\ f.by = "RaijitEvalFrame" =>
              /\ Compiled' = Compiled \cup {top} /\ top \notin Compiled
              /\ AreaOf(top)' = f.area
<1> DEFINE n == Len(frames[t])
<1>1. /\ frames \in [Threads -> Seq(Frames)]
      /\ frames[t] \in Seq(Frames) /\ n \in Nat /\ MaxDepth \in Nat
  BY HookAssumption DEF HookInv, HookTypeOK
<1>2. /\ Append(frames[t], f) \in Seq(Frames)
      /\ Len(Append(frames[t], f)) = n + 1
      /\ \A d \in 1 .. n : Append(frames[t], f)[d] = frames[t][d]
      /\ Append(frames[t], f)[n + 1] = f
  BY <1>1, AppendProperties
<1>3. /\ frames' \in [Threads -> Seq(Frames)]
      /\ frames'[t] = Append(frames[t], f)
      /\ \A u \in Threads : u # t => frames'[u] = frames[u]
  BY <1>1, <1>2
<1>4. FramesInv'
  <2> SUFFICES ASSUME NEW u \in Threads
               PROVE  /\ Len(frames'[u]) <= MaxDepth
                      /\ \A d \in 1 .. Len(frames'[u]) :
                           frames'[u][d].by # "RaijitEvalFrame" => frames'[u][d].area = NoArea
    BY DEF FramesInv
  <2>1. CASE u # t
    BY <1>3, <2>1 DEF HookInv, FramesInv
  <2>2. CASE u = t
    <3>1. Len(frames'[t]) = n + 1 /\ n + 1 <= MaxDepth
      BY <1>1, <1>2, <1>3
    <3>2. ASSUME NEW d \in 1 .. n + 1, frames'[t][d].by # "RaijitEvalFrame"
          PROVE  frames'[t][d].area = NoArea
      <4>1. CASE d = n + 1
        BY <1>2, <1>3, <3>2, <4>1
      <4>2. CASE d # n + 1
        <5>1. d \in 1 .. n
          BY <1>1, <4>2
        <5>2. frames'[t][d] = frames[t][d]
          BY <1>2, <1>3, <5>1
        <5> QED BY <3>2, <5>1, <5>2 DEF HookInv, FramesInv
      <4> QED BY <4>1, <4>2
    <3> QED BY <2>2, <3>1, <3>2
  <2> QED BY <2>1, <2>2
<1>5. ASSUME NEW c \in Threads \X (1 .. MaxDepth), c # top
      PROVE  /\ c \in Compiled' <=> c \in Compiled
             /\ c \in Compiled => FrameAt(c)' = FrameAt(c)
  <2>1. PICK u \in Threads, d \in 1 .. MaxDepth : c = <<u, d>>
    OBVIOUS
  <2>2. CASE u # t
    BY <1>3, <2>1, <2>2 DEF Compiled, FrameAt
  <2>3. CASE u = t
    <3>1. d # n + 1
      BY <1>5, <2>1, <2>3
    <3>2. d <= n + 1 <=> d <= n
      BY <1>1, <3>1
    <3>3. d <= n => frames'[t][d] = frames[t][d]
      BY <1>1, <1>2, <1>3
    <3> QED BY <1>2, <1>3, <2>1, <2>3, <3>2, <3>3 DEF Compiled, FrameAt
  <2> QED BY <2>2, <2>3
<1>6. top \notin Compiled
  BY <1>1 DEF Compiled
<1>7. top \in Threads \X (1 .. MaxDepth) /\ FrameAt(top)' = f
  <2>1. n + 1 \in 1 .. MaxDepth
    BY <1>1
  <2>2. frames'[t][n + 1] = f
    BY <1>2, <1>3
  <2> QED BY <2>1, <2>2 DEF FrameAt
<1>8. top \in Compiled' <=> f.by = "RaijitEvalFrame"
  BY <1>1, <1>2, <1>3, <1>7 DEF Compiled, FrameAt
<1>9. Compiled \subseteq Threads \X (1 .. MaxDepth) /\ Compiled' \subseteq Threads \X (1 .. MaxDepth)
  BY DEF Compiled
<1>10. \A c \in Compiled : FrameAt(c)' = FrameAt(c)
  BY <1>5, <1>6, <1>9
<1>11. f.by # "RaijitEvalFrame" => Compiled' = Compiled
  <2>1. ASSUME f.by # "RaijitEvalFrame", NEW c \in Threads \X (1 .. MaxDepth)
        PROVE  c \in Compiled' <=> c \in Compiled
    BY <1>5, <1>6, <1>8, <2>1
  <2> QED BY <1>9, <2>1
<1>12. f.by = "RaijitEvalFrame" => Compiled' = Compiled \cup {top}
  BY <1>5, <1>8, <1>9
<1> QED BY <1>3, <1>4, <1>6, <1>7, <1>10, <1>11, <1>12 DEF AreaOf

LEMMA Call_HookInv ==
  ASSUME HookInv, NEW t \in Threads, Call(t)
  PROVE  HookInv'
<1> USE DEF HookInv
<1>1. /\ ~crashed /\ Len(frames[t]) < MaxDepth
      /\ UNCHANGED <<hook, original, test_mode, saved, spoilt, on, alone, lost>>
  BY DEF Call
<1>2. SwitchInv'
  BY <1>1, SwitchKept DEF switchVars
<1>3. PICK fn \in Functions : Interpret(t, fn) \/ Compile(t, fn) \/ OutOfMemory(t, fn)
  BY DEF Call
<1>4. ASSUME frames' \in [Threads -> Seq(Frames)], areas' \subseteq Areas, crashed' \in BOOLEAN
      PROVE  HookTypeOK'
  BY <1>1, <1>4 DEF HookTypeOK
<1>5. CASE Interpret(t, fn)
  <2>1. PICK by \in {"other", "_PyEval_EvalFrameDefault"} :
          Evaluate(t, fn, by, NoArea)
    BY <1>5 DEF Interpret
  <2> DEFINE f == [fn |-> fn, by |-> by, area |-> NoArea]
  <2>2. f \in Frames /\ f.by # "RaijitEvalFrame" /\ f.area = NoArea
    BY DEF Frames, EvalFns
  <2>3. frames' = [frames EXCEPT ![t] = Append(@, f)]
    BY <2>1 DEF Evaluate
  <2> HIDE DEF f
  <2>4. /\ frames' \in [Threads -> Seq(Frames)] /\ FramesInv'
        /\ \A c \in Compiled : FrameAt(c)' = FrameAt(c)
        /\ Compiled' = Compiled
    <3>1. PICK top : top = <<t, Len(frames[t]) + 1>>
      OBVIOUS
    <3> QED BY <1>1, <2>2, <2>3, <3>1, Pushed
  <2>5. areas' = areas /\ crashed' = crashed
    BY <1>5 DEF Interpret
  <2>6. {AreaOf(c) : c \in Compiled}' = {AreaOf(c) : c \in Compiled}
    BY <2>4 DEF AreaOf
  <2>7. AreasMatchActivations'
    BY <1>1, <2>4, <2>5, <2>6 DEF AreasMatchActivations, AreaOf
  <2> QED BY <1>2, <1>4, <2>4, <2>5, <2>7 DEF HookTypeOK
<1>6. CASE Compile(t, fn)
  <2>1. PICK area \in Areas \ areas :
          /\ areas' = areas \cup {area}
          /\ Evaluate(t, fn, "RaijitEvalFrame", area)
    BY <1>6 DEF Compile
  <2> DEFINE f == [fn |-> fn, by |-> "RaijitEvalFrame", area |-> area]
  <2> PICK top : top = <<t, Len(frames[t]) + 1>>
    OBVIOUS
  <2>2. f \in Frames /\ f.by = "RaijitEvalFrame" /\ f.area = area
    BY DEF Frames, EvalFns
  <2>3. frames' = [frames EXCEPT ![t] = Append(@, f)] /\ crashed' = crashed
    BY <1>6, <2>1 DEF Evaluate, Compile
  <2> HIDE DEF f
  <2>4. /\ frames' \in [Threads -> Seq(Frames)] /\ FramesInv'
        /\ \A c \in Compiled : FrameAt(c)' = FrameAt(c)
        /\ Compiled' = Compiled \cup {top} /\ top \notin Compiled
        /\ AreaOf(top)' = area
    BY <1>1, <2>2, <2>3, Pushed
  <2>5. \A c \in Compiled : AreaOf(c)' = AreaOf(c) /\ AreaOf(c) # area
    BY <2>1, <2>4 DEF AreaOf, AreasMatchActivations
  <2>6. {AreaOf(c) : c \in Compiled}' = {AreaOf(c) : c \in Compiled} \cup {area}
    <3> DEFINE Later(c) == AreaOf(c)'
    <3>1. Later(top) = area /\ \A c \in Compiled : Later(c) = AreaOf(c)
      BY <2>4, <2>5
    <3> HIDE DEF Later
    <3>2. {Later(c) : c \in Compiled \cup {top}} = {AreaOf(c) : c \in Compiled} \cup {area}
      BY <3>1
    <3>3. {Later(c) : c \in Compiled'} = {AreaOf(c) : c \in Compiled} \cup {area}
      BY <2>4, <3>2
    <3> QED BY <3>3 DEF Later
  <2>7. \A c, d \in Compiled' : AreaOf(c)' = AreaOf(d)' => c = d
    <3> SUFFICES ASSUME NEW c \in Compiled \cup {top}, NEW d \in Compiled \cup {top},
                        AreaOf(c)' = AreaOf(d)'
                 PROVE  c = d
      BY <2>4
    <3>1. CASE c \in Compiled /\ d \in Compiled
      <4>1. AreaOf(c) = AreaOf(d)
        BY <2>5, <3>1
      <4> QED BY <3>1, <4>1 DEF AreasMatchActivations
    <3>2. CASE c = top /\ d \in Compiled
      BY <2>4, <2>5, <3>2
    <3>3. CASE c \in Compiled /\ d = top
      BY <2>4, <2>5, <3>3
    <3> QED BY <3>1, <3>2, <3>3
  <2>8. AreasMatchActivations'
    BY <1>1, <2>1, <2>3, <2>6, <2>7 DEF AreasMatchActivations
  <2> QED BY <1>2, <1>4, <2>1, <2>3, <2>4, <2>8 DEF HookTypeOK
<1>7. CASE OutOfMemory(t, fn)
  <2>1. crashed' = TRUE /\ frames' = frames /\ areas' = areas /\ Areas \subseteq areas
    BY <1>7 DEF OutOfMemory
  <2>2. Compiled' = Compiled /\ \A c : AreaOf(c)' = AreaOf(c)
    BY <2>1 DEF Compiled, FrameAt, AreaOf
  <2>3. {AreaOf(c) : c \in Compiled}' = {AreaOf(c) : c \in Compiled}
    BY <2>1, <2>2 DEF AreaOf, FrameAt
  <2>5. AreasMatchActivations'
    BY <1>1, <2>1, <2>2, <2>3 DEF AreasMatchActivations
  <2>6. FramesInv'
    BY <2>1 DEF FramesInv
  <2> QED BY <1>2, <1>4, <2>1, <2>5, <2>6 DEF HookTypeOK
<1> QED BY <1>3, <1>5, <1>6, <1>7

\* A return takes the innermost frame away.
LEMMA Popped ==
  ASSUME HookInv, NEW t \in Threads, frames[t] # <<>>,
         NEW top, top = <<t, Len(frames[t])>>,
         frames' = [frames EXCEPT ![t] = SubSeq(@, 1, Len(@) - 1)]
  PROVE  /\ frames' \in [Threads -> Seq(Frames)]
         /\ FramesInv'
         /\ \A c \in Compiled' : FrameAt(c)' = FrameAt(c)
         /\ Compiled' = Compiled \ {top}
<1> DEFINE n == Len(frames[t])
           rest == SubSeq(frames[t], 1, n - 1)
<1>1. /\ frames \in [Threads -> Seq(Frames)] /\ frames[t] \in Seq(Frames)
      /\ n \in Nat /\ n # 0 /\ MaxDepth \in Nat
      /\ \A d \in 1 .. n : frames[t][d] \in Frames
  BY HookAssumption DEF HookInv, HookTypeOK
<1>2. /\ rest \in Seq(Frames) /\ Len(rest) = n - 1
      /\ \A d \in 1 .. n - 1 : rest[d] = frames[t][d]
  <2>1. \A d \in 1 .. n - 1 : frames[t][d] \in Frames
    BY <1>1
  <2>2. 1 \in Int /\ n - 1 \in Int
    BY <1>1
  <2>3. /\ rest \in Seq(Frames)
        /\ Len(rest) = IF 1 <= n - 1 THEN (n - 1) - 1 + 1 ELSE 0
        /\ \A d \in 1 .. (n - 1) - 1 + 1 : rest[d] = frames[t][1 + d - 1]
    BY <2>1, <2>2, SubSeqProperties
  <2>4. (n - 1) - 1 + 1 = n - 1 /\ (~(1 <= n - 1) => n - 1 = 0)
    <3> HIDE DEF n
    <3> QED BY <1>1
  <2>5. \A d \in 1 .. n - 1 : 1 + d - 1 = d
    BY <1>1
  <2> QED BY <2>3, <2>4, <2>5
<1>3. /\ frames' \in [Threads -> Seq(Frames)]
      /\ frames'[t] = rest
      /\ \A u \in Threads : u # t => frames'[u] = frames[u]
  BY <1>1, <1>2
<1> HIDE DEF rest
<1>4. FramesInv'
  <2> SUFFICES ASSUME NEW u \in Threads
               PROVE  /\ Len(frames'[u]) <= MaxDepth
                      /\ \A d \in 1 .. Len(frames'[u]) :
                           frames'[u][d].by # "RaijitEvalFrame" => frames'[u][d].area = NoArea
    BY DEF FramesInv
  <2>1. CASE u # t
    BY <1>3, <2>1 DEF HookInv, FramesInv
  <2>2. CASE u = t
    <3>1. \A d \in 1 .. n - 1 : d \in 1 .. n
      BY <1>1
    <3>2. n <= MaxDepth
      BY DEF HookInv, FramesInv
    <3>3. n - 1 <= MaxDepth
      BY <1>1, <3>2
    <3>4. Len(frames'[u]) = n - 1
      BY <1>2, <1>3, <2>2
    <3>5. \A d \in 1 .. n - 1 : frames'[u][d] = frames[u][d]
      BY <1>2, <1>3, <2>2
    <3>6. \A d \in 1 .. n - 1 : frames[u][d].by # "RaijitEvalFrame" => frames[u][d].area = NoArea
      BY <2>2, <3>1 DEF HookInv, FramesInv
    <3> HIDE DEF n
    <3> QED BY <3>3, <3>4, <3>5, <3>6
  <2> QED BY <2>1, <2>2
<1>5. ASSUME NEW c \in Threads \X (1 .. MaxDepth)
      PROVE  /\ c \in Compiled' <=> c \in Compiled /\ c # top
             /\ c \in Compiled' => FrameAt(c)' = FrameAt(c)
  <2>1. PICK u \in Threads, d \in 1 .. MaxDepth : c = <<u, d>>
    OBVIOUS
  <2>2. CASE u # t
    BY <1>3, <2>1, <2>2 DEF Compiled, FrameAt
  <2>3. CASE u = t
    <3>1. d <= n - 1 <=> d <= n /\ d # n
      BY <1>1
    <3>2. d <= n - 1 => rest[d] = frames[t][d]
      BY <1>1, <1>2
    <3>3. c # top <=> d # n
      BY <2>1, <2>3
    <3> QED BY <1>2, <1>3, <2>1, <2>3, <3>1, <3>2, <3>3 DEF Compiled, FrameAt
  <2> QED BY <2>2, <2>3
<1>6. Compiled \subseteq Threads \X (1 .. MaxDepth) /\ Compiled' \subseteq Threads \X (1 .. MaxDepth)
  BY DEF Compiled
<1>7. Compiled' = Compiled \ {top}
  BY <1>5, <1>6
<1>8. \A c \in Compiled' : FrameAt(c)' = FrameAt(c)
  BY <1>5, <1>6
<1> QED BY <1>3, <1>4, <1>7, <1>8

LEMMA Return_HookInv ==
  ASSUME HookInv, NEW t \in Threads, Return(t)
  PROVE  HookInv'
<1> USE DEF HookInv
<1> PICK top, frame : top = <<t, Len(frames[t])>> /\ frame = frames[t][Len(frames[t])]
  OBVIOUS
<1>1. /\ ~crashed /\ frames[t] # <<>>
      /\ areas' \in AreasAfter(t, frame.area)
      /\ lost' = lost \cup (IF RegistersLost(t) THEN areas' \cap {frame.area} ELSE {})
      /\ spoilt' \in SpoiltAfter(t)
      /\ frames' = [frames EXCEPT ![t] = SubSeq(@, 1, Len(@) - 1)]
      /\ UNCHANGED <<hook, original, test_mode, saved, crashed, on, alone>>
  BY DEF Return
<1>2. SwitchInv'
  BY <1>1, SwitchKept DEF switchVars
<1>3. /\ frames' \in [Threads -> Seq(Frames)] /\ FramesInv'
      /\ \A c \in Compiled' : FrameAt(c)' = FrameAt(c)
      /\ Compiled' = Compiled \ {top}
  BY <1>1, Popped
\* The end unmaps the area or, where the address may be gone, leaves it and says so.
<1>4. \/ areas' = areas \ {frame.area} /\ lost' = lost
      \/ areas' = areas /\ lost' = lost \cup (areas \cap {frame.area})
  <2>1. CASE areas' = areas \ {frame.area}
    <3>1. areas' \cap {frame.area} = {}
      BY <2>1
    <3> QED BY <1>1, <2>1, <3>1
  <2>2. CASE areas' = areas /\ RegistersLost(t)
    BY <1>1, <2>2
  <2> QED BY <1>1, <2>1, <2>2 DEF AreasAfter
<1>5. Len(frames[t]) \in 1 .. Len(frames[t]) /\ Len(frames[t]) \in 1 .. MaxDepth
  BY <1>1, HookAssumption DEF HookTypeOK, FramesInv
<1>6. HookTypeOK'
  <2>1. spoilt' \subseteq Threads \X (1 .. MaxDepth)
    <3>1. Len(frames[t]) > 1 => Len(frames[t]) - 1 \in 1 .. MaxDepth
      BY <1>5, HookAssumption
    <3> QED BY <1>1, <3>1 DEF SpoiltAfter, HookTypeOK
  <2>2. areas' \subseteq Areas /\ lost' \subseteq Areas
    BY <1>4 DEF HookTypeOK
  <2> QED BY <1>1, <1>3, <2>1, <2>2 DEF HookTypeOK
<1>7. AreaOf(top) = frame.area /\ (top \in Compiled <=> frame.by = "RaijitEvalFrame")
  BY <1>5 DEF AreaOf, FrameAt, Compiled
<1>8. top \notin Compiled => frame.area = NoArea
  BY <1>5, <1>7 DEF FramesInv
<1>9. \A c \in Compiled' : AreaOf(c)' = AreaOf(c)
  BY <1>3 DEF AreaOf
<1>10. {AreaOf(c) : c \in Compiled}' = {AreaOf(c) : c \in Compiled \ {top}}
  <2>1. {AreaOf(c)' : c \in Compiled'} = {AreaOf(c) : c \in Compiled \ {top}}
    BY <1>3, <1>9
  <2> QED BY <2>1
<1>11. /\ {AreaOf(c) : c \in Compiled \ {top}} = {AreaOf(c) : c \in Compiled} \ {frame.area}
       /\ frame.area \notin lost
       /\ frame.area \in areas => frame.area \in {AreaOf(c) : c \in Compiled}
  <2>1. CASE top \in Compiled
    BY <1>7, <2>1 DEF AreasMatchActivations
  <2>2. CASE top \notin Compiled
    <3>1. frame.area \notin areas
      BY <1>8, <2>2, HookAssumption DEF NoArea, HookTypeOK
    <3> QED BY <2>2, <3>1 DEF AreasMatchActivations
  <2> QED BY <2>1, <2>2
<1>12. /\ areas' = {AreaOf(c) : c \in Compiled \ {top}} \cup lost'
       /\ \A c \in Compiled \ {top} : AreaOf(c) \notin lost'
  <2> DEFINE used == {AreaOf(c) : c \in Compiled}
             rest == {AreaOf(c) : c \in Compiled \ {top}}
  <2>1. areas = used \cup lost /\ used \cap lost = {}
    BY DEF AreasMatchActivations
  <2>2. /\ rest = used \ {frame.area} /\ frame.area \notin lost
        /\ frame.area \in areas => frame.area \in used
    BY <1>11
  <2>3. (\A c \in Compiled \ {top} : AreaOf(c) \in rest)
    OBVIOUS
  <2> HIDE DEF used, rest
  <2>4. areas' = rest \cup lost' /\ rest \cap lost' = {}
    BY <1>4, <2>1, <2>2
  <2>5. areas' = {AreaOf(c) : c \in Compiled \ {top}} \cup lost'
    BY <2>4 DEF rest
  <2> QED BY <2>3, <2>4, <2>5
<1>13. \A c, d \in Compiled' : AreaOf(c)' = AreaOf(d)' => c = d
  BY <1>3, <1>9 DEF AreasMatchActivations
<1>14. AreasMatchActivations'
  BY <1>3, <1>9, <1>10, <1>12, <1>13 DEF AreasMatchActivations
<1> QED BY <1>2, <1>3, <1>6, <1>14

\* The process is gone; nothing else has changed.
LEMMA Misled_HookInv ==
  ASSUME HookInv, NEW t \in Threads, Misled(t)
  PROVE  HookInv'
<1>1. /\ crashed' = TRUE
      /\ UNCHANGED <<hook, original, test_mode, saved, frames, areas, spoilt, on, alone, lost>>
  BY DEF Misled
<1>2. SwitchInv'
  BY <1>1, SwitchKept DEF HookInv, switchVars
<1>3. FramesInv' /\ AreasMatchActivations'
  BY <1>1, FramesKept DEF HookInv
<1>4. HookTypeOK'
  BY <1>1 DEF HookInv, HookTypeOK
<1> QED BY <1>2, <1>3, <1>4 DEF HookInv

-----------------------------------------------------------------------------
LEMMA Next_HookInv == HookInv /\ [Next]_vars => HookInv'
<1> SUFFICES ASSUME HookInv, [Next]_vars PROVE HookInv'
  OBVIOUS
<1>1. CASE Switch
  BY <1>1, Switch_HookInv
<1>2. ASSUME NEW t \in Threads, Call(t) PROVE HookInv'
  BY <1>2, Call_HookInv
<1>3. ASSUME NEW t \in Threads, Return(t) PROVE HookInv'
  BY <1>3, Return_HookInv
<1>4. ASSUME NEW t \in Threads, Misled(t) PROVE HookInv'
  BY <1>4, Misled_HookInv
<1>5. CASE UNCHANGED vars
  <2>1. FramesInv' /\ AreasMatchActivations'
    BY <1>5, FramesKept DEF HookInv, vars
  <2>2. SwitchInv'
    BY <1>5, SwitchKept DEF HookInv, vars, switchVars
  <2>3. HookTypeOK'
    BY <1>5 DEF HookInv, HookTypeOK, vars
  <2> QED BY <2>1, <2>2, <2>3 DEF HookInv
<1> QED BY <1>1, <1>2, <1>3, <1>4, <1>5 DEF Next

LEMMA HookInvariant == Spec => []HookInv
  BY Init_HookInv, Next_HookInv, PTL DEF Spec

\* The state has its types: however often the module is imported, enabled and
\* disabled, and whatever another user of the hook does, disable never puts back
\* RaijitEvalFrame.
THEOREM TypesOfTheHook == Spec => []HookTypeOK
<1>1. HookInv => HookTypeOK
  BY DEF HookInv
<1> QED BY <1>1, HookInvariant, PTL

\* With the hook to itself, raijit is on exactly when enable was called later than
\* disable, and off means what was there before the import.
THEOREM EnableDisableSwitch == Spec => []SwitchWorks
<1>1. HookInv => SwitchWorks
  BY DEF HookInv, SwitchInv
<1> QED BY <1>1, HookInvariant, PTL

\* For any number of threads and depth of calls: every compiled activation under
\* way has an area of its own mapped, and no other is but those whose munmap was
\* given a register that code building a container had changed.
THEOREM OneAreaPerActivation == Spec => []AreasMatchActivations
<1>1. HookInv => AreasMatchActivations
  BY DEF HookInv
<1> QED BY <1>1, HookInvariant, PTL
=============================================================================
