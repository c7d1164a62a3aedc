------------------------------ MODULE StackProofs ------------------------------
(***************************************************************************)
(* How far the code of an op moves the machine stack, and where that code  *)
(* lies: the two facts about the compiler that the proofs about the        *)
(* running code (JitProofs) rest on.                                       *)
(*                                                                         *)
(* What a case of the switch does to rsp is described by its levels:       *)
(* P[k] is how many words the first k instructions leave on the stack,     *)
(* below zero when they take words that were there before.                 *)
(***************************************************************************)
EXTENDS Jit, DisasmProofs

\* Words an instruction puts on the stack.  (callrax takes off all it pushes.)
Shift(a) == CASE a.ins = "push" -> 1 [] a.ins = "pop" -> -1 [] OTHER -> 0

Levels(P, s, need, total) ==
  /\ P \in [0 .. Len(s) -> Int]
  /\ P[0] = 0 /\ P[Len(s)] = total
  /\ \A k \in 1 .. Len(s) : P[k] = P[k - 1] + Shift(s[k])
  /\ \A k \in 0 .. Len(s) : P[k] >= -need

\* Straight instructions that leave rsp to push and pop, rbp alone, and of the
\* callee-saved registers write those in W only.
ScratchRegisters == {"rax", "rdi", "rsi", "rdx"}
Body(W) ==
  {a \in Straight :
     /\ a.ins \notin {"leave", "ret"}
     /\ a.ins = "pop" => a.reg \in ScratchRegisters \cup W
     /\ a.ins = "movimm" => a.reg \in ScratchRegisters
     /\ a.ins = "movreg" => a.dst \in ScratchRegisters \cup W}

\* Sequences of them that take at most need words off the stack and leave it total
\* words higher.
Works(W, need, total) ==
  {s \in Seq(Body(W)) : \E P : Levels(P, s, need, total)}

-----------------------------------------------------------------------------
\* Levels of sequences.

LEMMA ShiftType == \A a : Shift(a) \in {-1, 0, 1}
  BY DEF Shift

LEMMA WorkNone ==
  ASSUME NEW W, NEW need \in Nat
  PROVE  <<>> \in Works(W, need, 0)
<1> DEFINE P == [k \in 0 .. 0 |-> 0]
<1>1. <<>> \in Seq(Body(W)) /\ Len(<<>>) = 0
  OBVIOUS
<1>2. Levels(P, <<>>, need, 0)
  BY <1>1 DEF Levels
<1> HIDE DEF P
<1> QED BY <1>1, <1>2 DEF Works

LEMMA WorkOne ==
  ASSUME NEW W, NEW need \in Nat, NEW a \in Body(W), -need <= Shift(a)
  PROVE  <<a>> \in Works(W, need, Shift(a))
<1> DEFINE P == [k \in 0 .. 1 |-> IF k = 0 THEN 0 ELSE Shift(a)]
<1>1. <<a>> \in Seq(Body(W)) /\ Len(<<a>>) = 1 /\ <<a>>[1] = a
  OBVIOUS
<1>2. Shift(a) \in Int
  BY ShiftType
<1>3. Levels(P, <<a>>, need, Shift(a))
  BY <1>1, <1>2 DEF Levels
<1> HIDE DEF P
<1> QED BY <1>1, <1>3 DEF Works

LEMMA WorkConcat ==
  ASSUME NEW W, NEW m \in Nat, NEW n \in Nat, NEW need \in Nat, NEW t \in Int, NEW u \in Int,
         NEW r \in Works(W, m, t), NEW s \in Works(W, n, u),
         m <= need, n - t <= need
  PROVE  r \o s \in Works(W, need, t + u)
<1>1. r \in Seq(Body(W)) /\ s \in Seq(Body(W))
  BY DEF Works
<1>2. PICK P : Levels(P, r, m, t)
  BY DEF Works
<1>3. PICK Q : Levels(Q, s, n, u)
  BY DEF Works
<1> DEFINE l == Len(r)
           R == [k \in 0 .. l + Len(s) |-> IF k <= l THEN P[k] ELSE t + Q[k - l]]
<1>4. /\ r \o s \in Seq(Body(W)) /\ Len(r \o s) = l + Len(s) /\ l \in Nat /\ Len(s) \in Nat
      /\ \A k \in 1 .. l : (r \o s)[k] = r[k]
      /\ \A k \in l + 1 .. l + Len(s) : (r \o s)[k] = s[k - l]
  BY <1>1
<1>5. /\ P \in [0 .. l -> Int] /\ P[0] = 0 /\ P[l] = t
      /\ \A k \in 1 .. l : P[k] = P[k - 1] + Shift(r[k])
      /\ \A k \in 0 .. l : P[k] >= -m
  BY <1>2 DEF Levels
<1>6. /\ Q \in [0 .. Len(s) -> Int] /\ Q[0] = 0 /\ Q[Len(s)] = u
      /\ \A k \in 1 .. Len(s) : Q[k] = Q[k - 1] + Shift(s[k])
      /\ \A k \in 0 .. Len(s) : Q[k] >= -n
  BY <1>3 DEF Levels
<1> HIDE DEF l
<1>7. R \in [0 .. l + Len(s) -> Int] /\ R[0] = 0
  BY <1>4, <1>5, <1>6, SMTT(30)
<1>8. R[l + Len(s)] = t + u
  <2>1. CASE Len(s) = 0
    BY <2>1, <1>4, <1>5, <1>6
  <2>2. CASE Len(s) > 0
    BY <2>2, <1>4, <1>6, SMTT(30)
  <2> QED BY <2>1, <2>2, <1>4
<1>9. ASSUME NEW k \in 1 .. l + Len(s)
      PROVE  R[k] = R[k - 1] + Shift((r \o s)[k])
  <2>1. CASE k <= l
    BY <2>1, <1>4, <1>5
  <2>2. CASE k = l + 1
    <3>1. 1 \in 1 .. Len(s) /\ k - l = 1 /\ k - 1 = l /\ ~(k <= l) /\ l \in 0 .. l + Len(s)
      BY <2>2, <1>4
    <3>2. R[k] = t + Q[1] /\ R[k - 1] = t
      BY <3>1, <1>4, <1>5
    <3>3. Q[1] = Q[1 - 1] + Shift(s[1]) /\ Q[1 - 1] = 0 /\ (r \o s)[k] = s[1]
      BY <3>1, <1>4, <1>6
    <3>4. Shift(s[1]) \in Int
      BY ShiftType
    <3> HIDE DEF R
    <3> QED BY <3>2, <3>3, <3>4
  <2>3. CASE k > l + 1
    <3>1. /\ k - l \in 1 .. Len(s) /\ k - 1 \in 0 .. l + Len(s) /\ ~(k <= l) /\ ~(k - 1 <= l)
          /\ (k - 1) - l = (k - l) - 1
      BY <2>3, <1>4
    <3>2. R[k] = t + Q[k - l] /\ R[k - 1] = t + Q[(k - l) - 1]
      BY <3>1, <1>4
    <3>3. Q[k - l] = Q[(k - l) - 1] + Shift(s[k - l]) /\ (r \o s)[k] = s[k - l]
      BY <3>1, <1>4, <1>6
    <3>4. Q[(k - l) - 1] \in Int /\ Shift(s[k - l]) \in Int
      BY <3>1, <1>6, ShiftType
    <3> HIDE DEF R
    <3> QED BY <3>2, <3>3, <3>4
  <2> QED BY <2>1, <2>2, <2>3, <1>4
<1>10. ASSUME NEW k \in 0 .. l + Len(s)
       PROVE  R[k] >= -need
  <2>1. CASE k <= l
    <3>1. R[k] = P[k] /\ P[k] >= -m /\ P[k] \in Int
      BY <2>1, <1>4, <1>5
    <3> QED BY <3>1
  <2>2. CASE k > l
    <3>1. k - l \in 0 .. Len(s)
      BY <2>2, <1>4
    <3>2. R[k] = t + Q[k - l] /\ Q[k - l] >= -n /\ Q[k - l] \in Int
      BY <2>2, <3>1, <1>4, <1>6, SMTT(30)
    <3> QED BY <3>2
  <2> QED BY <2>1, <2>2, <1>4
<1>11. Levels(R, r \o s, need, t + u)
  <2> HIDE DEF R
  <2> QED BY <1>4, <1>7, <1>8, <1>9, <1>10 DEF Levels
<1> HIDE DEF R
<1> QED BY <1>4, <1>11 DEF Works

LEMMA TuplesConcat ==
  ASSUME NEW S, NEW a \in S, NEW b \in S
  PROVE  /\ <<a>> \o <<b>> = <<a, b>>
         /\ \A c \in S : <<a, b>> \o <<c>> = <<a, b, c>>
<1>1. <<a>> \o <<b>> = <<a, b>>
  <2> DEFINE s == <<a>> \o <<b>>
             t == <<a, b>>
  <2>1. s \in Seq(S) /\ t \in Seq(S) /\ Len(s) = 2 /\ Len(t) = 2
    OBVIOUS
  <2>2. s[1] = t[1] /\ s[2] = t[2]
    OBVIOUS
  <2>3. s = t
    <3> HIDE DEF s, t
    <3>1. \A i \in 1 .. Len(s) : s[i] = t[i]
      BY <2>1, <2>2
    <3> QED BY <2>1, <3>1, SeqEqual
  <2> QED BY <2>3
<1>2. ASSUME NEW c \in S PROVE <<a, b>> \o <<c>> = <<a, b, c>>
  <2> DEFINE s == <<a, b>> \o <<c>>
             t == <<a, b, c>>
  <2>1. s \in Seq(S) /\ t \in Seq(S) /\ Len(s) = 3 /\ Len(t) = 3
    OBVIOUS
  <2>2. s[1] = t[1] /\ s[2] = t[2] /\ s[3] = t[3]
    OBVIOUS
  <2>3. s = t
    <3> HIDE DEF s, t
    <3>1. \A i \in 1 .. Len(s) : s[i] = t[i]
      BY <2>1, <2>2
    <3> QED BY <2>1, <3>1, SeqEqual
  <2> QED BY <2>3
<1> QED BY <1>1, <1>2, Zenon

LEMMA FourTuple ==
  ASSUME NEW S, NEW a \in S, NEW b \in S, NEW c \in S, NEW d \in S
  PROVE  <<a, b, c>> \o <<d>> = <<a, b, c, d>>
<1> DEFINE s == <<a, b, c>> \o <<d>>
           t == <<a, b, c, d>>
<1>1. s \in Seq(S) /\ t \in Seq(S) /\ Len(s) = 4 /\ Len(t) = 4
  OBVIOUS
<1>2. s[1] = t[1] /\ s[2] = t[2] /\ s[3] = t[3] /\ s[4] = t[4]
  OBVIOUS
<1>3. s = t
  <2> HIDE DEF s, t
  <2>1. \A i \in 1 .. Len(s) : s[i] = t[i]
    BY <1>1, <1>2
  <2> QED BY <1>1, <2>1, SeqEqual
<1> QED BY <1>3

LEMMA WorkTwo ==
  ASSUME NEW W, NEW need \in Nat, NEW a \in Body(W), NEW b \in Body(W),
         -need <= Shift(a), -need <= Shift(a) + Shift(b)
  PROVE  <<a, b>> \in Works(W, need, Shift(a) + Shift(b))
<1>1. Shift(a) \in Int /\ Shift(b) \in Int
  BY ShiftType
<1>2. <<a>> \in Works(W, need, Shift(a))
  BY WorkOne
<1>3. 1 \in Nat /\ -1 <= Shift(b) /\ need + Shift(a) \in Nat /\ -(need + Shift(a)) <= Shift(b)
  BY <1>1, ShiftType
<1>4. <<b>> \in Works(W, need + Shift(a), Shift(b))
  BY <1>3, WorkOne
<1>5. <<a>> \o <<b>> \in Works(W, need, Shift(a) + Shift(b))
  <2>1. need <= need /\ (need + Shift(a)) - Shift(a) <= need
    BY <1>1
  <2> QED BY <1>1, <1>2, <1>3, <1>4, <2>1, WorkConcat
<1>6. <<a>> \o <<b>> = <<a, b>>
  BY TuplesConcat, Zenon
<1> QED BY <1>5, <1>6

LEMMA WorkThree ==
  ASSUME NEW W, NEW need \in Nat, NEW a \in Body(W), NEW b \in Body(W), NEW c \in Body(W),
         -need <= Shift(a), -need <= Shift(a) + Shift(b),
         -need <= Shift(a) + Shift(b) + Shift(c)
  PROVE  <<a, b, c>> \in Works(W, need, Shift(a) + Shift(b) + Shift(c))
<1>1. Shift(a) \in Int /\ Shift(b) \in Int /\ Shift(c) \in Int
  BY ShiftType
<1> DEFINE t == Shift(a) + Shift(b)
<1>2. <<a, b>> \in Works(W, need, t)
  BY WorkTwo
<1>3. need + t \in Nat /\ -(need + t) <= Shift(c) /\ t \in Int /\ need - t + t <= need
  BY <1>1
<1>4. <<c>> \in Works(W, need + t, Shift(c))
  BY <1>3, WorkOne
<1>5. <<a, b>> \o <<c>> \in Works(W, need, t + Shift(c))
  <2>1. need <= need /\ (need + t) - t <= need
    BY <1>3
  <2> HIDE DEF t
  <2> QED BY <1>1, <1>2, <1>3, <1>4, <2>1, WorkConcat
<1>6. <<a, b>> \o <<c>> = <<a, b, c>>
  BY TuplesConcat, Zenon
<1> QED BY <1>5, <1>6

LEMMA WorkFour ==
  ASSUME NEW W, NEW need \in Nat,
         NEW a \in Body(W), NEW b \in Body(W), NEW c \in Body(W), NEW d \in Body(W),
         -need <= Shift(a), -need <= Shift(a) + Shift(b),
         -need <= Shift(a) + Shift(b) + Shift(c),
         -need <= Shift(a) + Shift(b) + Shift(c) + Shift(d)
  PROVE  <<a, b, c, d>> \in Works(W, need, Shift(a) + Shift(b) + Shift(c) + Shift(d))
<1>1. Shift(a) \in Int /\ Shift(b) \in Int /\ Shift(c) \in Int /\ Shift(d) \in Int
  BY ShiftType
<1> DEFINE t == Shift(a) + Shift(b) + Shift(c)
<1>2. <<a, b, c>> \in Works(W, need, t)
  BY WorkThree
<1>3. need + t \in Nat /\ -(need + t) <= Shift(d) /\ t \in Int
  BY <1>1
<1>4. <<d>> \in Works(W, need + t, Shift(d))
  BY <1>3, WorkOne
<1>5. <<a, b, c>> \o <<d>> \in Works(W, need, t + Shift(d))
  <2>1. need <= need /\ (need + t) - t <= need
    BY <1>3
  <2> HIDE DEF t
  <2> QED BY <1>1, <1>2, <1>3, <1>4, <2>1, WorkConcat
<1>6. <<a, b, c>> \o <<d>> = <<a, b, c, d>>
  BY FourTuple, Zenon
<1> QED BY <1>5, <1>6

-----------------------------------------------------------------------------
\* The instructions.

LEMMA PushShifts ==
  ASSUME NEW W
  PROVE  /\ WritePushRax \in Body(W) /\ WritePushRdi \in Body(W) /\ WritePushR12 \in Body(W)
         /\ Shift(WritePushRax) = 1 /\ Shift(WritePushRdi) = 1 /\ Shift(WritePushR12) = 1
<1>1. \A r : Push(r).ins = "push" /\ Shift(Push(r)) = 1
  BY DEF Push, Shift
<1>2. \A r : Push(r) \in Straight => Push(r) \in Body(W)
  BY <1>1 DEF Body
<1> QED BY <1>1, <1>2, FixedStraight DEF WritePushRax, WritePushRdi, WritePushR12

LEMMA PopShifts ==
  ASSUME NEW W
  PROVE  /\ WritePopRax \in Body(W) /\ WritePopRdi \in Body(W) /\ WritePopRsi \in Body(W)
         /\ WritePopRdx \in Body(W)
         /\ "r13" \in W => WritePopR13 \in Body(W)
         /\ Shift(WritePopRax) = -1 /\ Shift(WritePopRdi) = -1 /\ Shift(WritePopRsi) = -1
         /\ Shift(WritePopRdx) = -1 /\ Shift(WritePopR13) = -1
<1>1. \A r : Pop(r).ins = "pop" /\ Pop(r).reg = r /\ Shift(Pop(r)) = -1
  BY DEF Pop, Shift
<1>2. \A r \in ScratchRegisters \cup W : Pop(r) \in Straight => Pop(r) \in Body(W)
  BY <1>1 DEF Body
<1> QED BY <1>1, <1>2, FixedStraight
      DEF WritePopRax, WritePopRdi, WritePopRsi, WritePopRdx, WritePopR13, ScratchRegisters

LEMMA MovShifts ==
  ASSUME NEW W
  PROVE  /\ WriteMovTo2ndArgFromRet \in Body(W) /\ WriteMovTo1stArgFromR12 \in Body(W)
         /\ WriteMovTo1stArgFromR13 \in Body(W)
         /\ "r12" \in W => WriteMovToR12FromRet \in Body(W)
         /\ Shift(WriteMovTo2ndArgFromRet) = 0 /\ Shift(WriteMovTo1stArgFromR12) = 0
         /\ Shift(WriteMovTo1stArgFromR13) = 0 /\ Shift(WriteMovToR12FromRet) = 0
<1>1. \A d, r : MovReg(d, r).ins = "movreg" /\ MovReg(d, r).dst = d /\ Shift(MovReg(d, r)) = 0
  BY DEF MovReg, Shift
<1>2. \A d \in ScratchRegisters \cup W : \A r :
        MovReg(d, r) \in Straight => MovReg(d, r) \in Body(W)
  BY <1>1 DEF Body
<1> QED BY <1>1, <1>2, FixedStraight
      DEF WriteMovTo2ndArgFromRet, WriteMovTo1stArgFromR12, WriteMovTo1stArgFromR13,
          WriteMovToR12FromRet, ScratchRegisters

LEMMA ImmShifts ==
  ASSUME NEW W, NEW w \in Immediates
  PROVE  /\ WriteMovRax(w) \in Body(W) /\ WriteMovRdi(w) \in Body(W)
         /\ WriteMovTo1stArgFromImm(w) \in Body(W) /\ WriteMovTo2ndArgFromImm(w) \in Body(W)
         /\ WriteMovTo3rdArgFromImm(w) \in Body(W)
         /\ Shift(WriteMovRax(w)) = 0 /\ Shift(WriteMovRdi(w)) = 0
         /\ Shift(WriteMovTo1stArgFromImm(w)) = 0 /\ Shift(WriteMovTo2ndArgFromImm(w)) = 0
         /\ Shift(WriteMovTo3rdArgFromImm(w)) = 0
<1>1. \A r : /\ MovImm(r, w).ins = "movimm" /\ MovImm(r, w).reg = r
             /\ Shift(MovImm(r, w)) = 0
  BY DEF MovImm, Shift
<1>2. \A r \in ScratchRegisters : MovImm(r, w) \in Body(W)
  BY <1>1, MovImmStraight DEF Body, ScratchRegisters, RegisterNames
<1> QED BY <1>1, <1>2 DEF WriteMovRax, WriteMovRdi, WriteMovTo1stArgFromImm,
      WriteMovTo2ndArgFromImm, WriteMovTo3rdArgFromImm, ScratchRegisters

LEMMA OtherShifts ==
  ASSUME NEW W
  PROVE  /\ WriteNop \in Body(W) /\ WriteCallRax \in Body(W)
         /\ WriteMovToRaxFromPtrRdi \in Body(W) /\ WriteMovToPtrRaxFromRdi \in Body(W)
         /\ WriteCmpRaxImm8(0) \in Body(W)
         /\ \A n \in Int : WriteMovToRdiFromQwordPtrRspOffset(n) \in Body(W)
         /\ Shift(WriteNop) = 0 /\ Shift(WriteCallRax) = 0
         /\ Shift(WriteMovToRaxFromPtrRdi) = 0 /\ Shift(WriteMovToPtrRaxFromRdi) = 0
         /\ Shift(WriteCmpRaxImm8(0)) = 0
         /\ \A n \in Int : Shift(WriteMovToRdiFromQwordPtrRspOffset(n)) = 0
<1>1. \A a \in Straight :
        a.ins \in {"nop", "callrax", "loadptr", "storeptr", "cmp", "loadstack"} =>
          a \in Body(W) /\ Shift(a) = 0
  BY DEF Body, Shift
<1>2. /\ WriteNop.ins = "nop" /\ WriteCallRax.ins = "callrax"
      /\ WriteMovToRaxFromPtrRdi.ins = "loadptr" /\ WriteMovToPtrRaxFromRdi.ins = "storeptr"
      /\ WriteCmpRaxImm8(0).ins = "cmp"
      /\ \A n \in Int : WriteMovToRdiFromQwordPtrRspOffset(n).ins = "loadstack"
  BY DEF WriteNop, WriteCallRax, WriteMovToRaxFromPtrRdi, WriteMovToPtrRaxFromRdi,
         WriteCmpRaxImm8, WriteMovToRdiFromQwordPtrRspOffset
<1> QED BY <1>1, <1>2, FixedStraight, OthersStraight
-----------------------------------------------------------------------------
\* The loops of the BUILD_* cases.

LEMMA DivisionUnique ==
  ASSUME NEW width \in Nat \ {0}, NEW p \in Int, NEW q \in Int,
         NEW r \in 0 .. width - 1, NEW s \in 0 .. width - 1,
         p * width + r = q * width + s
  PROVE  p = q /\ r = s
<1>1. ASSUME NEW a \in Int, NEW b \in Int, NEW x \in 0 .. width - 1, NEW y \in 0 .. width - 1,
             a * width + x = b * width + y, a < b
      PROVE  FALSE
  <2>1. a * width + width <= b * width
    <3>1. (b - a) * width >= width
      BY <1>1
    <3>2. (b - a) * width = b * width - a * width
      OBVIOUS
    <3>3. a * width \in Int /\ b * width \in Int
      OBVIOUS
    <3> QED BY <3>1, <3>2, <3>3
  <2>2. a * width \in Int /\ b * width \in Int
    OBVIOUS
  <2> QED BY <2>1, <2>2, <1>1
<1>2. ~(p < q) /\ ~(q < p)
  BY <1>1
<1>3. p = q
  BY <1>2
<1>4. p * width \in Int
  OBVIOUS
<1> QED BY <1>3, <1>4

LEMMA DivisionFacts ==
  ASSUME NEW width \in Nat \ {0}, NEW k \in Int
  PROVE  k \div width \in Int /\ k % width \in 0 .. width - 1
           /\ k = (k \div width) * width + (k % width)
  OBVIOUS

\* Which round, and which instruction of it, the k-th instruction is.
LEMMA RoundOf ==
  ASSUME NEW n \in Nat, NEW width \in Nat \ {0}, NEW k \in 1 .. n * width
  PROVE  /\ (k - 1) \div width \in 0 .. n - 1
         /\ (k - 1) % width \in 0 .. width - 1
<1> DEFINE q == (k - 1) \div width
           r == (k - 1) % width
<1>1. q \in Int /\ r \in 0 .. width - 1 /\ k - 1 = q * width + r
  BY DivisionFacts
<1>2. n * width \in Nat /\ k - 1 >= 0 /\ k - 1 < n * width
  OBVIOUS
<1> HIDE DEF q, r
<1>3. ASSUME q < 0 PROVE FALSE
  <2>1. q + 1 <= 0
    BY <1>1, <1>3
  <2>2. (q + 1) * width <= 0
    BY <1>1, <2>1
  <2>3. (q + 1) * width = q * width + width
    BY <1>1
  <2> QED BY <1>1, <1>2, <2>2, <2>3
<1>4. ASSUME q >= n PROVE FALSE
  <2>1. q * width >= n * width
    BY <1>1, <1>4
  <2> QED BY <1>1, <1>2, <2>1
<1>5. q \in 0 .. n - 1
  BY <1>1, <1>3, <1>4
<1> QED BY <1>1, <1>5 DEF q, r

\* The instruction in front of it is of the same round, or the last of the one
\* before.
LEMMA RoundBefore ==
  ASSUME NEW width \in Nat \ {0}, NEW k \in Nat
  PROVE  IF k % width = 0
         THEN (k - 1) \div width = (k \div width) - 1 /\ (k - 1) % width = width - 1
         ELSE (k - 1) \div width = k \div width /\ (k - 1) % width = (k % width) - 1
<1> DEFINE p == (k - 1) \div width
           s == (k - 1) % width
           q == k \div width
           r == k % width
<1>1. /\ p \in Int /\ s \in 0 .. width - 1 /\ k - 1 = p * width + s
      /\ q \in Int /\ r \in 0 .. width - 1 /\ k = q * width + r
  BY DivisionFacts
<1> HIDE DEF p, q, r, s
<1>2. CASE r = 0
  <2>1. (q - 1) * width = q * width - width
    BY <1>1
  <2>2. p * width + s = (q - 1) * width + (width - 1)
    BY <1>1, <1>2, <2>1
  <2>3. q - 1 \in Int /\ width - 1 \in 0 .. width - 1
    BY <1>1
  <2>4. p = q - 1 /\ s = width - 1
    BY <1>1, <2>2, <2>3, DivisionUnique
  <2> QED BY <1>2, <2>4 DEF p, q, r, s
<1>3. CASE r # 0
  <2>1. p * width + s = q * width + (r - 1)
    BY <1>1
  <2>2. r - 1 \in 0 .. width - 1
    BY <1>1, <1>3
  <2>3. p = q /\ s = r - 1
    BY <1>1, <2>1, <2>2, DivisionUnique
  <2> QED BY <1>3, <2>3 DEF p, q, r, s
<1> QED BY <1>2, <1>3

\* Rounds that each end down words lower end n times as low.
LEMMA WorkRounds ==
  ASSUME NEW W, NEW n \in Nat, NEW width \in Nat \ {0}, NEW rounds,
         NEW m \in Nat, NEW down \in Nat, NEW need \in Nat,
         \A i \in 0 .. n - 1 : rounds[i] \in Works(W, m, -down) /\ Len(rounds[i]) = width,
         n > 0 => m + down * (n - 1) <= need
  PROVE  Rounds(n, width, rounds) \in Works(W, need, -(down * n))
<1> DEFINE s == Rounds(n, width, rounds)
           q(k) == (k - 1) \div width
           r(k) == (k - 1) % width
           Q(i) == CHOOSE P : Levels(P, rounds[i], m, -down)
           P == [k \in 0 .. n * width |-> IF k = 0 THEN 0 ELSE Q(q(k))[r(k) + 1] - down * q(k)]
<1>1. ASSUME NEW i \in 0 .. n - 1
      PROVE  /\ rounds[i] \in Seq(Body(W)) /\ Len(rounds[i]) = width
             /\ Q(i) \in [0 .. width -> Int] /\ Q(i)[0] = 0 /\ Q(i)[width] = -down
             /\ \A k \in 1 .. width : Q(i)[k] = Q(i)[k - 1] + Shift(rounds[i][k])
             /\ \A k \in 0 .. width : Q(i)[k] >= -m
  <2>1. \E X : Levels(X, rounds[i], m, -down)
    BY <1>1 DEF Works
  <2>2. Levels(Q(i), rounds[i], m, -down)
    BY <2>1
  <2>3. rounds[i] \in Seq(Body(W)) /\ Len(rounds[i]) = width
    BY <1>1 DEF Works
  <2> HIDE DEF Q
  <2> QED BY <2>2, <2>3 DEF Levels
<1>2. n * width \in Nat
  OBVIOUS
<1>3. ASSUME NEW k \in 1 .. n * width
      PROVE  q(k) \in 0 .. n - 1 /\ r(k) \in 0 .. width - 1
  BY <1>3, RoundOf
<1>4. /\ s \in Seq(Body(W)) /\ Len(s) = n * width
      /\ \A k \in 1 .. n * width : s[k] = rounds[q(k)][r(k) + 1]
  <2>1. ASSUME NEW k \in 1 .. n * width
        PROVE  rounds[q(k)][r(k) + 1] \in Body(W)
    <3>1. q(k) \in 0 .. n - 1 /\ r(k) + 1 \in 1 .. width
      BY <1>3
    <3> HIDE DEF q, r, Q
    <3>2. rounds[q(k)] \in Seq(Body(W)) /\ Len(rounds[q(k)]) = width
      BY <1>1, <3>1
    <3> QED BY <3>1, <3>2
  <2>2. s = [k \in 1 .. n * width |-> rounds[q(k)][r(k) + 1]]
    BY DEF Rounds
  <2> HIDE DEF s, q, r
  <2> QED BY <1>2, <2>1, <2>2
<1>5. /\ DOMAIN P = 0 .. n * width /\ P[0] = 0
      /\ \A k \in 1 .. n * width : P[k] = Q(q(k))[r(k) + 1] - down * q(k)
  <2> HIDE DEF Q, q, r
  <2> QED BY <1>2
<1>6. ASSUME NEW k \in 1 .. n * width
      PROVE  P[k] \in Int /\ P[k] >= -need
  <2>1. q(k) \in 0 .. n - 1 /\ r(k) + 1 \in 0 .. width
    BY <1>3
  <2>2. P[k] = Q(q(k))[r(k) + 1] - down * q(k)
    BY <1>5
  <2>3. Q(q(k))[r(k) + 1] \in Int /\ Q(q(k))[r(k) + 1] >= -m
    <3> HIDE DEF Q, q, r
    <3> QED BY <1>1, <2>1
  <2> HIDE DEF P, Q, q, r
  <2>4. down * q(k) \in Nat /\ down * q(k) <= down * (n - 1) /\ down * (n - 1) \in Int /\ n > 0
    BY <2>1, SMTT(30)
  <2> QED BY <2>2, <2>3, <2>4
<1>7. ASSUME NEW k \in 1 .. n * width
      PROVE  P[k] = P[k - 1] + Shift(s[k])
  <2>1. /\ q(k) \in 0 .. n - 1 /\ r(k) \in 0 .. width - 1 /\ s[k] = rounds[q(k)][r(k) + 1]
        /\ P[k] = Q(q(k))[r(k) + 1] - down * q(k)
    BY <1>3, <1>4, <1>5
  <2>2. Q(q(k))[r(k) + 1] = Q(q(k))[r(k)] + Shift(s[k])
    <3> HIDE DEF Q, q, r
    <3>1. r(k) + 1 \in 1 .. width /\ (r(k) + 1) - 1 = r(k)
      BY <2>1, SMTT(30)
    <3> QED BY <1>1, <2>1, <3>1
  <2>3. Q(q(k))[r(k)] \in Int /\ Shift(s[k]) \in Int /\ down * q(k) \in Int
    <3> HIDE DEF Q, q, r
    <3>1. r(k) \in 0 .. width
      BY <2>1
    <3>2. Q(q(k))[r(k)] \in Int
      BY <1>1, <2>1, <3>1
    <3>3. down * q(k) \in Int
      BY <2>1
    <3> QED BY <3>2, <3>3, ShiftType
  <2>4. P[k - 1] = Q(q(k))[r(k)] - down * q(k)
    <3>1. CASE k = 1
      <4>1. q(1) = 0 /\ r(1) = 0
        <5>1. 0 = 0 * width + 0 /\ 0 \in 0 .. width - 1
          OBVIOUS
        <5>2. q(1) \in Int /\ r(1) \in 0 .. width - 1 /\ 1 - 1 = q(1) * width + r(1)
          BY DivisionFacts
        <5> HIDE DEF q, r
        <5> QED BY <5>1, <5>2, DivisionUnique
      <4>2. Q(0)[0] = 0
        <5>1. 0 \in 0 .. n - 1
          BY <2>1, <4>1, <3>1
        <5> QED BY <1>1, <5>1
      <4>3. P[0] = 0 /\ down * 0 = 0
        BY <1>5
      <4> HIDE DEF P, Q, q, r
      <4> QED BY <3>1, <4>1, <4>2, <4>3
    <3>2. CASE k # 1
      <4>1. /\ k - 1 \in 1 .. n * width
            /\ P[k - 1] = Q(q(k - 1))[r(k - 1) + 1] - down * q(k - 1)
        <5>1. k - 1 \in 1 .. n * width
          BY <1>2, <3>2
        <5> HIDE DEF P, Q, q, r
        <5> QED BY <1>5, <5>1
      <4>2. IF r(k) = 0 THEN q(k - 1) = q(k) - 1 /\ r(k - 1) = width - 1
                        ELSE q(k - 1) = q(k) /\ r(k - 1) = r(k) - 1
        <5>1. k - 1 \in Nat
          OBVIOUS
        <5> QED BY <5>1, RoundBefore
      <4>3. q(k - 1) \in 0 .. n - 1
        BY <1>3, <4>1
      <4>4. CASE r(k) # 0
        <5>1. q(k - 1) = q(k) /\ r(k - 1) + 1 = r(k)
          BY <2>1, <4>2, <4>4
        <5> HIDE DEF P, Q, q, r
        <5> QED BY <4>1, <5>1
      <4>5. CASE r(k) = 0
        <5>1. q(k - 1) = q(k) - 1 /\ r(k - 1) + 1 = width
          BY <2>1, <4>2, <4>5
        <5>2. Q(q(k - 1))[width] = -down /\ Q(q(k))[0] = 0
          <6> HIDE DEF Q, q, r
          <6> QED BY <1>1, <2>1, <4>3
        <5> HIDE DEF P, Q, q, r
        <5>3. down * (q(k) - 1) = down * q(k) - down /\ down * q(k) \in Int
          BY <2>1
        <5> QED BY <4>1, <4>5, <5>1, <5>2, <5>3
      <4> QED BY <4>4, <4>5
    <3> QED BY <3>1, <3>2
  <2> HIDE DEF P, Q, q, r, s
  <2> QED BY <2>1, <2>2, <2>3, <2>4
<1>8. P[n * width] = -(down * n)
  <2>1. CASE n = 0
    <3>1. n * width = 0 /\ down * n = 0
      BY <2>1
    <3> HIDE DEF P
    <3> QED BY <1>5, <3>1
  <2>2. CASE n > 0
    <3> DEFINE k == n * width + 1
    <3>1. n * width \in 1 .. n * width /\ n * width \in Nat
      <4>1. n * width >= 1
        BY <2>2
      <4> QED BY <1>2, <4>1
    <3>2. q(k) = n /\ r(k) = 0
      <4>1. q(k) \in Int /\ r(k) \in 0 .. width - 1 /\ k - 1 = q(k) * width + r(k)
        <5>1. k - 1 \in Int
          BY <3>1
        <5> QED BY <5>1, DivisionFacts
      <4>2. k - 1 = n * width + 0 /\ 0 \in 0 .. width - 1
        BY <3>1
      <4> HIDE DEF q, r, k
      <4> QED BY <4>1, <4>2, DivisionUnique, SMTT(30)
    <3>3. q(n * width) = n - 1 /\ r(n * width) = width - 1
      <4>1. k - 1 = n * width
        BY <3>1
      <4>2. (n * width) \div width = n /\ (n * width) % width = 0
        BY <3>2, <4>1
      <4> QED BY <3>1, <4>2, RoundBefore
    <3>4. P[n * width] = Q(n - 1)[width] - down * (n - 1)
      <4>1. P[n * width] = Q(q(n * width))[r(n * width) + 1] - down * q(n * width)
        BY <1>5, <3>1
      <4>2. r(n * width) + 1 = width
        BY <3>3
      <4> HIDE DEF P, Q, q, r
      <4> QED BY <3>3, <4>1, <4>2
    <3>5. Q(n - 1)[width] = -down
      <4>1. n - 1 \in 0 .. n - 1
        BY <2>2
      <4> HIDE DEF Q
      <4> QED BY <1>1, <4>1
    <3>6. down * (n - 1) = down * n - down /\ down * n \in Int
      OBVIOUS
    <3> HIDE DEF P, Q
    <3> QED BY <3>4, <3>5, <3>6
  <2> QED BY <2>1, <2>2
<1>9. Levels(P, s, need, -(down * n))
  <2>1. 0 >= -need
    OBVIOUS
  <2>2. P \in [0 .. n * width -> Int]
    <3>1. P = [k \in 0 .. n * width |-> P[k]]
      <4> HIDE DEF q, r, Q
      <4> QED OBVIOUS
    <3>2. ASSUME NEW k \in 0 .. n * width PROVE P[k] \in Int
      <4> HIDE DEF P
      <4>1. k = 0 \/ k \in 1 .. n * width
        BY <1>2
      <4> QED BY <1>5, <1>6, <4>1
    <3> HIDE DEF P
    <3> QED BY <3>1, <3>2
  <2>3. \A k \in 0 .. n * width : P[k] >= -need
    <3> HIDE DEF P
    <3>1. \A k \in 0 .. n * width : k = 0 \/ k \in 1 .. n * width
      BY <1>2
    <3> QED BY <1>5, <1>6, <2>1, <3>1
  <2> HIDE DEF P, s
  <2> QED BY <1>4, <1>5, <1>7, <1>8, <2>2, <2>3 DEF Levels
<1>10. \E X : Levels(X, s, need, -(down * n))
  <2> HIDE DEF P, s
  <2> QED BY <1>9
<1> HIDE DEF s
<1>11. s \in Works(W, need, -(down * n))
  BY <1>4, <1>10 DEF Works
<1> QED BY <1>11 DEF s
-----------------------------------------------------------------------------
\* The opcodes.

LEMMA CallWorks ==
  ASSUME NEW W, NEW f \in FnNames
  PROVE  CallFn(f) \in Works(W, 0, 0) /\ CallFnPush(f) \in Works(W, 0, 1)
<1>1. FnAddr(f) \in Immediates
  BY ImmediateWords
<1>2. /\ WriteMovRax(FnAddr(f)) \in Body(W) /\ Shift(WriteMovRax(FnAddr(f))) = 0
      /\ WriteCallRax \in Body(W) /\ Shift(WriteCallRax) = 0
      /\ WritePushRax \in Body(W) /\ Shift(WritePushRax) = 1
  BY <1>1, ImmShifts, OtherShifts, PushShifts
<1>3. 0 \in Nat /\ -0 <= 0 /\ -0 <= 0 + 0 /\ 0 + 0 = 0 /\ -0 <= 1 /\ 0 + 1 = 1 /\ 0 - 0 <= 0 /\ 0 <= 0
      /\ 0 \in Int /\ 1 \in Int
  OBVIOUS
<1>4. CallFn(f) \in Works(W, 0, 0)
  <2>1. <<WriteMovRax(FnAddr(f)), WriteCallRax>>
           \in Works(W, 0, Shift(WriteMovRax(FnAddr(f))) + Shift(WriteCallRax))
    BY <1>2, <1>3, WorkTwo
  <2> QED BY <1>2, <1>3, <2>1 DEF CallFn
<1>5. <<WritePushRax>> \in Works(W, 0, 1)
  BY <1>2, <1>3, WorkOne
<1>6. CallFn(f) \o <<WritePushRax>> \in Works(W, 0, 0 + 1)
  BY <1>3, <1>4, <1>5, WorkConcat
<1> QED BY <1>3, <1>4, <1>6 DEF CallFnPush

\* Instructions and then a call of a C function.
LEMMA ThenCall ==
  ASSUME NEW W, NEW need \in Nat, NEW t \in Int, -need <= t,
         NEW s \in Works(W, need, t), NEW f \in FnNames
  PROVE  s \o CallFn(f) \in Works(W, need, t) /\ s \o CallFnPush(f) \in Works(W, need, t + 1)
<1>1. 0 \in Nat /\ 0 \in Int /\ 1 \in Int /\ need <= need /\ 0 - t <= need /\ t + 0 = t
  OBVIOUS
<1>2. CallFn(f) \in Works(W, 0, 0) /\ CallFnPush(f) \in Works(W, 0, 1)
  BY CallWorks
<1>3. s \o CallFn(f) \in Works(W, need, t + 0)
  BY <1>1, <1>2, WorkConcat
<1>4. s \o CallFnPush(f) \in Works(W, need, t + 1)
  BY <1>1, <1>2, WorkConcat
<1> QED BY <1>1, <1>3, <1>4

LEMMA OneWorks ==
  ASSUME NEW W
  PROVE  /\ <<WritePopRax>> \in Works(W, 1, -1) /\ <<WritePopRdi>> \in Works(W, 1, -1)
         /\ <<WritePopRdx>> \in Works(W, 1, -1)
         /\ <<WritePushRax>> \in Works(W, 0, 1) /\ <<WritePushR12>> \in Works(W, 0, 1)
         /\ <<WriteNop>> \in Works(W, 0, 0)
<1>1. 1 \in Nat /\ 0 \in Nat /\ -1 <= -1 /\ -0 <= 1 /\ -0 <= 0
  OBVIOUS
<1>2. <<WritePopRax>> \in Works(W, 1, -1) /\ <<WritePopRdi>> \in Works(W, 1, -1)
         /\ <<WritePopRdx>> \in Works(W, 1, -1)
  BY <1>1, PopShifts, WorkOne
<1>3. <<WritePushRax>> \in Works(W, 0, 1) /\ <<WritePushR12>> \in Works(W, 0, 1)
  BY <1>1, PushShifts, WorkOne
<1>4. <<WriteNop>> \in Works(W, 0, 0)
  BY <1>1, OtherShifts, WorkOne
<1> QED BY <1>2, <1>3, <1>4

LEMMA TwoWorks ==
  ASSUME NEW W
  PROVE  /\ <<WritePopRsi, WritePopRdi>> \in Works(W, 2, -2)
         /\ <<WritePopRdi, WritePopRsi>> \in Works(W, 2, -2)
         /\ <<WritePopRax, WritePopRax>> \in Works(W, 2, -2)
         /\ <<WritePopRdi, WritePushRdi>> \in Works(W, 1, 0)
<1>1. /\ 2 \in Nat /\ 1 \in Nat /\ -2 <= -1 /\ -2 <= -1 + -1 /\ -1 + -1 = -2
      /\ -1 <= -1 /\ -1 <= -1 + 1 /\ -1 + 1 = 0
  OBVIOUS
<1>2. /\ WritePopRax \in Body(W) /\ WritePopRdi \in Body(W) /\ WritePopRsi \in Body(W)
      /\ WritePushRdi \in Body(W)
      /\ Shift(WritePopRax) = -1 /\ Shift(WritePopRdi) = -1 /\ Shift(WritePopRsi) = -1
      /\ Shift(WritePushRdi) = 1
  BY PopShifts, PushShifts
<1>3. ASSUME NEW a \in Body(W), NEW b \in Body(W), Shift(a) = -1, Shift(b) = -1
      PROVE  <<a, b>> \in Works(W, 2, -2)
  <2>1. <<a, b>> \in Works(W, 2, Shift(a) + Shift(b))
    BY <1>1, <1>3, WorkTwo
  <2> QED BY <1>1, <1>3, <2>1
<1>4. <<WritePopRdi, WritePushRdi>> \in Works(W, 1, 0)
  <2>1. <<WritePopRdi, WritePushRdi>> \in Works(W, 1, Shift(WritePopRdi) + Shift(WritePushRdi))
    BY <1>1, <1>2, WorkTwo
  <2> QED BY <1>1, <1>2, <2>1
<1> QED BY <1>2, <1>3, <1>4

LEMMA MoveWorks ==
  ASSUME NEW W, NEW oprand \in Nat
  PROVE  /\ RESUME \in Works(W, 0, 0) /\ CACHE \in Works(W, 0, 0)
         /\ POP_TOP \in Works(W, 1, -1) /\ END_FOR \in Works(W, 2, -2)
         /\ LOAD_CONST(oprand) \in Works(W, 0, 1) /\ LOAD_FAST(oprand) \in Works(W, 0, 1)
         /\ STORE_FAST(oprand) \in Works(W, 1, -1) /\ COPY(oprand) \in Works(W, 0, 1)
         /\ SWAP \in Works(W, 2, 0)
<1>1. /\ ConstObj(oprand) \in Immediates /\ LocalAddr(oprand) \in Immediates /\ -oprand \in Int
  BY ImmediateWords
<1>2. RESUME \in Works(W, 0, 0) /\ CACHE \in Works(W, 0, 0) /\ POP_TOP \in Works(W, 1, -1)
  BY OneWorks DEF RESUME, CACHE, POP_TOP
<1>3. END_FOR \in Works(W, 2, -2)
  BY TwoWorks DEF END_FOR
<1>4. LOAD_CONST(oprand) \in Works(W, 0, 1)
  <2> DEFINE a == WriteMovRax(ConstObj(oprand))
  <2>1. /\ a \in Body(W) /\ Shift(a) = 0 /\ WritePushRax \in Body(W) /\ Shift(WritePushRax) = 1
    BY <1>1, ImmShifts, PushShifts
  <2> HIDE DEF a
  <2>2. 0 \in Nat /\ -0 <= 0 /\ -0 <= 0 + 1 /\ 0 + 1 = 1
    OBVIOUS
  <2>3. <<a, WritePushRax>> \in Works(W, 0, Shift(a) + Shift(WritePushRax))
    BY <2>1, <2>2, WorkTwo
  <2> QED BY <2>1, <2>2, <2>3 DEF LOAD_CONST, a
<1>5. LOAD_FAST(oprand) \in Works(W, 0, 1)
  <2> DEFINE a == WriteMovRdi(LocalAddr(oprand))
             b == WriteMovToRaxFromPtrRdi
             c == WritePushRax
  <2>1. /\ a \in Body(W) /\ Shift(a) = 0 /\ b \in Body(W) /\ Shift(b) = 0
        /\ c \in Body(W) /\ Shift(c) = 1
    BY <1>1, ImmShifts, OtherShifts, PushShifts
  <2> HIDE DEF a, b, c
  <2>2. 0 \in Nat /\ -0 <= 0 /\ -0 <= 0 + 0 /\ -0 <= 0 + 0 + 1 /\ 0 + 0 + 1 = 1
    OBVIOUS
  <2>3. <<a, b, c>> \in Works(W, 0, Shift(a) + Shift(b) + Shift(c))
    BY <2>1, <2>2, WorkThree
  <2> QED BY <2>1, <2>2, <2>3 DEF LOAD_FAST, a, b, c
<1>6. STORE_FAST(oprand) \in Works(W, 1, -1)
  <2> DEFINE a == WritePopRdi
             b == WriteMovRax(LocalAddr(oprand))
             c == WriteMovToPtrRaxFromRdi
  <2>1. /\ a \in Body(W) /\ Shift(a) = -1 /\ b \in Body(W) /\ Shift(b) = 0
        /\ c \in Body(W) /\ Shift(c) = 0
    BY <1>1, ImmShifts, OtherShifts, PopShifts
  <2> HIDE DEF a, b, c
  <2>2. 1 \in Nat /\ -1 <= -1 /\ -1 <= -1 + 0 /\ -1 <= -1 + 0 + 0 /\ -1 + 0 + 0 = -1
    OBVIOUS
  <2>3. <<a, b, c>> \in Works(W, 1, Shift(a) + Shift(b) + Shift(c))
    BY <2>1, <2>2, WorkThree
  <2> QED BY <2>1, <2>2, <2>3 DEF STORE_FAST, a, b, c
<1>7. COPY(oprand) \in Works(W, 0, 1)
  <2> DEFINE a == WriteMovToRdiFromQwordPtrRspOffset(-oprand)
  <2>1. /\ a \in Body(W) /\ Shift(a) = 0 /\ WritePushRdi \in Body(W) /\ Shift(WritePushRdi) = 1
    BY <1>1, OtherShifts, PushShifts
  <2> HIDE DEF a
  <2>2. 0 \in Nat /\ -0 <= 0 /\ -0 <= 0 + 1 /\ 0 + 1 = 1
    OBVIOUS
  <2>3. <<a, WritePushRdi>> \in Works(W, 0, Shift(a) + Shift(WritePushRdi))
    BY <2>1, <2>2, WorkTwo
  <2> QED BY <2>1, <2>2, <2>3 DEF COPY, a
<1>8. SWAP \in Works(W, 2, 0)
  <2> DEFINE a == WritePopRax
             b == WritePopRdi
             c == WritePushRax
             d == WritePushRdi
  <2>1. /\ a \in Body(W) /\ Shift(a) = -1 /\ b \in Body(W) /\ Shift(b) = -1
        /\ c \in Body(W) /\ Shift(c) = 1 /\ d \in Body(W) /\ Shift(d) = 1
    BY PopShifts, PushShifts
  <2> HIDE DEF a, b, c, d
  <2>2. /\ 2 \in Nat /\ -2 <= -1 /\ -2 <= -1 + -1 /\ -2 <= -1 + -1 + 1
        /\ -2 <= -1 + -1 + 1 + 1 /\ -1 + -1 + 1 + 1 = 0
    OBVIOUS
  <2>3. <<a, b, c, d>> \in Works(W, 2, Shift(a) + Shift(b) + Shift(c) + Shift(d))
    BY <2>1, <2>2, WorkFour
  <2> QED BY <2>1, <2>2, <2>3 DEF SWAP, a, b, c, d
<1> QED BY <1>2, <1>3, <1>4, <1>5, <1>6, <1>7, <1>8

LEMMA LoadGlobalWorks ==
  ASSUME NEW W, NEW oprand \in Nat, NEW glob, glob[oprand \div 2] \in Nat
  PROVE  LOAD_GLOBAL(oprand, glob) \in Works(W, 0, 1)
<1> DEFINE a == WriteMovRax(GlobalObj(oprand \div 2, glob[oprand \div 2]))
<1>1. oprand \div 2 \in Nat
  OBVIOUS
<1>2. GlobalObj(oprand \div 2, glob[oprand \div 2]) \in Immediates
  BY <1>1, ImmediateWords
<1>3. /\ a \in Body(W) /\ Shift(a) = 0 /\ WritePushRax \in Body(W) /\ Shift(WritePushRax) = 1
  BY <1>2, ImmShifts, PushShifts
<1> HIDE DEF a
<1>4. 0 \in Nat /\ -0 <= 0 /\ -0 <= 0 + 1 /\ 0 + 1 = 1
  OBVIOUS
<1>5. <<a, WritePushRax>> \in Works(W, 0, Shift(a) + Shift(WritePushRax))
  BY <1>3, <1>4, WorkTwo
<1> QED BY <1>3, <1>4, <1>5 DEF LOAD_GLOBAL, a

\* One operand, or two, and a call that returns the result.
LEMMA OperatorWorks ==
  ASSUME NEW W, NEW f \in FnNames
  PROVE  /\ <<WritePopRdi>> \o CallFnPush(f) \in Works(W, 1, 0)
         /\ <<WritePopRdi>> \o CallFn(f) \in Works(W, 1, -1)
         /\ <<WritePopRsi, WritePopRdi>> \o CallFnPush(f) \in Works(W, 2, -1)
         /\ <<WritePopRdi, WritePopRsi>> \o CallFnPush(f) \in Works(W, 2, -1)
<1>1. 1 \in Nat /\ -1 \in Int /\ -1 <= -1 /\ -1 + 1 = 0 /\ 2 \in Nat /\ -2 \in Int /\ -2 <= -2
        /\ -2 + 1 = -1
  OBVIOUS
<1>2. ASSUME NEW s \in Works(W, 1, -1)
      PROVE  s \o CallFnPush(f) \in Works(W, 1, 0) /\ s \o CallFn(f) \in Works(W, 1, -1)
  <2>1. s \o CallFnPush(f) \in Works(W, 1, -1 + 1) /\ s \o CallFn(f) \in Works(W, 1, -1)
    BY <1>1, ThenCall
  <2> QED BY <1>1, <2>1
<1>3. ASSUME NEW s \in Works(W, 2, -2)
      PROVE  s \o CallFnPush(f) \in Works(W, 2, -1)
  <2>1. s \o CallFnPush(f) \in Works(W, 2, -2 + 1)
    BY <1>1, ThenCall
  <2> QED BY <1>1, <2>1
<1> QED BY <1>2, <1>3, OneWorks, TwoWorks

LEMMA UnaryWorks ==
  ASSUME NEW W
  PROVE  /\ UNARY_NEGATIVE \in Works(W, 1, 0) /\ UNARY_INVERT \in Works(W, 1, 0)
         /\ CALL_INTRINSIC_1 \in Works(W, 1, 0) /\ GET_ITER \in Works(W, 1, 0)
  BY OperatorWorks
     DEF UNARY_NEGATIVE, UNARY_INVERT, CALL_INTRINSIC_1, GET_ITER, FnNames, WritePop1stArg

LEMMA BinaryWorks ==
  ASSUME NEW W
  PROVE  /\ BINARY_SUBSCR \in Works(W, 2, -1) /\ BINARY_OP_ADD_INT \in Works(W, 2, -1)
         /\ BINARY_OP_SUBTRACT_INT \in Works(W, 2, -1)
  BY OperatorWorks DEF BINARY_SUBSCR, BINARY_OP_ADD_INT, BINARY_OP_SUBTRACT_INT, FnNames,
     WritePop1stArg, WritePop2ndArg
\* The cases that make a bool of a C int.
LEMMA ToBool ==
  ASSUME NEW W, NEW need \in Nat, NEW t \in Int, -need <= t, NEW s \in Works(W, need, t),
         NEW f \in FnNames
  PROVE  s \o CallFnPush(f) \o <<WritePop1stArg>> \o CallFnPush("ConvertToPyBool")
           \in Works(W, need, t + 1)
<1>1. /\ 1 \in Nat /\ -1 \in Int /\ t + 1 \in Int /\ need <= need /\ 1 - (t + 1) <= need
      /\ (t + 1) + -1 = t
  OBVIOUS
<1>2. s \o CallFnPush(f) \in Works(W, need, t + 1)
  BY ThenCall
<1>3. <<WritePop1stArg>> \in Works(W, 1, -1)
  BY OneWorks DEF WritePop1stArg
<1>4. s \o CallFnPush(f) \o <<WritePop1stArg>> \in Works(W, need, t)
  <2>1. s \o CallFnPush(f) \o <<WritePop1stArg>> \in Works(W, need, (t + 1) + -1)
    BY <1>1, <1>2, <1>3, WorkConcat
  <2> QED BY <1>1, <2>1
<1>5. "ConvertToPyBool" \in FnNames
  BY DEF FnNames
<1> QED BY <1>4, <1>5, ThenCall

LEMMA BoolWorks ==
  ASSUME NEW W
  PROVE  /\ UNARY_NOT \in Works(W, 1, 0) /\ IS_OP \in Works(W, 2, -1)
         /\ CONTAINS_OP \in Works(W, 2, -1)
<1>1. /\ 1 \in Nat /\ -1 \in Int /\ -1 <= -1 /\ -1 + 1 = 0 /\ 2 \in Nat /\ -2 \in Int /\ -2 <= -2
      /\ -2 + 1 = -1
  OBVIOUS
<1>2. "PyObject_Not" \in FnNames /\ "Py_Is" \in FnNames /\ "PySequence_Contains" \in FnNames
  BY DEF FnNames
<1>3. /\ <<WritePopRdi>> \in Works(W, 1, -1) /\ <<WritePopRsi, WritePopRdi>> \in Works(W, 2, -2)
      /\ <<WritePop1stArg, WritePop2ndArg>> \in Works(W, 2, -2)
  BY OneWorks, TwoWorks DEF WritePop1stArg, WritePop2ndArg
<1>4. UNARY_NOT \in Works(W, 1, -1 + 1)
  BY <1>1, <1>2, <1>3, ToBool DEF UNARY_NOT
<1>5. IS_OP \in Works(W, 2, -2 + 1)
  BY <1>1, <1>2, <1>3, ToBool DEF IS_OP
<1>6. CONTAINS_OP \in Works(W, 2, -2 + 1)
  BY <1>1, <1>2, <1>3, ToBool DEF CONTAINS_OP
<1> QED BY <1>1, <1>4, <1>5, <1>6

\* The container is back on the stack.
LEMMA StoreSubscrWorks ==
  ASSUME NEW W
  PROVE  STORE_SUBSCR \in Works(W, 3, -2)
<1> DEFINE a == WritePop2ndArg
           b == WritePop1stArg
           c == WritePop3rdArg
           d == WritePush1stArg
<1>1. /\ a \in Body(W) /\ Shift(a) = -1 /\ b \in Body(W) /\ Shift(b) = -1
      /\ c \in Body(W) /\ Shift(c) = -1 /\ d \in Body(W) /\ Shift(d) = 1
  BY PopShifts, PushShifts DEF WritePop2ndArg, WritePop1stArg, WritePop3rdArg, WritePush1stArg
<1> HIDE DEF a, b, c, d
<1>2. /\ 3 \in Nat /\ -3 <= -1 /\ -3 <= -1 + -1 /\ -3 <= -1 + -1 + -1
      /\ -3 <= -1 + -1 + -1 + 1 /\ -1 + -1 + -1 + 1 = -2 /\ -2 \in Int /\ -3 <= -2
  OBVIOUS
<1>3. <<a, b, c, d>> \in Works(W, 3, -2)
  <2>1. <<a, b, c, d>> \in Works(W, 3, Shift(a) + Shift(b) + Shift(c) + Shift(d))
    BY <1>1, <1>2, WorkFour
  <2> QED BY <1>1, <1>2, <2>1
<1>4. "PyDict_SetItem" \in FnNames
  BY DEF FnNames
<1>5. <<a, b, c, d>> \o CallFn("PyDict_SetItem") \in Works(W, 3, -2)
  BY <1>2, <1>3, <1>4, ThenCall
<1> QED BY <1>5 DEF STORE_SUBSCR, a, b, c, d

LEMMA BinaryOpWorks ==
  ASSUME NEW W, NEW oprand \in DOMAIN oprand_to_func \cup {NB_POWER}
  PROVE  BINARY_OP(oprand) \in Works(W, 2, -1)
<1>1. CASE oprand = NB_POWER
  <2> DEFINE a == WriteMovTo3rdArgFromImm(PyNone)
  <2>1. a \in Body(W) /\ Shift(a) = 0
    BY ImmShifts, ImmediateWords
  <2>2. /\ 0 \in Nat /\ 0 \in Int /\ -0 <= 0 /\ 0 + 1 = 1 /\ 1 \in Int /\ 2 \in Nat /\ -2 \in Int
        /\ 2 <= 2 /\ 0 - -2 <= 2 /\ -2 + 1 = -1
    OBVIOUS
  <2>3. <<a>> \in Works(W, 0, 0)
    BY <2>1, <2>2, WorkOne
  <2> HIDE DEF a
  <2>4. "PyNumber_Power" \in FnNames
    BY DEF FnNames
  <2>5. <<a>> \o CallFnPush("PyNumber_Power") \in Works(W, 0, 1)
    <3>1. <<a>> \o CallFnPush("PyNumber_Power") \in Works(W, 0, 0 + 1)
      BY <2>2, <2>3, <2>4, ThenCall
    <3> QED BY <2>2, <3>1
  <2>6. <<WritePop2ndArg, WritePop1stArg>> \in Works(W, 2, -2)
    BY TwoWorks DEF WritePop1stArg, WritePop2ndArg
  <2>7. <<WritePop2ndArg, WritePop1stArg>> \o (<<a>> \o CallFnPush("PyNumber_Power"))
          \in Works(W, 2, -2 + 1)
    <3>1. ASSUME NEW x \in Works(W, 2, -2), NEW y \in Works(W, 0, 1)
          PROVE  x \o y \in Works(W, 2, -2 + 1)
      BY <2>2, WorkConcat
    <3> QED BY <2>5, <2>6, <3>1, Zenon
  <2> QED BY <1>1, <2>2, <2>7 DEF BINARY_OP, a
<1>2. CASE oprand # NB_POWER
  <2>1. oprand_to_func[oprand] \in FnNames
    BY <1>2 DEF FnNames
  <2> QED BY <1>2, <2>1, OperatorWorks DEF BINARY_OP, WritePop1stArg, WritePop2ndArg
<1> QED BY <1>1, <1>2

LEMMA CompareWorks ==
  ASSUME NEW W, NEW oprand \in Nat
  PROVE  COMPARE_OP(oprand) \in Works(W, 2, -1)
<1> DEFINE a == WritePop2ndArg
           b == WritePop1stArg
           c == WriteMovTo3rdArgFromImm(RawInt(oprand \div 16))
<1>1. RawInt(oprand \div 16) \in Immediates
  BY ImmediateWords
<1>2. /\ a \in Body(W) /\ Shift(a) = -1 /\ b \in Body(W) /\ Shift(b) = -1
      /\ c \in Body(W) /\ Shift(c) = 0
  BY <1>1, PopShifts, ImmShifts DEF WritePop2ndArg, WritePop1stArg
<1> HIDE DEF a, b, c
<1>3. /\ 2 \in Nat /\ -2 <= -1 /\ -2 <= -1 + -1 /\ -2 <= -1 + -1 + 0 /\ -1 + -1 + 0 = -2
      /\ -2 \in Int /\ -2 <= -2 /\ -2 + 1 = -1
  OBVIOUS
<1>4. <<a, b, c>> \in Works(W, 2, -2)
  <2>1. <<a, b, c>> \in Works(W, 2, Shift(a) + Shift(b) + Shift(c))
    BY <1>2, <1>3, WorkThree
  <2> QED BY <1>2, <1>3, <2>1
<1>5. "PyObject_RichCompare" \in FnNames
  BY DEF FnNames
<1>6. <<a, b, c>> \o CallFnPush("PyObject_RichCompare") \in Works(W, 2, -2 + 1)
  BY <1>3, <1>4, <1>5, ThenCall
<1> QED BY <1>3, <1>6 DEF COMPARE_OP, a, b, c

LEMMA LoadAttrWorks ==
  ASSUME NEW W, NEW oprand \in Nat
  PROVE  LOAD_ATTR(oprand) \in Works(W, 1, 0)
<1> DEFINE a == WritePop1stArg
           b == WriteMovTo2ndArgFromImm(NameObj(oprand \div 2))
<1>1. oprand \div 2 \in Nat
  OBVIOUS
<1>2. /\ a \in Body(W) /\ Shift(a) = -1 /\ b \in Body(W) /\ Shift(b) = 0
  BY <1>1, ImmediateWords, PopShifts, ImmShifts DEF WritePop1stArg
<1> HIDE DEF a, b
<1>3. /\ 1 \in Nat /\ -1 <= -1 /\ -1 <= -1 + 0 /\ -1 + 0 = -1 /\ -1 \in Int /\ -1 + 1 = 0
  OBVIOUS
<1>4. <<a, b>> \in Works(W, 1, -1)
  <2>1. <<a, b>> \in Works(W, 1, Shift(a) + Shift(b))
    BY <1>2, <1>3, WorkTwo
  <2> QED BY <1>2, <1>3, <2>1
<1>5. "PyObject_GetAttr" \in FnNames
  BY DEF FnNames
<1>6. <<a, b>> \o CallFnPush("PyObject_GetAttr") \in Works(W, 1, -1 + 1)
  BY <1>3, <1>4, <1>5, ThenCall
<1> QED BY <1>3, <1>6 DEF LOAD_ATTR, a, b

LEMMA CallOpWorks ==
  ASSUME NEW W
  PROVE  CALL(0) \in Works(W, 1, 0) /\ CALL(1) \in Works(W, 2, -1)
  BY OperatorWorks DEF CALL, FnNames

-----------------------------------------------------------------------------
\* Containers.

\* The rounds of a list or a tuple: one element each.
LEMMA SetItemRoundWorks ==
  ASSUME NEW W, NEW oprand \in Nat, NEW setitem \in FnNames, NEW i \in Int
  PROVE  /\ SetItemRound(oprand, setitem, i) \in Works(W, 1, -1)
         /\ Len(SetItemRound(oprand, setitem, i)) = 5
<1> DEFINE a == WriteMovTo1stArgFromR12
           b == WriteMovTo2ndArgFromImm(RawInt(oprand - i - 1))
           c == WritePop3rdArg
<1>1. RawInt(oprand - i - 1) \in Immediates
  BY ImmediateWords
<1>2. /\ a \in Body(W) /\ Shift(a) = 0 /\ b \in Body(W) /\ Shift(b) = 0
      /\ c \in Body(W) /\ Shift(c) = -1
  BY <1>1, MovShifts, ImmShifts, PopShifts DEF WritePop3rdArg
<1> HIDE DEF a, b, c
<1>3. /\ 1 \in Nat /\ -1 <= 0 /\ -1 <= 0 + 0 /\ -1 <= 0 + 0 + -1 /\ 0 + 0 + -1 = -1
      /\ -1 \in Int /\ -1 <= -1
  OBVIOUS
<1>4. <<a, b, c>> \in Works(W, 1, -1)
  <2>1. <<a, b, c>> \in Works(W, 1, Shift(a) + Shift(b) + Shift(c))
    BY <1>2, <1>3, WorkThree
  <2> QED BY <1>2, <1>3, <2>1
<1>5. <<a, b, c>> \o CallFn(setitem) \in Works(W, 1, -1)
  BY <1>3, <1>4, ThenCall
<1>6. Len(<<a, b, c>> \o CallFn(setitem)) = 5
  <2>1. CallFn(setitem) \in Works(W, 0, 0)
    BY CallWorks
  <2>2. CallFn(setitem) \in Seq(Body(W)) /\ <<a, b, c>> \in Seq(Body(W))
    BY <1>2, <2>1 DEF Works
  <2>3. Len(CallFn(setitem)) = 2 /\ Len(<<a, b, c>>) = 3
    BY DEF CallFn
  <2>4. Len(<<a, b, c>> \o CallFn(setitem)) = Len(<<a, b, c>>) + Len(CallFn(setitem))
    BY <2>2, ConcatProperties, Zenon
  <2> QED BY <2>3, <2>4
<1> QED BY <1>5, <1>6 DEF SetItemRound, a, b, c

LEMMA BuildSequenceWorks ==
  ASSUME NEW W, "r12" \in W, NEW oprand \in Nat, NEW new \in FnNames, NEW setitem \in FnNames
  PROVE  BuildSequence(oprand, new, setitem) \in Works(W, oprand, 1 - oprand)
<1> DEFINE rounds == [i \in 0 .. oprand - 1 |-> SetItemRound(oprand, setitem, i)]
           a == WriteMovTo1stArgFromImm(RawInt(oprand))
           b == WriteMovToR12FromRet
<1>1. /\ a \in Body(W) /\ Shift(a) = 0 /\ b \in Body(W) /\ Shift(b) = 0
  BY ImmediateWords, ImmShifts, MovShifts
<1>2. /\ 0 \in Nat /\ 0 \in Int /\ -0 <= 0 /\ 0 <= 0 /\ 0 - 0 <= 0 /\ 0 + 0 = 0
      /\ 1 \in Nat /\ 1 \in Int
  OBVIOUS
<1>3. <<a>> \in Works(W, 0, 0) /\ <<b>> \in Works(W, 0, 0)
  BY <1>1, <1>2, WorkOne
<1> HIDE DEF a, b
<1>4. <<a>> \o CallFn(new) \o <<b>> \in Works(W, 0, 0)
  <2>1. <<a>> \o CallFn(new) \in Works(W, 0, 0)
    BY <1>2, <1>3, ThenCall
  <2>2. <<a>> \o CallFn(new) \o <<b>> \in Works(W, 0, 0 + 0)
    BY <1>2, <1>3, <2>1, WorkConcat
  <2> QED BY <1>2, <2>2
<1>5. Rounds(oprand, 5, rounds) \in Works(W, oprand, -(1 * oprand))
  <2>1. \A i \in 0 .. oprand - 1 : rounds[i] \in Works(W, 1, -1) /\ Len(rounds[i]) = 5
    BY SetItemRoundWorks
  <2>2. 5 \in Nat \ {0} /\ (oprand > 0 => 1 + 1 * (oprand - 1) <= oprand)
    OBVIOUS
  <2> HIDE DEF rounds
  <2> QED BY <1>2, <2>1, <2>2, WorkRounds
<1> DEFINE r == Rounds(oprand, 5, rounds)
<1>6. r \in Works(W, oprand, -oprand)
  <2>1. -(1 * oprand) = -oprand
    OBVIOUS
  <2> QED BY <1>5, <2>1
<1> HIDE DEF r
<1>7. <<a>> \o CallFn(new) \o <<b>> \o r \in Works(W, oprand, -oprand)
  <2>1. 0 <= oprand /\ oprand - 0 <= oprand /\ 0 + -oprand = -oprand /\ -oprand \in Int
    OBVIOUS
  <2>2. <<a>> \o CallFn(new) \o <<b>> \o r \in Works(W, oprand, 0 + -oprand)
    BY <1>2, <1>4, <1>6, <2>1, WorkConcat
  <2> QED BY <2>1, <2>2
<1>8. <<a>> \o CallFn(new) \o <<b>> \o r \o <<WritePushR12>> \in Works(W, oprand, 1 - oprand)
  <2>1. oprand <= oprand /\ 0 - -oprand <= oprand /\ -oprand + 1 = 1 - oprand /\ -oprand \in Int
    OBVIOUS
  <2>2. <<a>> \o CallFn(new) \o <<b>> \o r \o <<WritePushR12>> \in Works(W, oprand, -oprand + 1)
    BY <1>2, <1>7, <2>1, OneWorks, WorkConcat
  <2> QED BY <2>1, <2>2
<1> QED BY <1>8 DEF BuildSequence, a, b, r
LEMMA MapRoundWorks ==
  ASSUME NEW W
  PROVE  MapRound \in Works(W, 3, -2) /\ Len(MapRound) = 6
<1> DEFINE a == WritePop1stArg
           b == WritePop3rdArg
           c == WritePop2ndArg
           d == WritePush1stArg
<1>1. /\ a \in Body(W) /\ Shift(a) = -1 /\ b \in Body(W) /\ Shift(b) = -1
      /\ c \in Body(W) /\ Shift(c) = -1 /\ d \in Body(W) /\ Shift(d) = 1
  BY PopShifts, PushShifts DEF WritePop2ndArg, WritePop1stArg, WritePop3rdArg, WritePush1stArg
<1> HIDE DEF a, b, c, d
<1>2. /\ 3 \in Nat /\ -3 <= -1 /\ -3 <= -1 + -1 /\ -3 <= -1 + -1 + -1
      /\ -3 <= -1 + -1 + -1 + 1 /\ -1 + -1 + -1 + 1 = -2 /\ -2 \in Int /\ -3 <= -2
  OBVIOUS
<1>3. <<a, b, c, d>> \in Works(W, 3, -2)
  <2>1. <<a, b, c, d>> \in Works(W, 3, Shift(a) + Shift(b) + Shift(c) + Shift(d))
    BY <1>1, <1>2, WorkFour
  <2> QED BY <1>1, <1>2, <2>1
<1>4. "PyDict_SetItem" \in FnNames
  BY DEF FnNames
<1>5. <<a, b, c, d>> \o CallFn("PyDict_SetItem") \in Works(W, 3, -2)
  BY <1>2, <1>3, <1>4, ThenCall
<1>6. Len(<<a, b, c, d>> \o CallFn("PyDict_SetItem")) = 6
  <2>1. CallFn("PyDict_SetItem") \in Works(W, 0, 0)
    BY <1>4, CallWorks
  <2>2. CallFn("PyDict_SetItem") \in Seq(Body(W)) /\ <<a, b, c, d>> \in Seq(Body(W))
    BY <1>1, <2>1 DEF Works
  <2>3. Len(CallFn("PyDict_SetItem")) = 2 /\ Len(<<a, b, c, d>>) = 4
    BY DEF CallFn
  <2> DEFINE s == <<a, b, c, d>>
             t == CallFn("PyDict_SetItem")
  <2> HIDE DEF s, t
  <2>4. Len(s \o t) = Len(s) + Len(t)
    BY <2>2, ConcatProperties, Zenon DEF s, t
  <2>5. Len(s) = 4 /\ Len(t) = 2
    BY <2>3 DEF s, t
  <2>6. Len(s \o t) = 6
    BY <2>4, <2>5
  <2> QED BY <2>6 DEF s, t
<1> QED BY <1>5, <1>6 DEF MapRound, a, b, c, d

LEMMA BuildMapWorks ==
  ASSUME NEW W, NEW oprand \in Nat
  PROVE  BUILD_MAP(oprand) \in Works(W, 2 * oprand, 1 - 2 * oprand)
<1> DEFINE rounds == [i \in 0 .. oprand - 1 |-> MapRound]
           n == 2 * oprand
           r == Rounds(oprand, 6, rounds)
<1>1. n \in Nat /\ n + 1 \in Nat /\ -n \in Int
  OBVIOUS
<1>2. r \in Works(W, n + 1, -n)
  <2>1. \A i \in 0 .. oprand - 1 : rounds[i] \in Works(W, 3, -2) /\ Len(rounds[i]) = 6
    BY MapRoundWorks
  <2>2. /\ 6 \in Nat \ {0} /\ 3 \in Nat /\ 2 \in Nat
        /\ oprand > 0 => 3 + 2 * (oprand - 1) <= n + 1
    OBVIOUS
  <2>3. r \in Works(W, n + 1, -(2 * oprand))
    <3> HIDE DEF rounds, n
    <3> QED BY <1>1, <2>1, <2>2, WorkRounds
  <2> QED BY <2>3
<1>3. "PyDict_New" \in FnNames
  BY DEF FnNames
<1>4. CallFnPush("PyDict_New") \in Works(W, 0, 1)
  BY <1>3, CallWorks
<1>5. 1 + -n = 1 - n /\ 0 \in Nat /\ 0 <= n /\ (n + 1) - 1 <= n /\ 1 \in Int
  OBVIOUS
<1> HIDE DEF r, n
<1>6. CallFnPush("PyDict_New") \o r \in Works(W, n, 1 + -n)
  BY <1>1, <1>2, <1>4, <1>5, WorkConcat
<1>7. CallFnPush("PyDict_New") \o r \in Works(W, n, 1 - n)
  BY <1>5, <1>6
<1> QED BY <1>7 DEF BUILD_MAP, r, n

\* Instructions of which only the last takes a word.
LEMMA WorkQuiet ==
  ASSUME NEW W, NEW n \in Nat, NEW s \in Seq(Body(W)), Len(s) = n + 1,
         \A k \in 1 .. n : Shift(s[k]) = 0, Shift(s[n + 1]) = -1
  PROVE  s \in Works(W, 1, -1)
<1> DEFINE P == [k \in 0 .. n + 1 |-> IF k = n + 1 THEN -1 ELSE 0]
<1>1. Levels(P, s, 1, -1)
  BY DEF Levels
<1> HIDE DEF P
<1> QED BY <1>1 DEF Works

LEMMA ConstKeyRoundWorks ==
  ASSUME NEW W, NEW oprand \in Nat, NEW i \in Int
  PROVE  ConstKeyRound(oprand, i) \in Works(W, 1, -1) /\ Len(ConstKeyRound(oprand, i)) = 10
<1> DEFINE a == WriteMovRax(FnAddr("PyTuple_GetItem"))
           b == WriteMovTo2ndArgFromImm(RawInt(oprand - 1 - i))
           s == <<WriteNop, a, WriteMovTo1stArgFromR13, b, WriteCallRax, WriteMovTo2ndArgFromRet,
                  WriteMovTo1stArgFromR12, WritePop3rdArg>>
<1>1. "PyTuple_GetItem" \in FnNames /\ "PyDict_SetItem" \in FnNames /\ oprand - 1 - i \in Int
  BY DEF FnNames
<1>2. a \in Body(W) /\ Shift(a) = 0 /\ b \in Body(W) /\ Shift(b) = 0
  BY <1>1, ImmShifts, ImmediateWords
<1> HIDE DEF a, b
<1>3. /\ WriteNop \in Body(W) /\ Shift(WriteNop) = 0
      /\ WriteMovTo1stArgFromR13 \in Body(W) /\ Shift(WriteMovTo1stArgFromR13) = 0
      /\ WriteCallRax \in Body(W) /\ Shift(WriteCallRax) = 0
      /\ WriteMovTo2ndArgFromRet \in Body(W) /\ Shift(WriteMovTo2ndArgFromRet) = 0
      /\ WriteMovTo1stArgFromR12 \in Body(W) /\ Shift(WriteMovTo1stArgFromR12) = 0
      /\ WritePop3rdArg \in Body(W) /\ Shift(WritePop3rdArg) = -1
  BY OtherShifts, MovShifts, PopShifts DEF WritePop3rdArg
<1>4. s \in Seq(Body(W)) /\ Len(s) = 7 + 1
  BY <1>2, <1>3
<1>5. \A k \in 1 .. 7 : Shift(s[k]) = 0
  <2>1. \A k \in 1 .. 7 : k = 1 \/ k = 2 \/ k = 3 \/ k = 4 \/ k = 5 \/ k = 6 \/ k = 7
    OBVIOUS
  <2>2. /\ Shift(s[1]) = 0 /\ Shift(s[2]) = 0 /\ Shift(s[3]) = 0 /\ Shift(s[4]) = 0
        /\ Shift(s[5]) = 0 /\ Shift(s[6]) = 0 /\ Shift(s[7]) = 0
    BY <1>2, <1>3
  <2> HIDE DEF s
  <2> QED BY <2>1, <2>2
<1>6. Shift(s[7 + 1]) = -1
  BY <1>3
<1>7. s \in Works(W, 1, -1)
  <2>1. 7 \in Nat
    OBVIOUS
  <2> HIDE DEF s
  <2> QED BY <1>4, <1>5, <1>6, <2>1, WorkQuiet
<1>8. 1 \in Nat /\ -1 \in Int /\ -1 <= -1
  OBVIOUS
<1>9. CallFn("PyDict_SetItem") \in Seq(Body(W)) /\ Len(CallFn("PyDict_SetItem")) = 2
  BY <1>1, CallWorks DEF Works, CallFn
<1> HIDE DEF s
<1>10. s \o CallFn("PyDict_SetItem") \in Works(W, 1, -1)
  BY <1>1, <1>7, <1>8, ThenCall
<1>11. Len(s \o CallFn("PyDict_SetItem")) = 10
  <2> DEFINE t == CallFn("PyDict_SetItem")
  <2>1. Len(s \o t) = Len(s) + Len(t)
    BY <1>4, <1>9, ConcatProperties, Zenon
  <2>2. Len(s) = 8 /\ Len(t) = 2
    BY <1>4, <1>9
  <2> HIDE DEF t
  <2>3. Len(s \o t) = 10
    BY <2>1, <2>2
  <2> QED BY <2>3 DEF t
<1> QED BY <1>10, <1>11 DEF ConstKeyRound, a, b, s

LEMMA BuildConstKeyMapWorks ==
  ASSUME NEW W, "r12" \in W, "r13" \in W, NEW oprand \in Nat
  PROVE  BUILD_CONST_KEY_MAP(oprand) \in Works(W, oprand + 1, -oprand)
<1> DEFINE rounds == [i \in 0 .. oprand - 1 |-> ConstKeyRound(oprand, i)]
           r == Rounds(oprand, 10, rounds)
           a == WriteMovToR12FromRet
           b == WritePopR13
           c == CallFn("PyDict_New")
<1>1. /\ oprand + 1 \in Nat /\ -oprand \in Int /\ 0 \in Nat /\ 1 \in Nat /\ 0 \in Int /\ 1 \in Int
      /\ -1 \in Int /\ -1 <= 0 /\ -1 <= 0 + -1 /\ 0 + -1 = -1 /\ 0 <= 1 /\ 1 - 0 <= 1
  OBVIOUS
<1>2. r \in Works(W, oprand, -oprand)
  <2>1. \A i \in 0 .. oprand - 1 : rounds[i] \in Works(W, 1, -1) /\ Len(rounds[i]) = 10
    BY ConstKeyRoundWorks
  <2>2. 10 \in Nat \ {0} /\ (oprand > 0 => 1 + 1 * (oprand - 1) <= oprand)
    OBVIOUS
  <2>3. r \in Works(W, oprand, -(1 * oprand))
    <3> HIDE DEF rounds
    <3> QED BY <1>1, <2>1, <2>2, WorkRounds
  <2>4. -(1 * oprand) = -oprand
    OBVIOUS
  <2> HIDE DEF r
  <2> QED BY <2>3, <2>4
<1>3. c \in Works(W, 0, 0)
  <2>1. "PyDict_New" \in FnNames
    BY DEF FnNames
  <2> QED BY <2>1, CallWorks
<1>4. a \in Body(W) /\ Shift(a) = 0 /\ b \in Body(W) /\ Shift(b) = -1
  BY MovShifts, PopShifts
<1> HIDE DEF r, a, b, c
<1>5. <<a, b>> \in Works(W, 1, -1)
  <2>1. <<a, b>> \in Works(W, 1, Shift(a) + Shift(b))
    BY <1>1, <1>4, WorkTwo
  <2> QED BY <1>1, <1>4, <2>1
<1>6. c \o <<a, b>> \in Works(W, 1, -1)
  <2>1. c \o <<a, b>> \in Works(W, 1, 0 + -1)
    BY <1>1, <1>3, <1>5, WorkConcat
  <2> QED BY <1>1, <2>1
<1>7. c \o <<a, b>> \o r \in Works(W, oprand + 1, -oprand - 1)
  <2>1. 1 <= oprand + 1 /\ oprand - -1 <= oprand + 1 /\ -1 + -oprand = -oprand - 1
    OBVIOUS
  <2>2. c \o <<a, b>> \o r \in Works(W, oprand + 1, -1 + -oprand)
    BY <1>1, <1>2, <1>6, <2>1, WorkConcat
  <2> QED BY <2>1, <2>2
<1>8. c \o <<a, b>> \o r \o <<WritePushR12>> \in Works(W, oprand + 1, -oprand)
  <2>1. /\ oprand + 1 <= oprand + 1 /\ 0 - (-oprand - 1) <= oprand + 1
        /\ (-oprand - 1) + 1 = -oprand /\ -oprand - 1 \in Int
    OBVIOUS
  <2>2. c \o <<a, b>> \o r \o <<WritePushR12>> \in Works(W, oprand + 1, (-oprand - 1) + 1)
    BY <1>1, <1>7, <2>1, OneWorks, WorkConcat
  <2> QED BY <2>1, <2>2
<1> QED BY <1>8 DEF BUILD_CONST_KEY_MAP, a, b, c, r
-----------------------------------------------------------------------------
\* The switch.

\* The callee-saved registers the code of an op writes.
Written(op) == {r \in {"r12", "r13"} : op \in BuildsWith(r)}

\* What the code of an op adds to the machine stack: the container STORE_SUBSCR
\* leaves is none of the bytecode's.
Left(op, oprand) == StackEffect(op, oprand) + (IF op = "STORE_SUBSCR" THEN 1 ELSE 0)

\* The code of an op: s, which works on the stack as CPython says, and behind it
\* what ends a jump or a return.
Shape(op, oprand, c, s) ==
  /\ c \in Code
  /\ s \in Works(Written(op), PoppedBy(op, oprand), Left(op, oprand))
  /\ \A k \in 1 .. Len(s) : c[k] = s[k]
  /\ Len(c) = Len(s) + (CASE op \in JumpOpcodes   -> 1
                          [] op \in ReturnOpcodes -> 2
                          [] OTHER                -> 0)
  /\ op \in JumpOpcodes => c[Len(s) + 1] \in Jumps
  /\ op = "JUMP_BACKWARD" => c[Len(s) + 1].ins = "jmp"
  /\ op \in ReturnOpcodes => c[Len(s) + 1] = WriteLeave /\ c[Len(s) + 2] = WriteRet

LEMMA BodyInCode == \A W : Seq(Body(W)) \subseteq Seq(Instructions)
  BY DEF Body, Instructions

\* An op whose code is straight.
LEMMA StraightShape ==
  ASSUME NEW op, NEW oprand, NEW c \in Code, op \notin JumpOpcodes, op \notin ReturnOpcodes,
         c \in Works(Written(op), PoppedBy(op, oprand), Left(op, oprand))
  PROVE  \E s : Shape(op, oprand, c, s)
<1>1. Len(c) = Len(c) + 0
  BY DEF Code
<1>2. op # "JUMP_BACKWARD"
  BY DEF JumpOpcodes
<1>3. Shape(op, oprand, c, c)
  BY <1>1, <1>2 DEF Shape
<1> QED BY <1>3

\* How the stack moves, by op.
LEMMA MoveEffects ==
  ASSUME NEW oprand \in Nat
  PROVE  /\ \A op \in {"RESUME", "CACHE"} :
              PoppedBy(op, oprand) = 0 /\ Left(op, oprand) = 0
         /\ \A op \in {"LOAD_CONST", "LOAD_FAST", "COPY", "LOAD_GLOBAL"} :
              PoppedBy(op, oprand) = 0 /\ Left(op, oprand) = 1
         /\ \A op \in {"POP_TOP", "STORE_FAST"} :
              PoppedBy(op, oprand) = 1 /\ Left(op, oprand) = -1
         /\ PoppedBy("SWAP", oprand) = 2 /\ Left("SWAP", oprand) = 0
         /\ PoppedBy("END_FOR", oprand) = 2 /\ Left("END_FOR", oprand) = -2
         /\ \A op \in {"UNARY_NEGATIVE", "UNARY_INVERT", "UNARY_NOT", "CALL_INTRINSIC_1",
                       "GET_ITER", "LOAD_ATTR"} :
              PoppedBy(op, oprand) = 1 /\ Left(op, oprand) = 0
         /\ \A op \in {"IS_OP", "CONTAINS_OP", "BINARY_SUBSCR", "BINARY_OP",
                       "BINARY_OP_ADD_INT", "BINARY_OP_SUBTRACT_INT", "COMPARE_OP"} :
              PoppedBy(op, oprand) = 2 /\ Left(op, oprand) = -1
         /\ PoppedBy("STORE_SUBSCR", oprand) = 3 /\ Left("STORE_SUBSCR", oprand) = -2
         /\ PoppedBy("CALL", oprand) = oprand + 1 /\ Left("CALL", oprand) = -oprand
  BY DEF PoppedBy, Left, StackEffect

LEMMA BuildEffects ==
  ASSUME NEW oprand \in Nat
  PROVE  /\ \A op \in {"BUILD_LIST", "BUILD_TUPLE"} :
              PoppedBy(op, oprand) = oprand /\ Left(op, oprand) = 1 - oprand
         /\ PoppedBy("BUILD_MAP", oprand) = 2 * oprand
         /\ Left("BUILD_MAP", oprand) = 1 - 2 * oprand
         /\ PoppedBy("BUILD_CONST_KEY_MAP", oprand) = oprand + 1
         /\ Left("BUILD_CONST_KEY_MAP", oprand) = -oprand
  BY DEF PoppedBy, Left, StackEffect

LEMMA EndEffects ==
  ASSUME NEW oprand \in Nat
  PROVE  /\ PoppedBy("FOR_ITER", oprand) = 1 /\ Left("FOR_ITER", oprand) = 1
         /\ PoppedBy("JUMP_BACKWARD", oprand) = 0 /\ Left("JUMP_BACKWARD", oprand) = 0
         /\ \A op \in {"POP_JUMP_IF_TRUE", "POP_JUMP_IF_FALSE", "RETURN_VALUE"} :
              PoppedBy(op, oprand) = 1 /\ Left(op, oprand) = -1
         /\ PoppedBy("RETURN_CONST", oprand) = 0 /\ Left("RETURN_CONST", oprand) = 0
  BY DEF PoppedBy, Left, StackEffect

\* Straight code moves the stack as CPython says the op does, apart from
\* STORE_SUBSCR.
LEMMA StraightWorks ==
  ASSUME NEW op, NEW oprand \in Nat, NEW glob,
         Compilable(op, oprand, glob), op \notin JumpOpcodes, op \notin ReturnOpcodes,
         op = "LOAD_GLOBAL" => glob[oprand \div 2] \in Nat
  PROVE  Template(op, oprand, glob)
           \in Works(Written(op), PoppedBy(op, oprand), Left(op, oprand))
<1>1. CASE op \in {"RESUME", "CACHE", "POP_TOP", "LOAD_CONST", "LOAD_FAST", "STORE_FAST", "SWAP",
                   "COPY", "END_FOR"}
  BY <1>1, MoveWorks, MoveEffects DEF Template
<1>2. CASE op \in {"UNARY_NEGATIVE", "UNARY_INVERT", "GET_ITER", "CALL_INTRINSIC_1"}
  BY <1>2, UnaryWorks, MoveEffects DEF Template
<1>3. CASE op \in {"UNARY_NOT", "IS_OP", "CONTAINS_OP"}
  BY <1>3, BoolWorks, MoveEffects DEF Template
<1>4. CASE op \in {"BINARY_SUBSCR", "BINARY_OP_ADD_INT", "BINARY_OP_SUBTRACT_INT"}
  BY <1>4, BinaryWorks, MoveEffects DEF Template
<1>5. CASE op \in {"STORE_SUBSCR", "COMPARE_OP", "LOAD_ATTR"}
  BY <1>5, StoreSubscrWorks, CompareWorks, LoadAttrWorks, MoveEffects DEF Template
<1>6. CASE op = "CALL"
  <2>1. oprand \in {0, 1}
    BY <1>6 DEF Compilable, PlainOpcodes, JumpOpcodes
  <2>2. CASE oprand = 0
    <3>1. Template(op, oprand, glob) = CALL(0)
      BY <1>6, <2>2 DEF Template
    <3>2. PoppedBy(op, oprand) = 1 /\ Left(op, oprand) = 0
      BY <1>6, <2>2, MoveEffects
    <3> QED BY <3>1, <3>2, CallOpWorks
  <2>3. CASE oprand = 1
    <3>1. Template(op, oprand, glob) = CALL(1)
      BY <1>6, <2>3 DEF Template
    <3>2. PoppedBy(op, oprand) = 2 /\ Left(op, oprand) = -1
      BY <1>6, <2>3, MoveEffects
    <3> QED BY <3>1, <3>2, CallOpWorks
  <2> QED BY <2>1, <2>2, <2>3
<1>7. CASE op \in {"BUILD_LIST", "BUILD_TUPLE"}
  <2>1. "r12" \in Written(op)
    BY <1>7 DEF Written, BuildsWith
  <2>2. /\ "PyList_New" \in FnNames /\ "PyTuple_New" \in FnNames
        /\ "PyList_SetItem" \in FnNames /\ "PyTuple_SetItem" \in FnNames
    BY DEF FnNames
  <2>3. /\ BUILD_LIST(oprand) \in Works(Written(op), oprand, 1 - oprand)
        /\ BUILD_TUPLE(oprand) \in Works(Written(op), oprand, 1 - oprand)
    BY <2>1, <2>2, BuildSequenceWorks DEF BUILD_LIST, BUILD_TUPLE
  <2> QED BY <1>7, <2>3, BuildEffects DEF Template
<1>8. CASE op = "BUILD_MAP"
  BY <1>8, BuildMapWorks, BuildEffects DEF Template
<1>9. CASE op = "BUILD_CONST_KEY_MAP"
  <2>1. "r12" \in Written(op) /\ "r13" \in Written(op)
    BY <1>9 DEF Written, BuildsWith
  <2> QED BY <1>9, <2>1, BuildConstKeyMapWorks, BuildEffects DEF Template
<1>10. CASE op = "LOAD_GLOBAL"
  BY <1>10, LoadGlobalWorks, MoveEffects DEF Template
<1>11. CASE op = "BINARY_OP"
  <2>1. oprand \in DOMAIN oprand_to_func \cup {NB_POWER}
    BY <1>11 DEF Compilable, PlainOpcodes, JumpOpcodes
  <2> QED BY <1>11, <2>1, BinaryOpWorks, MoveEffects DEF Template
<1>12. op \in PlainOpcodes \cup {"CALL", "BINARY_OP", "COMPARE_OP", "CALL_INTRINSIC_1",
                              "LOAD_GLOBAL"}
  BY DEF Compilable
<1> QED BY <1>1, <1>2, <1>3, <1>4, <1>5, <1>6, <1>7, <1>8, <1>9, <1>10, <1>11, <1>12
      DEF PlainOpcodes, ReturnOpcodes
\* A jump, behind code that works.
LEMMA JumpShape ==
  ASSUME NEW op \in JumpOpcodes, NEW oprand,
         NEW x \in Seq(Body(Written(op))), NEW a \in Body(Written(op)), NEW j \in Jumps,
         op = "JUMP_BACKWARD" => j.ins = "jmp",
         x \o <<a>> \in Works(Written(op), PoppedBy(op, oprand), Left(op, oprand))
  PROVE  \E s : Shape(op, oprand, x \o <<a, j>>, s)
<1> DEFINE s == x \o <<a>>
           c == x \o <<a, j>>
<1>1. x \in Seq(Instructions) /\ a \in Instructions /\ j \in Instructions
  BY BodyInCode DEF Body, Instructions
<1>2. c \in Seq(Instructions) /\ Len(c) = Len(x) + 2 /\ Len(x) \in Nat
  BY <1>1
<1>3. c \in Code
  BY <1>2 DEF Code
<1>4. Len(s) = Len(x) + 1 /\ \A k \in 1 .. Len(x) : s[k] = x[k] /\ c[k] = x[k]
  BY <1>1
<1>5. s[Len(x) + 1] = a /\ c[Len(x) + 1] = a /\ c[Len(x) + 2] = j
  BY <1>1
<1> HIDE DEF s, c
<1>6. \A k \in 1 .. Len(s) : c[k] = s[k]
  <2>1. \A k \in 1 .. Len(s) : k \in 1 .. Len(x) \/ k = Len(x) + 1
    BY <1>2, <1>4
  <2> QED BY <1>4, <1>5, <2>1
<1>7. c[Len(s) + 1] = j /\ Len(c) = Len(s) + 1
  <2>1. Len(s) + 1 = Len(x) + 2
    BY <1>2, <1>4
  <2> QED BY <1>2, <1>5, <2>1
<1>8. op \notin ReturnOpcodes
  BY DEF JumpOpcodes, ReturnOpcodes
<1>9. Shape(op, oprand, c, s)
  BY <1>3, <1>6, <1>7, <1>8 DEF Shape, s
<1> QED BY <1>9 DEF c

LEMMA ForIterShape ==
  ASSUME NEW oprand \in Nat
  PROVE  \E s : Shape("FOR_ITER", oprand, FOR_ITER, s)
<1> DEFINE W == Written("FOR_ITER")
           x == <<WritePopRdi, WritePushRdi>> \o CallFnPush("PyIter_Next")
           a == WriteCmpRaxImm8(0)
<1>1. "PyIter_Next" \in FnNames /\ "FOR_ITER" \in JumpOpcodes
  BY DEF FnNames, JumpOpcodes
<1>2. a \in Body(W) /\ Shift(a) = 0
  BY OtherShifts
<1> HIDE DEF W, a
<1>3. /\ 1 \in Nat /\ 0 \in Nat /\ 0 \in Int /\ 1 \in Int /\ -1 <= 0 /\ 0 + 1 = 1 /\ -0 <= 0
      /\ 1 <= 1 /\ 0 - 1 <= 1 /\ 1 + 0 = 1
  OBVIOUS
<1>4. x \in Works(W, 1, 1)
  <2>1. x \in Works(W, 1, 0 + 1)
    BY <1>1, <1>3, TwoWorks, ThenCall
  <2> QED BY <1>3, <2>1
<1> HIDE DEF x
<1>5. <<a>> \in Works(W, 0, 0)
  BY <1>2, <1>3, WorkOne
<1>6. x \o <<a>> \in Works(W, 1, 1)
  <2>1. x \o <<a>> \in Works(W, 1, 1 + 0)
    BY <1>3, <1>4, <1>5, WorkConcat
  <2> QED BY <1>3, <2>1
<1>7. x \in Seq(Body(W))
  BY <1>4 DEF Works
<1>8. x \o <<a>> \in Works(W, PoppedBy("FOR_ITER", oprand), Left("FOR_ITER", oprand))
  BY <1>6, EndEffects
<1>9. \E s : Shape("FOR_ITER", oprand, x \o <<a, WriteJzRel32>>, s)
  BY <1>1, <1>2, <1>7, <1>8, JumpShape, JumpTemplates DEF W
<1> QED BY <1>9 DEF FOR_ITER, x, a

LEMMA PopJumpShape ==
  ASSUME NEW op \in {"POP_JUMP_IF_TRUE", "POP_JUMP_IF_FALSE"}, NEW oprand \in Nat,
         NEW j \in Jumps
  PROVE  \E s : Shape(op, oprand, POP_JUMP_IF(j), s)
<1> DEFINE W == Written(op)
           x == <<WritePopRdi>> \o CallFn("IsPyTrue")
           a == WriteCmpRaxImm8(0)
<1>1. "IsPyTrue" \in FnNames /\ op \in JumpOpcodes /\ op # "JUMP_BACKWARD"
  BY DEF FnNames, JumpOpcodes
<1>2. a \in Body(W) /\ Shift(a) = 0
  BY OtherShifts
<1> HIDE DEF W, a
<1>3. /\ 1 \in Nat /\ 0 \in Nat /\ 0 \in Int /\ -1 \in Int /\ -1 <= -1 /\ -0 <= 0
      /\ 1 <= 1 /\ 0 - -1 <= 1 /\ -1 + 0 = -1
  OBVIOUS
<1>4. x \in Works(W, 1, -1)
  BY <1>1, OperatorWorks
<1> HIDE DEF x
<1>5. <<a>> \in Works(W, 0, 0)
  BY <1>2, <1>3, WorkOne
<1>6. x \o <<a>> \in Works(W, 1, -1)
  <2>1. x \o <<a>> \in Works(W, 1, -1 + 0)
    BY <1>3, <1>4, <1>5, WorkConcat
  <2> QED BY <1>3, <2>1
<1>7. x \in Seq(Body(W))
  BY <1>4 DEF Works
<1>8. x \o <<a>> \in Works(W, PoppedBy(op, oprand), Left(op, oprand))
  BY <1>6, EndEffects
<1>9. \E s : Shape(op, oprand, x \o <<a, j>>, s)
  BY <1>1, <1>2, <1>7, <1>8, JumpShape DEF W
<1> QED BY <1>9 DEF POP_JUMP_IF, x, a

LEMMA JumpBackwardShape ==
  ASSUME NEW oprand \in Nat
  PROVE  \E s : Shape("JUMP_BACKWARD", oprand, JUMP_BACKWARD, s)
<1>1. /\ WriteJmpRel32 \in Jumps /\ WriteJmpRel32.ins = "jmp"
      /\ "JUMP_BACKWARD" \in JumpOpcodes /\ "JUMP_BACKWARD" \notin ReturnOpcodes
  BY DEF WriteJmpRel32, Jumps, JumpOpcodes, ReturnOpcodes
<1>2. <<>> \in Works(Written("JUMP_BACKWARD"), PoppedBy("JUMP_BACKWARD", oprand),
                     Left("JUMP_BACKWARD", oprand))
  BY WorkNone, EndEffects
<1>3. /\ Len(<<>>) = 0 /\ Len(JUMP_BACKWARD) = 0 + 1 /\ JUMP_BACKWARD[0 + 1] = WriteJmpRel32
      /\ 1 .. 0 = {}
  BY DEF JUMP_BACKWARD
<1>4. JUMP_BACKWARD \in Code
  BY JumpTemplates
<1>5. Shape("JUMP_BACKWARD", oprand, JUMP_BACKWARD, <<>>)
  BY <1>1, <1>2, <1>3, <1>4 DEF Shape
<1> QED BY <1>5

\* A return, behind the one instruction that puts the result into rax.
LEMMA ReturnShape ==
  ASSUME NEW op \in ReturnOpcodes, NEW oprand, NEW a \in Body(Written(op)),
         <<a>> \in Works(Written(op), PoppedBy(op, oprand), Left(op, oprand))
  PROVE  \E s : Shape(op, oprand, <<a, WriteLeave, WriteRet>>, s)
<1> DEFINE c == <<a, WriteLeave, WriteRet>>
<1>1. a \in Straight /\ op \notin JumpOpcodes /\ op # "JUMP_BACKWARD"
  BY DEF Body, JumpOpcodes, ReturnOpcodes
<1>2. c \in Code
  BY <1>1, FixedStraight DEF Code, Instructions
<1>3. /\ Len(<<a>>) = 1 /\ Len(c) = 1 + 2 /\ c[1] = <<a>>[1] /\ c[1 + 1] = WriteLeave
      /\ c[1 + 2] = WriteRet /\ \A k \in 1 .. 1 : k = 1
  OBVIOUS
<1> HIDE DEF c
<1>4. Shape(op, oprand, c, <<a>>)
  BY <1>1, <1>2, <1>3 DEF Shape
<1> QED BY <1>4 DEF c

\* The code of every op moves the machine stack as CPython says the op moves the
\* value stack, and takes no word that was there before but those the op pops: on
\* every path through the case, whatever the operand.
THEOREM TemplateShape ==
  ASSUME NEW op, NEW oprand \in Nat, NEW glob,
         Compilable(op, oprand, glob),
         op = "LOAD_GLOBAL" => glob[oprand \div 2] \in Nat
  PROVE  \E s : Shape(op, oprand, Template(op, oprand, glob), s)
<1>1. CASE op \notin JumpOpcodes \cup ReturnOpcodes
  <2>1. Template(op, oprand, glob) \in Code
    BY TemplateType
  <2>2. Template(op, oprand, glob)
           \in Works(Written(op), PoppedBy(op, oprand), Left(op, oprand))
    BY <1>1, StraightWorks
  <2> QED BY <1>1, <2>1, <2>2, StraightShape
<1>2. CASE op = "FOR_ITER"
  BY <1>2, ForIterShape DEF Template
<1>3. CASE op \in {"POP_JUMP_IF_TRUE", "POP_JUMP_IF_FALSE"}
  BY <1>3, PopJumpShape, JumpTemplates DEF Template
<1>4. CASE op = "JUMP_BACKWARD"
  BY <1>4, JumpBackwardShape DEF Template
<1>5. CASE op = "RETURN_VALUE"
  <2>1. <<WritePopRax>> \in Works(Written(op), PoppedBy(op, oprand), Left(op, oprand))
    BY <1>5, OneWorks, EndEffects
  <2>2. WritePopRax \in Body(Written(op))
    BY PopShifts
  <2>3. Template(op, oprand, glob) = <<WritePopRax, WriteLeave, WriteRet>>
    BY <1>5 DEF Template, RETURN_VALUE
  <2> QED BY <1>5, <2>1, <2>2, <2>3, ReturnShape DEF ReturnOpcodes
<1>6. CASE op = "RETURN_CONST"
  <2> DEFINE a == WriteMovRax(ConstObj(oprand))
  <2>1. a \in Body(Written(op)) /\ Shift(a) = 0
    BY ImmShifts, ImmediateWords
  <2>2. Template(op, oprand, glob) = <<a, WriteLeave, WriteRet>>
    BY <1>6 DEF Template, RETURN_CONST
  <2> HIDE DEF a
  <2>3. <<a>> \in Works(Written(op), 0, 0)
    <3>1. 0 \in Nat /\ -0 <= 0
      OBVIOUS
    <3> QED BY <2>1, <3>1, WorkOne
  <2>4. <<a>> \in Works(Written(op), PoppedBy(op, oprand), Left(op, oprand))
    BY <1>6, <2>3, EndEffects
  <2> QED BY <1>6, <2>1, <2>2, <2>4, ReturnShape DEF ReturnOpcodes
<1> QED BY <1>1, <1>2, <1>3, <1>4, <1>5, <1>6 DEF JumpOpcodes, ReturnOpcodes
-----------------------------------------------------------------------------
\* Where the code lies.

\* The parts the code is written in: the prologue, and the code of each op.
Part(i)      == IF i = 0 THEN Prologue ELSE Template(code[i].op, code[i].arg, globals)
PartStart(i) == IF i = 0 THEN 0 ELSE code_addr[i]

\* The first m instructions of c are in the text, one behind the other, from at[1]
\* to at[m + 1].
Placed(at, c, m) ==
  /\ m \in 0 .. Len(c)
  /\ at \in [1 .. m + 1 -> Nat]
  /\ \A k \in 1 .. m : at[k] \in DOMAIN text /\ text[at[k]] = c[k] /\ at[k + 1] = at[k] + InsLen(c[k])
  /\ \A j, k \in 1 .. m + 1 : j < k => at[j] < at[k]

Whole(i, at) ==
  /\ Placed(at, Part(i), Len(Part(i)))
  /\ at[1] = PartStart(i)
  /\ at[Len(Part(i)) + 1] = IF i < Len(code_addr) THEN PartStart(i + 1) ELSE code_ptr

\* The part being written: todo is what is left of it.
Unfinished(i, at, m) ==
  /\ Placed(at, Part(i), m)
  /\ at[1] = PartStart(i)
  /\ at[m + 1] = code_ptr
  /\ Len(todo) = Len(Part(i)) - m
  /\ \A k \in 1 .. Len(todo) : todo[k] = Part(i)[m + k]

\* The inductive invariant of the layout.
LayoutInv ==
  /\ \A i \in DOMAIN code_addr : Compilable(code[i].op, code[i].arg, globals)
  /\ \A i \in 0 .. Len(code_addr) - 1 : \E at : Whole(i, at)
  /\ \E at, m : Unfinished(Len(code_addr), at, m)

LEMMA PrologueCode == Prologue \in Code /\ Len(Prologue) = 3
  BY FixedStraight DEF Prologue, Code, Instructions

\* The code of the ops the compiler has begun.
LEMMA PartCode ==
  ASSUME IInv, LayoutInv, NEW i \in 0 .. Len(code_addr)
  PROVE  /\ Part(i) \in Code
         /\ i # 0 => \E s : Shape(code[i].op, code[i].arg, Part(i), s)
<1>1. CASE i = 0
  BY <1>1, PrologueCode DEF Part
<1>2. CASE i # 0
  <2>1. /\ code \in Programs /\ globals \in Bindings /\ code_addr \in Seq(Nat)
        /\ Len(code_addr) <= n_op
    BY AreaAssumption DEF IInv, CompileTypeOK
  <2>2. n_op \in Nat
    BY <2>1, ProgramsAssumption DEF n_op
  <2>3. i - 1 \in 0 .. n_op - 1 /\ (i - 1) + 1 = i /\ i \in DOMAIN code_addr
    BY <1>2, <2>1, <2>2
  <2>4. i \in DOMAIN code /\ code[i].arg \in 0 .. 255
    <3>1. (i - 1) + 1 \in DOMAIN code /\ Arg(i - 1) \in 0 .. 255
      BY <2>1, <2>3, OpTypes, Zenon
    <3> QED BY <2>3, <3>1 DEF Arg
  <2>5. code[i].op = "LOAD_GLOBAL" => globals[code[i].arg \div 2] \in Nat
    BY <2>1, <2>4, BindingsAssumption
  <2>6. Compilable(code[i].op, code[i].arg, globals) /\ code[i].arg \in Nat
    <3>1. Compilable(code[i].op, code[i].arg, globals)
      BY <2>3, Zenon DEF LayoutInv
    <3>2. \A x \in 0 .. 255 : x \in Nat
      OBVIOUS
    <3> QED BY <2>4, <3>1, <3>2, Zenon
  <2>7. PICK s : Shape(code[i].op, code[i].arg, Template(code[i].op, code[i].arg, globals), s)
    BY <2>5, <2>6, TemplateShape
  <2>8. Part(i) = Template(code[i].op, code[i].arg, globals)
    BY <1>2 DEF Part
  <2> QED BY <2>7, <2>8 DEF Shape
<1> QED BY <1>1, <1>2

\* What is placed stays placed: the code is only added to.
LEMMA PlacedStays ==
  ASSUME NEW at, NEW c \in Code, NEW m, Placed(at, c, m),
         \A a \in DOMAIN text : a \in DOMAIN text' /\ text'[a] = text[a]
  PROVE  Placed(at, c, m)'
  BY DEF Placed

LEMMA LayoutStays ==
  ASSUME LayoutInv, UNCHANGED <<code, globals, code_ptr, text, code_addr, todo>>
  PROVE  /\ LayoutInv'
         /\ \A i, at : Whole(i, at)' <=> Whole(i, at)
<1>1. \A i : Part(i)' = Part(i) /\ PartStart(i)' = PartStart(i)
  BY DEF Part, PartStart
<1>2. \A i, at : Whole(i, at)' <=> Whole(i, at)
  <2> SUFFICES ASSUME NEW i, NEW at
               PROVE  Whole(i, at)' <=> Whole(i, at)
    OBVIOUS
  <2>1. Placed(at, Part(i), Len(Part(i)))' <=> Placed(at, Part(i), Len(Part(i)))
    BY <1>1 DEF Placed
  <2> QED BY <1>1, <2>1 DEF Whole
<1>3. \A i, at, m : Unfinished(i, at, m)' <=> Unfinished(i, at, m)
  <2> SUFFICES ASSUME NEW i, NEW at, NEW m
               PROVE  Unfinished(i, at, m)' <=> Unfinished(i, at, m)
    OBVIOUS
  <2>1. Placed(at, Part(i), m)' <=> Placed(at, Part(i), m)
    BY <1>1 DEF Placed
  <2> QED BY <1>1, <2>1 DEF Unfinished
<1>4. LayoutInv'
  BY <1>2, <1>3, Zenon DEF LayoutInv
<1> QED BY <1>2, <1>4

LEMMA Emit_LayoutInv ==
  ASSUME IInv, LayoutInv, Emit
  PROVE  LayoutInv'
<1> DEFINE end == code_ptr + InsLen(Head(todo))
<1>0. PICK i : i = Len(code_addr)
  OBVIOUS
<1>1. /\ todo # <<>> /\ todo \in Seq(Instructions) /\ todo' = Tail(todo)
      /\ text' = With(text, code_ptr, Head(todo)) /\ code_ptr' = end
      /\ UNCHANGED <<code, globals, code_addr>>
  BY DEF Emit, IInv
<1>2. /\ code_ptr \in Nat /\ code_addr \in Seq(Nat) /\ i \in Nat
      /\ \A a \in DOMAIN text : a \in Nat /\ a < code_ptr
  BY <1>0, AreaAssumption DEF IInv, CompileTypeOK, CompileInv, PointerInv
<1>3. /\ \A a \in DOMAIN text : a \in DOMAIN text' /\ text'[a] = text[a]
      /\ code_ptr \in DOMAIN text' /\ text'[code_ptr] = Head(todo)
  <2>1. \A a \in DOMAIN text : a # code_ptr
    BY <1>2
  <2> HIDE DEF end
  <2> QED BY <1>1, <2>1 DEF With
<1>4. \A j : Part(j)' = Part(j) /\ PartStart(j)' = PartStart(j)
  BY <1>1 DEF Part, PartStart
<1>5. PICK at, m : Unfinished(i, at, m)
  BY <1>0 DEF LayoutInv
<1>6. Part(i) \in Code
  BY <1>0, <1>2, PartCode
<1> DEFINE c == Part(i)
<1>n. PICK next : next = [k \in 1 .. (m + 1) + 1 |-> IF k <= m + 1 THEN at[k] ELSE end]
  OBVIOUS
<1>7. /\ m \in 0 .. Len(c) /\ at \in [1 .. m + 1 -> Nat] /\ at[m + 1] = code_ptr
      /\ at[1] = PartStart(i) /\ Len(todo) = Len(c) - m /\ Len(todo) \in Nat \ {0}
      /\ \A k \in 1 .. Len(todo) : todo[k] = c[m + k]
      /\ \A k \in 1 .. m : at[k] \in DOMAIN text /\ text[at[k]] = c[k]
                           /\ at[k + 1] = at[k] + InsLen(c[k])
      /\ \A j, k \in 1 .. m + 1 : j < k => at[j] < at[k]
      /\ Len(c) \in Nat
  BY <1>1, <1>5, <1>6 DEF Unfinished, Placed, Code
<1>8. /\ Head(todo) = c[m + 1] /\ Len(todo') = Len(todo) - 1
      /\ \A k \in 1 .. Len(todo') : todo'[k] = todo[k + 1]
  <2>1. Head(todo) = todo[1] /\ 1 \in 1 .. Len(todo)
    BY <1>1, <1>7
  <2>2. todo[1] = c[m + 1]
    BY <1>7, <2>1
  <2> QED BY <1>1, <1>7, <2>1, <2>2
<1>9. InsLen(Head(todo)) \in 1 .. 15 /\ end \in Nat /\ end > code_ptr
  <2>1. InsLen(Head(todo)) \in 1 .. 15
    BY InsLenType
  <2> QED BY <1>2, <2>1
<1>10. /\ m \in Nat /\ m + 1 \in 0 .. Len(c)
       /\ next \in [1 .. (m + 1) + 1 -> Nat]
       /\ \A k \in 1 .. m + 1 : next[k] = at[k]
       /\ next[(m + 1) + 1] = end
  <2> HIDE DEF end, c
  <2> QED BY <1>7, <1>9, <1>n
<1>11. ASSUME NEW k \in 1 .. m + 1
       PROVE  /\ next[k] \in DOMAIN text' /\ text'[next[k]] = c[k]
              /\ next[k + 1] = next[k] + InsLen(c[k])
  <2> HIDE DEF c
  <2>1. CASE k = m + 1
    BY <2>1, <1>3, <1>7, <1>8, <1>10
  <2>2. CASE k # m + 1
    <3>1. k \in 1 .. m /\ k + 1 \in 1 .. m + 1
      BY <2>2, <1>10
    <3> HIDE DEF end
    <3> QED BY <3>1, <1>3, <1>7, <1>10
  <2> QED BY <2>1, <2>2
<1>12. ASSUME NEW j \in 1 .. (m + 1) + 1, NEW k \in 1 .. (m + 1) + 1, j < k
       PROVE  next[j] < next[k]
  <2> HIDE DEF end, c
  <2>1. CASE k <= m + 1
    <3>1. j \in 1 .. m + 1 /\ k \in 1 .. m + 1
      BY <2>1, <1>10, <1>12
    <3>2. at[j] < at[k] /\ next[j] = at[j] /\ next[k] = at[k]
      BY <3>1, <1>7, <1>10, <1>12
    <3> QED BY <3>2
  <2>2. CASE k = (m + 1) + 1
    <3>1. j \in 1 .. m + 1 /\ m + 1 \in 1 .. m + 1
      BY <2>2, <1>10, <1>12
    <3>2. at[j] <= at[m + 1] /\ at[j] \in Nat
      <4>1. at[j] \in Nat /\ at[m + 1] \in Nat
        BY <3>1, <1>7
      <4>2. CASE j = m + 1
        BY <4>1, <4>2
      <4>3. CASE j < m + 1
        <5>1. at[j] < at[m + 1]
          BY <3>1, <4>3, <1>7
        <5> QED BY <4>1, <5>1
      <4> QED BY <3>1, <4>2, <4>3, <1>10
    <3> QED BY <2>2, <3>1, <3>2, <1>2, <1>7, <1>9, <1>10
  <2> QED BY <2>1, <2>2, <1>10
<1>13. Unfinished(i, next, m + 1)'
  <2>1. Placed(next, c, m + 1)'
    <3> HIDE DEF c
    <3>1. c' = c
      BY <1>4 DEF c
    <3>2. /\ m + 1 \in 0 .. Len(c') /\ next \in [1 .. (m + 1) + 1 -> Nat]
          /\ \A k \in 1 .. m + 1 : next[k] \in DOMAIN text' /\ text'[next[k]] = c'[k]
                               /\ next[k + 1] = next[k] + InsLen(c'[k])
          /\ \A j, k \in 1 .. (m + 1) + 1 : j < k => next[j] < next[k]
      BY <1>10, <1>11, <1>12, <3>1
    <3> QED BY <3>2 DEF Placed
  <2>2. next[1] = PartStart(i) /\ next[(m + 1) + 1] = code_ptr'
    BY <1>1, <1>7, <1>10
  <2>3. Len(todo') = Len(c) - (m + 1)
    BY <1>7, <1>8, <1>10
  <2>4. \A k \in 1 .. Len(todo') : todo'[k] = c[(m + 1) + k]
    <3> HIDE DEF c
    <3> TAKE k \in 1 .. Len(todo')
    <3>1. k + 1 \in 1 .. Len(todo) /\ m + (k + 1) = (m + 1) + k
      BY <1>7, <1>8, <1>10
    <3> QED BY <3>1, <1>7, <1>8
  <2> QED BY <1>1, <1>4, <2>1, <2>2, <2>3, <2>4 DEF Unfinished
<1>14. ASSUME NEW j \in 0 .. i - 1
       PROVE  (\E a : Whole(j, a))'
  <2>1. PICK a : Whole(j, a)
    BY <1>0 DEF LayoutInv
  <2>2. Part(j) \in Code
    BY <1>0, <1>2, PartCode
  <2>3. Placed(a, Part(j), Len(Part(j)))'
    BY <1>3, <1>4, <2>1, <2>2, PlacedStays DEF Whole
  <2>4. Whole(j, a)'
    BY <1>0, <1>1, <1>2, <1>4, <2>1, <2>3 DEF Whole
  <2> QED BY <2>4
<1> QED BY <1>0, <1>1, <1>13, <1>14 DEF LayoutInv

\* The head of the loop: a new part begins where the last one ends.
LEMMA BeginOp_LayoutInv ==
  ASSUME IInv, LayoutInv, BeginOp
  PROVE  LayoutInv'
<1>0. PICK i : i = Len(code_addr)
  OBVIOUS
<1>1. /\ todo = <<>> /\ UNCHANGED <<code, globals, code_ptr, text>>
      /\ code_addr \in Seq(Nat) /\ i \in Nat /\ code_ptr \in Nat
  BY <1>0, AreaAssumption DEF BeginOp, IInv, CompileTypeOK
<1>2. CASE phase' = "aborted"
  <2>1. UNCHANGED <<code_addr, todo>>
    BY <1>2 DEF BeginOp
  <2> QED BY <1>1, <2>1, LayoutStays
<1>3. CASE phase' # "aborted"
  <2>1. /\ code_addr' = Append(code_addr, code_ptr)
        /\ Compilable(Op(op_index + 1), Arg(op_index + 1), globals)
        /\ todo' = Template(Op(op_index + 1), Arg(op_index + 1), globals)
    BY <1>3 DEF BeginOp
  <2>2. (op_index + 1) + 1 = i + 1
    BY <1>0, <1>1 DEF op_index
  <2>3. /\ Compilable(code[i + 1].op, code[i + 1].arg, globals)
        /\ todo' = Template(code[i + 1].op, code[i + 1].arg, globals)
    BY <2>1, <2>2 DEF Op, Arg
  <2>4. /\ Len(code_addr') = i + 1 /\ code_addr'[i + 1] = code_ptr
        /\ \A j \in 1 .. i : code_addr'[j] = code_addr[j] /\ j \in DOMAIN code_addr
        /\ DOMAIN code_addr' = 1 .. i + 1
    BY <1>0, <1>1, <2>1
  <2>5. /\ \A j : Part(j)' = Part(j)
        /\ \A j \in 0 .. i : PartStart(j)' = PartStart(j)
        /\ PartStart(i + 1)' = code_ptr
    BY <1>1, <2>4 DEF Part, PartStart
  <2>6. Part(i + 1) = todo'
    BY <1>1, <2>3 DEF Part
  <2>7. todo' \in Seq(Instructions)
    BY BeginOp_IInv DEF IInv
  <2>8. Unfinished(i + 1, [k \in 1 .. 1 |-> code_ptr], 0)'
    <3> DEFINE at == [k \in 1 .. 1 |-> code_ptr']
    <3>1. /\ 0 \in 0 .. Len(todo') /\ at \in [1 .. 0 + 1 -> Nat] /\ at[1] = code_ptr
          /\ at[0 + 1] = code_ptr' /\ 1 .. 0 = {}
          /\ \A j, k \in 1 .. 0 + 1 : ~(j < k)
          /\ Len(todo') = Len(todo') - 0 /\ \A k \in 1 .. Len(todo') : 0 + k = k
      BY <1>1, <2>7
    <3> HIDE DEF at
    <3>2. Placed([k \in 1 .. 1 |-> code_ptr], Part(i + 1), 0)'
      BY <2>5, <2>6, <3>1 DEF Placed, at
    <3> QED BY <2>5, <2>6, <3>1, <3>2 DEF Unfinished, at
  <2>9. ASSUME NEW j \in 0 .. i
        PROVE  (\E a : Whole(j, a))'
    <3>1. Part(j) \in Code
      BY <1>0, PartCode
    <3>2. CASE j < i
      <4>1. PICK a : Whole(j, a)
        BY <1>0, <1>1, <3>2 DEF LayoutInv
      <4>2. Placed(a, Part(j), Len(Part(j)))'
        BY <1>1, <2>5, <4>1 DEF Whole, Placed
      <4>3. j + 1 \in 0 .. i /\ j < Len(code_addr) /\ j < Len(code_addr')
        BY <1>0, <1>1, <2>4, <3>2
      <4>4. Whole(j, a)'
        BY <2>5, <4>1, <4>2, <4>3 DEF Whole
      <4> QED BY <4>4
    <3>3. CASE j = i
      <4>1. PICK at, m : Unfinished(i, at, m)
        BY <1>0 DEF LayoutInv
      <4>2. m = Len(Part(i))
        BY <1>1, <3>1, <3>3, <4>1 DEF Unfinished, Placed, Code
      <4>3. Placed(at, Part(i), Len(Part(i)))'
        BY <1>1, <2>5, <4>1, <4>2 DEF Unfinished, Placed
      <4>4. i < Len(code_addr') /\ i \in 0 .. i
        BY <1>1, <2>4
      <4>5. Whole(i, at)'
        BY <2>5, <4>1, <4>2, <4>3, <4>4 DEF Whole, Unfinished
      <4> QED BY <3>3, <4>5
    <3> QED BY <1>1, <3>2, <3>3
  <2>10. ASSUME NEW j \in DOMAIN code_addr'
         PROVE  Compilable(code[j].op, code[j].arg, globals)
    <3>1. j \in DOMAIN code_addr \/ j = i + 1
      BY <1>0, <1>1, <2>4
    <3> QED BY <2>3, <3>1, Zenon DEF LayoutInv
  <2>11. (i + 1) - 1 = i
    BY <1>1
  <2>12. LayoutInv'
    BY <1>1, <2>4, <2>8, <2>9, <2>10, <2>11 DEF LayoutInv
  <2> QED BY <2>12
<1> QED BY <1>2, <1>3

LEMMA CompileInit_LayoutInv == CompileInit => LayoutInv
<1> SUFFICES ASSUME CompileInit PROVE LayoutInv
  OBVIOUS
<1>1. /\ todo = Prologue /\ code_ptr = 0 /\ text = <<>> /\ code_addr = <<>> /\ Len(code_addr) = 0
      /\ DOMAIN code_addr = {}
  BY DEF CompileInit
<1> DEFINE at == [k \in 1 .. 1 |-> 0]
<1>2. /\ 0 \in 0 .. Len(Prologue) /\ at \in [1 .. 0 + 1 -> Nat] /\ at[1] = 0 /\ at[0 + 1] = 0
      /\ 1 .. 0 = {} /\ \A j, k \in 1 .. 0 + 1 : ~(j < k)
      /\ Len(Prologue) = Len(Prologue) - 0 /\ \A k \in 1 .. Len(Prologue) : 0 + k = k
      /\ 0 .. 0 - 1 = {}
  BY PrologueCode
<1> HIDE DEF at
<1>3. Placed(at, Prologue, 0)
  BY <1>2 DEF Placed
<1>4. Part(0) = Prologue /\ PartStart(0) = 0
  BY DEF Part, PartStart
<1>5. Unfinished(0, at, 0)
  BY <1>1, <1>2, <1>3, <1>4 DEF Unfinished
<1> QED BY <1>1, <1>2, <1>5 DEF LayoutInv

LEMMA CompileNext_LayoutInv ==
  ASSUME IInv, LayoutInv, [CompileNext]_compileVars
  PROVE  LayoutInv'
<1>1. CASE Emit
  BY <1>1, Emit_LayoutInv
<1>2. CASE BeginOp
  BY <1>2, BeginOp_LayoutInv
<1>3. CASE Overrun \/ EndOps \/ Patch \/ EndReloc \/ UNCHANGED compileVars
  <2>1. UNCHANGED <<code, globals, code_ptr, text, code_addr, todo>>
    BY <1>3 DEF Overrun, EndOps, Patch, EndReloc, compileVars
  <2> QED BY <2>1, LayoutStays
<1> QED BY <1>1, <1>2, <1>3 DEF CompileNext

LEMMA ReadyWhole ==
  ASSUME IInv, CodeTiled, LayoutInv, phase = "ready", NEW i \in 0 .. n_op
  PROVE  \E at : Whole(i, at)
<1>1. /\ todo = <<>> /\ Len(todo) = 0 /\ code_addr \in Seq(Nat) /\ Len(code_addr) = n_op
      /\ n_op \in Nat
  BY AreaAssumption DEF CodeTiled, IInv, CompileTypeOK, CompileInv, PhaseInv
<1>2. CASE i < n_op
  BY <1>1, <1>2 DEF LayoutInv
<1>3. CASE i = n_op
  <2>1. PICK at, m : Unfinished(i, at, m)
    BY <1>1, <1>3 DEF LayoutInv
  <2>2. Part(i) \in Code
    BY <1>1, <1>3, PartCode
  <2>3. m = Len(Part(i))
    BY <1>1, <2>1, <2>2 DEF Unfinished, Placed, Code
  <2>4. Whole(i, at)
    BY <1>1, <1>3, <2>1, <2>3 DEF Unfinished, Whole
  <2> QED BY <2>4
<1> QED BY <1>1, <1>2, <1>3

\* When the code is about to be called every op has its code in it, whole: what
\* its case wrote, where code_addr says it starts, up to where the next op starts.
CodeComplete ==
  phase = "ready" => \A i \in 0 .. n_op : \E at : Whole(i, at)

\* Whatever is compiled, each op's code lies in the area whole and in order,
\* behind the prologue and between its own address and the next op's.
THEOREM CodeLaidOut == CompileSpec => []CodeComplete
<1> DEFINE Inv == IInv /\ CodeTiled /\ LayoutInv
<1>1. Inv => CodeComplete
  <2> SUFFICES ASSUME IInv, CodeTiled, LayoutInv, phase = "ready", NEW i \in 0 .. n_op
               PROVE  \E at : Whole(i, at)
    BY DEF CodeComplete
  <2> QED BY ReadyWhole
<1>2. CompileInit => Inv
  <2> SUFFICES ASSUME CompileInit PROVE Inv
    OBVIOUS
  <2>1. /\ text = <<>> /\ code_ptr = 0 /\ code_addr = <<>> /\ phase = "prologue"
        /\ todo = Prologue /\ DOMAIN <<>> = {}
    BY DEF CompileInit
  <2>2. CodeTiled
    BY <2>1 DEF CodeTiled
  <2> QED BY <2>2, CompileInit_IInv, CompileInit_LayoutInv
<1>3. Inv /\ [CompileNext]_compileVars => Inv'
  <2> SUFFICES ASSUME Inv, [CompileNext]_compileVars PROVE Inv'
    OBVIOUS
  <2>1. IInv'
    BY Emit_IInv, BeginOp_IInv, Patch_IInv, PhaseStep_IInv DEF CompileNext
  <2> QED BY <2>1, CompileNext_CodeTiled, CompileNext_LayoutInv
<1> HIDE DEF Inv
<1> QED BY <1>1, <1>2, <1>3, PTL DEF CompileSpec
=============================================================================
