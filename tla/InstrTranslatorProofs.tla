----------------------- MODULE InstrTranslatorProofs -----------------------
(***************************************************************************)
(* The code every IR instruction becomes is right, wherever the register   *)
(* allocator puts the operands: TranslatedRight for every number of        *)
(* registers and every set of instructions. First what it means that code  *)
(* runs, then what each instruction of the processor does, what code does  *)
(* around a temporary, and one lemma for each translator; at the end the   *)
(* inductive invariant, that the code left takes the machine to a state    *)
(* that is right.                                                          *)
(***************************************************************************)
EXTENDS InstrTranslator, FiniteSetTheorems, SequenceTheorems, WellFoundedInduction, TLAPS

-----------------------------------------------------------------------------
(* Running a piece of code.                                                 *)

(* The processor can execute the instruction.                               *)
Ok(i) == Constructible(i) /\ i.op # "undefined"
IsCode(c) == \E S : c \in Seq(S)

(* The code takes the machine from x to y, through the states of a trace.   *)
Runs(c, x, y) ==
  /\ IsCode(c)
  /\ \E tr : /\ tr[0] = x /\ tr[Len(c)] = y
             /\ \A i \in 0 .. (Len(c) - 1) : Ok(c[i + 1]) /\ tr[i + 1] = After(tr[i], c[i + 1])

(* No code runs from a state to that state only.                            *)
LEMMA NoCode ==
  ASSUME NEW x, NEW y
  PROVE  Runs(<<>>, x, y) <=> x = y
<1>1. <<>> \in Seq({}) /\ Len(<<>>) = 0
  OBVIOUS
<1>2. ASSUME x = y PROVE Runs(<<>>, x, y)
  <2> DEFINE tr == [i \in {0} |-> x]
  <2>1. tr[0] = x
    OBVIOUS
  <2>2. tr[Len(<<>>)] = y
    BY <1>1, <1>2
  <2>3. \A i \in 0 .. (Len(<<>>) - 1) : FALSE
    BY <1>1
  <2> HIDE DEF tr
  <2> QED
    BY <1>1, <2>1, <2>2, <2>3, Zenon DEF Runs, IsCode
<1>3. ASSUME Runs(<<>>, x, y) PROVE x = y
  BY <1>1, <1>3 DEF Runs
<1> QED
  BY <1>2, <1>3

(* A single instruction that can be built takes the machine one step.       *)
LEMMA OneStep ==
  ASSUME NEW i, Ok(i), NEW x
  PROVE  Runs(<<i>>, x, After(x, i))
<1> DEFINE tr == [n \in 0 .. 1 |-> IF n = 0 THEN x ELSE After(x, i)]
<1>1. <<i>> \in Seq({i}) /\ Len(<<i>>) = 1 /\ <<i>>[1] = i
  OBVIOUS
<1>2. tr[0] = x /\ tr[1] = After(x, i)
  OBVIOUS
<1> HIDE DEF tr
<1>3. \A n \in 0 .. (Len(<<i>>) - 1) : Ok(<<i>>[n + 1]) /\ tr[n + 1] = After(tr[n], <<i>>[n + 1])
  <2> SUFFICES ASSUME NEW n \in 0 .. (Len(<<i>>) - 1)
               PROVE  Ok(<<i>>[n + 1]) /\ tr[n + 1] = After(tr[n], <<i>>[n + 1])
    OBVIOUS
  <2>1. n = 0 /\ n + 1 = 1
    BY <1>1
  <2> QED
    BY <1>1, <1>2, <2>1
<1>4. tr[Len(<<i>>)] = After(x, i)
  BY <1>1, <1>2
<1> QED
  BY <1>1, <1>2, <1>3, <1>4, Zenon DEF Runs, IsCode

(* Code that follows other code runs from where that one ends.              *)
LEMMA ThenRuns ==
  ASSUME NEW c, NEW d, NEW x, NEW y, NEW z, Runs(c, x, y), Runs(d, y, z)
  PROVE  Runs(c \o d, x, z)
<1>1. PICK S : c \in Seq(S)
  BY DEF Runs, IsCode
<1>2. PICK T : d \in Seq(T)
  BY DEF Runs, IsCode
<1>3. PICK f : /\ f[0] = x /\ f[Len(c)] = y
              /\ \A i \in 0 .. (Len(c) - 1) : Ok(c[i + 1]) /\ f[i + 1] = After(f[i], c[i + 1])
  BY DEF Runs
<1>4. PICK g : /\ g[0] = y /\ g[Len(d)] = z
              /\ \A i \in 0 .. (Len(d) - 1) : Ok(d[i + 1]) /\ g[i + 1] = After(g[i], d[i + 1])
  BY DEF Runs
<1> DEFINE e == c \o d
           tr == [i \in 0 .. (Len(c) + Len(d)) |-> IF i <= Len(c) THEN f[i] ELSE g[i - Len(c)]]
<1>5. c \in Seq(S \cup T) /\ d \in Seq(S \cup T) /\ Len(c) \in Nat /\ Len(d) \in Nat
  BY <1>1, <1>2
<1>6. /\ e \in Seq(S \cup T) /\ Len(e) = Len(c) + Len(d)
      /\ \A i \in 1 .. Len(c) : e[i] = c[i]
      /\ \A i \in 1 .. Len(d) : e[Len(c) + i] = d[i]
  BY <1>5
<1> HIDE DEF e
<1>7. ASSUME NEW i \in 0 .. Len(d) PROVE tr[Len(c) + i] = g[i]
  <2>1. Len(c) + i \in 0 .. (Len(c) + Len(d)) /\ (Len(c) + i) - Len(c) = i
    BY <1>5
  <2>2. CASE i = 0
    BY <1>3, <1>4, <1>5, <2>1, <2>2
  <2>3. CASE i # 0
    BY <1>5, <2>1, <2>3
  <2> QED
    BY <2>2, <2>3
<1>8. \A i \in 0 .. Len(c) : tr[i] = f[i]
  BY <1>5
<1> HIDE DEF tr
<1>9. ASSUME NEW i \in 0 .. (Len(e) - 1)
      PROVE  Ok(e[i + 1]) /\ tr[i + 1] = After(tr[i], e[i + 1])
  <2>1. CASE i < Len(c)
    <3>1. i \in 0 .. (Len(c) - 1) /\ i + 1 \in 1 .. Len(c) /\ i \in 0 .. Len(c) /\ i + 1 \in 0 .. Len(c)
      BY <1>5, <1>6, <2>1
    <3>2. e[i + 1] = c[i + 1] /\ tr[i + 1] = f[i + 1] /\ tr[i] = f[i]
      BY <1>6, <1>8, <3>1
    <3> QED
      BY <1>3, <3>1, <3>2
  <2>2. CASE i >= Len(c)
    <3> DEFINE j == i - Len(c)
    <3>1. /\ j \in 0 .. (Len(d) - 1) /\ j + 1 \in 1 .. Len(d) /\ j \in 0 .. Len(d) /\ j + 1 \in 0 .. Len(d)
          /\ i = Len(c) + j /\ i + 1 = Len(c) + (j + 1)
      BY <1>5, <1>6, <2>2
    <3> HIDE DEF j
    <3>2. e[i + 1] = d[j + 1] /\ tr[i + 1] = g[j + 1] /\ tr[i] = g[j]
      BY <1>6, <1>7, <3>1
    <3> QED
      BY <1>4, <3>1, <3>2
  <2> QED
    BY <1>5, <2>1, <2>2
<1>10. tr[0] = x /\ tr[Len(e)] = z
  BY <1>3, <1>4, <1>5, <1>6, <1>7, <1>8
<1>11. Runs(e, x, z)
  BY <1>6, <1>9, <1>10, Zenon DEF Runs, IsCode
<1> QED
  BY <1>11 DEF e

(* What is left of a run after its first step.                              *)
LEMMA RestRuns ==
  ASSUME NEW c, NEW x, NEW y, Runs(c, x, y), c # <<>>
  PROVE  Ok(Head(c)) /\ Runs(Tail(c), After(x, Head(c)), y)
<1>1. PICK S : c \in Seq(S)
  BY DEF Runs, IsCode
<1>2. PICK f : /\ f[0] = x /\ f[Len(c)] = y
              /\ \A i \in 0 .. (Len(c) - 1) : Ok(c[i + 1]) /\ f[i + 1] = After(f[i], c[i + 1])
  BY DEF Runs
<1> DEFINE d == Tail(c)
           tr == [i \in 0 .. (Len(c) - 1) |-> f[i + 1]]
<1>3. /\ Len(c) \in Nat /\ Len(c) >= 1 /\ Head(c) = c[1] /\ d \in Seq(S) /\ Len(d) = Len(c) - 1
      /\ \A i \in 1 .. Len(d) : d[i] = c[i + 1]
  BY <1>1
<1> HIDE DEF d
<1>4. 0 \in 0 .. (Len(c) - 1) /\ 0 + 1 = 1
  BY <1>3
<1>5. Ok(Head(c)) /\ f[1] = After(x, Head(c))
  BY <1>2, <1>3, <1>4
<1>6. \A i \in 0 .. Len(d) : tr[i] = f[i + 1]
  BY <1>3
<1> HIDE DEF tr
<1>7. ASSUME NEW i \in 0 .. (Len(d) - 1)
      PROVE  Ok(d[i + 1]) /\ tr[i + 1] = After(tr[i], d[i + 1])
  <2>1. i + 1 \in 0 .. (Len(c) - 1) /\ i + 1 \in 1 .. Len(d) /\ i + 1 \in 0 .. Len(d) /\ i \in 0 .. Len(d)
    BY <1>3
  <2>2. d[i + 1] = c[(i + 1) + 1] /\ tr[i + 1] = f[(i + 1) + 1] /\ tr[i] = f[i + 1]
    BY <1>3, <1>6, <2>1
  <2> QED
    BY <1>2, <2>1, <2>2
<1>8. tr[0] = After(x, Head(c)) /\ tr[Len(d)] = y
  <2>1. 0 \in 0 .. Len(d) /\ Len(d) \in 0 .. Len(d) /\ Len(d) + 1 = Len(c)
    BY <1>3
  <2> QED
    BY <1>2, <1>4, <1>5, <1>6, <2>1
<1>9. Runs(d, After(x, Head(c)), y)
  BY <1>3, <1>7, <1>8, Zenon DEF Runs, IsCode
<1> QED
  BY <1>5, <1>9 DEF d

-----------------------------------------------------------------------------
(* Words and operands.                                                      *)

(* Sizes of values, places of values, and what may be in them.              *)
Sizes == {64, 32, 8}
Places == 0 .. NumColors
Locs == [Places -> Nat]
Heaps == [0 .. 15 -> Nat]

(* The low bits of an integer, and that they are a value of the size.       *)
LEMMA LowIs ==
  ASSUME NEW v \in Int, NEW sz \in Sizes
  PROVE  /\ Low(v, sz) = IF sz = 64 THEN v % 16 ELSE v % 4
         /\ Low(v, sz) \in Words(sz) /\ Low(v, sz) \in Nat
<1>1. CASE sz = 64
  <2>1. Bits(sz) = 4 /\ 2^4 = 16
    BY <1>1 DEF Bits
  <2>2. 2^Bits(sz) = 16
    BY <2>1
  <2> QED
    BY <1>1, <2>2 DEF Low, Words
<1>2. CASE sz # 64
  <2>1. Bits(sz) = 2 /\ 2^2 = 4
    BY <1>2 DEF Bits
  <2>2. 2^Bits(sz) = 4
    BY <2>1
  <2> QED
    BY <1>2, <2>2 DEF Low, Words
<1> QED
  BY <1>1, <1>2

(* The values of each size.                                                 *)
LEMMA WordsAre ==
  ASSUME NEW sz \in Sizes
  PROVE  Words(sz) = IF sz = 64 THEN 0 .. 15 ELSE 0 .. 3
<1>1. CASE sz = 64
  <2>1. Bits(sz) = 4 /\ 2^4 = 16
    BY <1>1 DEF Bits
  <2>2. 2^Bits(sz) = 16
    BY <2>1
  <2> QED
    BY <1>1, <2>2 DEF Words
<1>2. CASE sz # 64
  <2>1. Bits(sz) = 2 /\ 2^2 = 4
    BY <1>2 DEF Bits
  <2>2. 2^Bits(sz) = 4
    BY <2>1
  <2> QED
    BY <1>2, <2>2 DEF Words
<1> QED
  BY <1>1, <1>2

(* What the low bits of an integer stand for when they have a sign.         *)
LEMMA SignedIs ==
  ASSUME NEW v \in Int, NEW sz \in Sizes
  PROVE  /\ Signed(v, sz) = IF sz = 64 THEN IF v % 16 >= 8 THEN (v % 16) - 16 ELSE v % 16
                            ELSE IF v % 4 >= 2 THEN (v % 4) - 4 ELSE v % 4
         /\ Signed(v, sz) \in Int
<1>1. CASE sz = 64
  <2>1. Bits(sz) = 4 /\ 2^4 = 16 /\ 4 - 1 = 3 /\ 2^3 = 8
    BY <1>1 DEF Bits
  <2>2. Low(v, sz) = v % 16
    BY <1>1, LowIs
  <2>3. 2^Bits(sz) = 16 /\ 2^(Bits(sz) - 1) = 8
    BY <2>1
  <2> QED
    BY <1>1, <2>2, <2>3 DEF Signed
<1>2. CASE sz # 64
  <2>1. Bits(sz) = 2 /\ 2^2 = 4 /\ 2 - 1 = 1 /\ 2^1 = 2
    BY <1>2 DEF Bits
  <2>2. Low(v, sz) = v % 4
    BY <1>2, LowIs
  <2>3. 2^Bits(sz) = 4 /\ 2^(Bits(sz) - 1) = 2
    BY <2>1
  <2> QED
    BY <1>2, <2>2, <2>3 DEF Signed
<1> QED
  BY <1>1, <1>2

(* A value of a size is its own low bits.                                   *)
LEMMA LowOfWord ==
  ASSUME NEW sz \in Sizes, NEW v \in Words(sz)
  PROVE  Low(v, sz) = v /\ v \in Nat
BY LowIs, WordsAre

(* What an operand outside the heap holds.                                  *)
Value(l, o, sz) == IF IsImm(o) THEN Low(Signed(o.at, o.sz), sz) ELSE Low(l[o.at], sz)

(* Operands outside the heap: locations and immediates.                     *)
IsPlain(o) ==
  \/ \E c \in Places, sz \in Sizes : o = Loc(c, sz)
  \/ \E sz \in Sizes, v \in 0 .. 15 : o = Imm(v, sz)

(* What an operand holds is a value of the size it is read with.            *)
LEMMA ValueType ==
  ASSUME NEW l \in Locs, NEW o, IsPlain(o), NEW sz \in Sizes
  PROVE  Value(l, o, sz) \in Words(sz) /\ Value(l, o, sz) \in Nat
<1>1. ASSUME NEW c \in Places, NEW z \in Sizes, o = Loc(c, z) PROVE Value(l, o, sz) = Low(l[c], sz) /\ l[c] \in Nat
  BY <1>1 DEF Value, Loc, IsImm, Locs
<1>2. ASSUME NEW z \in Sizes, NEW v \in 0 .. 15, o = Imm(v, z) PROVE Value(l, o, sz) = Low(Signed(v, z), sz) /\ Signed(v, z) \in Int
  BY <1>2, SignedIs DEF Value, Imm, IsImm
<1> QED
  BY <1>1, <1>2, LowIs DEF IsPlain

-----------------------------------------------------------------------------
(* Single steps of the machine, while it jumps and calls nowhere.           *)

(* The machine with these locations, heap, flags and stack.                 *)
Core(l, h, f, s) ==
  [loc |-> l, heap |-> h, stack |-> s, flags |-> f, jump |-> "no", called |-> <<>>]

(* Reading an operand outside the heap gives what it holds.                 *)
LEMMA ReadPlain ==
  ASSUME NEW x, NEW o, IsPlain(o), NEW sz
  PROVE  Read(x, o, sz) = Value(x.loc, o, sz)
BY DEF IsPlain, Read, Value, Loc, Imm, IsImm

(* Writing a location changes nothing else.                                 *)
LEMMA WriteLoc ==
  ASSUME NEW l \in Locs, NEW h, NEW f, NEW s, NEW c \in Places, NEW sz, NEW v
  PROVE  Write(Core(l, h, f, s), Loc(c, sz), v) = Core([l EXCEPT ![c] = Low(v, sz)], h, f, s)
BY DEF Write, Core, Loc

(* A move sets its destination.                                             *)
LEMMA AfterMov ==
  ASSUME NEW l \in Locs, NEW h, NEW f, NEW s, NEW c \in Places, NEW sz \in Sizes, NEW o, IsPlain(o)
  PROVE  After(Core(l, h, f, s), Mov(Loc(c, sz), o)) = Core([l EXCEPT ![c] = Value(l, o, sz)], h, f, s)
<1>1. After(Core(l, h, f, s), Mov(Loc(c, sz), o)) = Write(Core(l, h, f, s), Loc(c, sz), Read(Core(l, h, f, s), o, sz))
  BY DEF After, Mov, I, Loc
<1>2. Core(l, h, f, s).loc = l
  BY DEF Core
<1>3. Low(Value(l, o, sz), sz) = Value(l, o, sz)
  BY ValueType, LowOfWord
<1> QED
  BY <1>1, <1>2, <1>3, ReadPlain, WriteLoc

(* Instructions that compute their destination from it and their source.    *)
ALOps == {"and", "or", "xor", "add", "sub", "imul"}

(* An arithmetic or logic instruction sets its destination to the result.   *)
LEMMA AfterAL ==
  ASSUME NEW op \in ALOps, NEW l \in Locs, NEW h, NEW f, NEW s, NEW c \in Places, NEW sz \in Sizes, NEW o, IsPlain(o)
  PROVE  After(Core(l, h, f, s), I(op, Loc(c, sz), o))
           = Core([l EXCEPT ![c] = Low(Compute(op, Value(l, Loc(c, sz), sz), Value(l, o, sz)), sz)], h, f, s)
<1>1. After(Core(l, h, f, s), I(op, Loc(c, sz), o))
        = Write(Core(l, h, f, s), Loc(c, sz), Compute(op, Read(Core(l, h, f, s), Loc(c, sz), sz), Read(Core(l, h, f, s), o, sz)))
  BY DEF After, I, Loc, ALOps
<1>2. Core(l, h, f, s).loc = l
  BY DEF Core
<1>3. IsPlain(Loc(c, sz))
  BY DEF IsPlain
<1> QED
  BY <1>1, <1>2, <1>3, ReadPlain, WriteLoc

(* A push appends to the stack what the register holds.                     *)
LEMMA AfterPush ==
  ASSUME NEW l \in Locs, NEW h, NEW f, NEW s \in Seq(Nat), NEW c \in Places
  PROVE  /\ Ok(Push(c)) /\ After(Core(l, h, f, s), Push(c)) = Core(l, h, f, Append(s, l[c]))
         /\ Append(s, l[c]) \in Seq(Nat)
<1>1. l[c] \in Nat
  BY DEF Locs
<1>2. Append(s, l[c]) \in Seq(Nat)
  BY <1>1
<1>3. Ok(Push(c))
  BY DEF Ok, Constructible, Push, I
<1>4. After(Core(l, h, f, s), Push(c)) = AfterStackOp(Core(l, h, f, s), Push(c))
  BY DEF After, Push, I
<1>5. AfterStackOp(Core(l, h, f, s), Push(c)) = [Core(l, h, f, s) EXCEPT !.stack = Append(s, l[c])]
  BY DEF AfterStackOp, Push, I, Core, Loc
<1>6. [Core(l, h, f, s) EXCEPT !.stack = Append(s, l[c])] = Core(l, h, f, Append(s, l[c]))
  <2>1. \A w : [Core(l, h, f, s) EXCEPT !.stack = w] = Core(l, h, f, w)
    BY DEF Core
  <2> QED
    BY <2>1
<1> QED
  BY <1>2, <1>3, <1>4, <1>5, <1>6

(* A pop takes the last value from the stack.                               *)
LEMMA AfterPop ==
  ASSUME NEW l \in Locs, NEW h, NEW f, NEW s \in Seq(Nat), NEW v \in Nat, NEW c \in Places
  PROVE  Ok(Pop(c)) /\ After(Core(l, h, f, Append(s, v)), Pop(c)) = Core([l EXCEPT ![c] = v], h, f, s)
<1> DEFINE t == Append(s, v)
<1>1. t \in Seq(Nat) /\ Len(t) = Len(s) + 1 /\ t[Len(t)] = v
  OBVIOUS
<1>2. Front(t) = s
  BY DEF Front
<1> HIDE DEF t
<1>3. After(Core(l, h, f, t), Pop(c)) = Core([l EXCEPT ![c] = t[Len(t)]], h, f, Front(t))
  BY DEF Pop, I, After, AfterStackOp, Core, Loc
<1>4. Ok(Pop(c))
  BY DEF Ok, Constructible, Pop, I
<1>5. After(Core(l, h, f, t), Pop(c)) = Core([l EXCEPT ![c] = v], h, f, s)
  BY <1>1, <1>2, <1>3
<1> QED
  BY <1>4, <1>5 DEF t

-----------------------------------------------------------------------------
(* What code does to the locations, the heap and the flags, whatever is on  *)
(* the stack.                                                               *)

(* The code takes locations, heap and flags to these, the stack to itself.  *)
Gives(c, l, h, f, l2, h2, f2) ==
  l2 \in Locs /\ \A s \in Seq(Nat) : Runs(c, Core(l, h, f, s), Core(l2, h2, f2, s))

(* No code leaves everything as it is.                                      *)
LEMMA GivesNothing ==
  ASSUME NEW l \in Locs, NEW h, NEW f
  PROVE  Gives(<<>>, l, h, f, l, h, f)
BY NoCode DEF Gives

(* What gives something is code.                                            *)
LEMMA GivesIsCode ==
  ASSUME NEW c, NEW l, NEW h, NEW f, NEW l2, NEW h2, NEW f2, Gives(c, l, h, f, l2, h2, f2)
  PROVE  IsCode(c)
<1>1. <<>> \in Seq(Nat)
  OBVIOUS
<1> QED
  BY <1>1 DEF Gives, Runs

(* The effects of code and of the code that follows it combine.             *)
LEMMA GivesThen ==
  ASSUME NEW c, NEW d, NEW l1, NEW h1, NEW f1, NEW l2, NEW h2, NEW f2, NEW l3, NEW h3, NEW f3,
         Gives(c, l1, h1, f1, l2, h2, f2), Gives(d, l2, h2, f2, l3, h3, f3)
  PROVE  Gives(c \o d, l1, h1, f1, l3, h3, f3)
BY ThenRuns DEF Gives

(* The effect of a move.                                                    *)
LEMMA GivesMov ==
  ASSUME NEW l \in Locs, NEW h, NEW f, NEW c \in Places, NEW sz \in Sizes, NEW o, IsPlain(o),
         Constructible(Mov(Loc(c, sz), o))
  PROVE  /\ Gives(<<Mov(Loc(c, sz), o)>>, l, h, f, [l EXCEPT ![c] = Value(l, o, sz)], h, f)
         /\ [l EXCEPT ![c] = Value(l, o, sz)] \in Locs
<1>1. Ok(Mov(Loc(c, sz), o))
  BY DEF Ok, Mov, I
<1>2. [l EXCEPT ![c] = Value(l, o, sz)] \in Locs
  BY ValueType DEF Locs
<1> QED
  BY <1>1, <1>2, AfterMov, OneStep DEF Gives

(* The operations compute integers.                                         *)
LEMMA ComputeType ==
  ASSUME NEW op \in ALOps \cup {"not", "neg", "mul"}, NEW v \in Nat, NEW w \in Nat
  PROVE  Compute(op, v, w) \in Int
<1>1. \A x \in Nat, i \in 0 .. 3 : (x \div 2^i) % 2 \in {0, 1}
  <2> SUFFICES ASSUME NEW x \in Nat, NEW i \in 0 .. 3 PROVE (x \div 2^i) % 2 \in {0, 1}
    OBVIOUS
  <2>1. 2^0 = 1 /\ 2^1 = 2 /\ 2^2 = 4 /\ 2^3 = 8
    OBVIOUS
  <2>2. i = 0 \/ i = 1 \/ i = 2 \/ i = 3
    OBVIOUS
  <2>3. 2^i \in {1, 2, 4, 8}
    BY <2>1, <2>2
  <2>4. x \div 2^i \in Int
    BY <2>3
  <2> QED
    BY <2>4
<1>2. ASSUME op \in {"and", "or", "xor"} PROVE BitwiseOf(op, v, w) \in Int
  <2>1. \A i \in 0 .. 3 : /\ (v \div 2^i) % 2 = 0 \/ (v \div 2^i) % 2 = 1
                          /\ (w \div 2^i) % 2 = 0 \/ (w \div 2^i) % 2 = 1
    BY <1>1
  <2> DEFINE Bit(x, i) == (x \div 2^i) % 2
             Of(x, y) == CASE op = "and" -> x * y
                          [] op = "or" -> IF x + y > 0 THEN 1 ELSE 0
                          [] op = "xor" -> (x + y) % 2
  <2>2. \A x, y \in {0, 1} : Of(x, y) \in Int
    <3>1. \A x, y \in {0, 1} : x * y \in Int /\ (x + y) % 2 \in Int
      OBVIOUS
    <3> QED
      BY <1>2, <3>1
  <2>3. \A i \in 0 .. 3 : Bit(v, i) \in {0, 1} /\ Bit(w, i) \in {0, 1}
    BY <2>1
  <2>4. BitwiseOf(op, v, w) = Of(Bit(v, 0), Bit(w, 0)) + 2 * Of(Bit(v, 1), Bit(w, 1))
                              + 4 * Of(Bit(v, 2), Bit(w, 2)) + 8 * Of(Bit(v, 3), Bit(w, 3))
    BY DEF BitwiseOf
  <2> HIDE DEF Bit, Of
  <2>5. \A i \in 0 .. 3 : Of(Bit(v, i), Bit(w, i)) \in Int
    BY <2>2, <2>3
  <2> QED
    BY <2>4, <2>5
<1>3. CASE op \in {"add", "sub", "imul", "mul", "not", "neg"}
  BY <1>3 DEF Compute
<1>4. CASE op \in {"and", "or", "xor"}
  BY <1>2, <1>4 DEF Compute
<1> QED
  BY <1>3, <1>4 DEF ALOps

(* The effect of an arithmetic or logic instruction.                        *)
LEMMA GivesAL ==
  ASSUME NEW op \in ALOps, NEW l \in Locs, NEW h, NEW f, NEW c \in Places, NEW sz \in Sizes, NEW o, IsPlain(o),
         Constructible(I(op, Loc(c, sz), o))
  PROVE  LET l2 == [l EXCEPT ![c] = Low(Compute(op, Value(l, Loc(c, sz), sz), Value(l, o, sz)), sz)]
         IN Gives(<<I(op, Loc(c, sz), o)>>, l, h, f, l2, h, f) /\ l2 \in Locs
<1> DEFINE v == Low(Compute(op, Value(l, Loc(c, sz), sz), Value(l, o, sz)), sz)
<1>1. Ok(I(op, Loc(c, sz), o))
  BY DEF Ok, I, ALOps
<1>2. IsPlain(Loc(c, sz))
  BY DEF IsPlain
<1>3. v \in Nat
  BY <1>2, ValueType, ComputeType, LowIs
<1>4. \A s : After(Core(l, h, f, s), I(op, Loc(c, sz), o)) = Core([l EXCEPT ![c] = v], h, f, s)
  BY AfterAL
<1> HIDE DEF v
<1>5. [l EXCEPT ![c] = v] \in Locs
  BY <1>3 DEF Locs
<1>6. \A s \in Seq(Nat) : Runs(<<I(op, Loc(c, sz), o)>>, Core(l, h, f, s), Core([l EXCEPT ![c] = v], h, f, s))
  BY <1>1, <1>4, OneStep
<1>7. Gives(<<I(op, Loc(c, sz), o)>>, l, h, f, [l EXCEPT ![c] = v], h, f) /\ [l EXCEPT ![c] = v] \in Locs
  BY <1>5, <1>6 DEF Gives
<1> QED
  BY <1>7 DEF v

(* Code between saving and restoring a temporary register that an operand   *)
(* is moved to.                                                             *)
LEMMA GivesTmp ==
  ASSUME NEW l \in Locs, NEW h, NEW f, NEW l2, NEW h2, NEW f2, NEW l3,
         NEW c \in Places, NEW saved \in BOOLEAN, NEW b,
         Gives(b, l, h, f, l2, h2, f2),
         l3 = IF saved THEN [l2 EXCEPT ![c] = l[c]] ELSE l2,
         NEW t, t = [c |-> c, saved |-> saved]
  PROVE  Gives(Save(t) \o b \o Restore(t), l, h, f, l3, h2, f2) /\ l3 \in Locs
<1>1. CASE saved
  <2>1. Save(t) = <<Push(c)>> /\ Restore(t) = <<Pop(c)>>
    BY <1>1 DEF Save, Restore
  <2>2. l3 \in Locs /\ l[c] \in Nat /\ l2 \in Locs
    BY <1>1 DEF Gives, Locs
  <2>3. ASSUME NEW s \in Seq(Nat)
        PROVE  Runs(<<Push(c)>> \o b \o <<Pop(c)>>, Core(l, h, f, s), Core(l3, h2, f2, s))
    <3>1. Runs(<<Push(c)>>, Core(l, h, f, s), Core(l, h, f, Append(s, l[c])))
      BY AfterPush, OneStep
    <3>2. Runs(b, Core(l, h, f, Append(s, l[c])), Core(l2, h2, f2, Append(s, l[c])))
      BY AfterPush DEF Gives
    <3>3. Runs(<<Pop(c)>>, Core(l2, h2, f2, Append(s, l[c])), Core(l3, h2, f2, s))
      <4>1. l3 = [l2 EXCEPT ![c] = l[c]]
        BY <1>1
      <4>2. /\ Ok(Pop(c))
            /\ After(Core(l2, h2, f2, Append(s, l[c])), Pop(c)) = Core(l3, h2, f2, s)
        <5>1. /\ Ok(Pop(c))
              /\ After(Core(l2, h2, f2, Append(s, l[c])), Pop(c)) = Core([l2 EXCEPT ![c] = l[c]], h2, f2, s)
          BY <2>2, AfterPop
        <5> QED
          BY <4>1, <5>1, Zenon
      <4> QED
        BY <4>2, OneStep
    <3> QED
      BY <3>1, <3>2, <3>3, ThenRuns
  <2> QED
    BY <2>1, <2>2, <2>3 DEF Gives
<1>2. CASE ~saved
  <2>1. Save(t) = <<>> /\ Restore(t) = <<>>
    BY <1>2 DEF Save, Restore
  <2>2. Gives(<<>>, l, h, f, l, h, f) /\ l2 \in Locs /\ l3 = l2
    BY <1>2, GivesNothing DEF Gives
  <2>3. Gives(<<>>, l2, h2, f2, l2, h2, f2)
    BY <2>2, GivesNothing
  <2>4. Gives(<<>> \o b \o <<>>, l, h, f, l2, h2, f2)
    BY <2>2, <2>3, GivesThen
  <2> QED
    BY <2>1, <2>2, <2>4
<1> QED
  BY <1>1, <1>2

(* The effect of a comparison: the flags are the values compared and their  *)
(* size.                                                                    *)
LEMMA GivesCmp ==
  ASSUME NEW l \in Locs, NEW h, NEW f, NEW d, IsPlain(d), NEW s, IsPlain(s), Constructible(I("cmp", d, s))
  PROVE  Gives(<<I("cmp", d, s)>>, l, h, f, l, h, <<Value(l, d, d.sz), Value(l, s, d.sz), d.sz>>)
<1> DEFINE g == <<Value(l, d, d.sz), Value(l, s, d.sz), d.sz>>
<1>1. Ok(I("cmp", d, s))
  BY DEF Ok, I
<1>2. \A q : After(Core(l, h, f, q), I("cmp", d, s)) = Core(l, h, g, q)
  <2> SUFFICES ASSUME NEW q PROVE After(Core(l, h, f, q), I("cmp", d, s)) = Core(l, h, g, q)
    OBVIOUS
  <2>1. After(Core(l, h, f, q), I("cmp", d, s))
          = [Core(l, h, f, q) EXCEPT !.flags = <<Read(Core(l, h, f, q), d, d.sz), Read(Core(l, h, f, q), s, d.sz), d.sz>>]
    BY DEF After, I
  <2>2. Core(l, h, f, q).loc = l
    BY DEF Core
  <2>3. Read(Core(l, h, f, q), d, d.sz) = Value(l, d, d.sz) /\ Read(Core(l, h, f, q), s, d.sz) = Value(l, s, d.sz)
    BY <2>2, ReadPlain
  <2>4. After(Core(l, h, f, q), I("cmp", d, s)) = [Core(l, h, f, q) EXCEPT !.flags = g]
    BY <2>1, <2>3, Zenon
  <2> HIDE DEF g
  <2> QED
    BY <2>4 DEF Core
<1> HIDE DEF g
<1>3. \A q \in Seq(Nat) : Runs(<<I("cmp", d, s)>>, Core(l, h, f, q), Core(l, h, g, q))
  BY <1>1, <1>2, OneStep
<1>4. Gives(<<I("cmp", d, s)>>, l, h, f, l, h, g)
  BY <1>3 DEF Gives
<1> QED
  BY <1>4 DEF g

(* The effect of setcc after a comparison.                                  *)
LEMMA GivesSetcc ==
  ASSUME NEW l \in Locs, NEW h, NEW v, NEW w, NEW sz, NEW c \in Places, NEW cond
  PROVE  LET b == IF Holds(cond, v, w, sz, ir.signed) THEN 1 ELSE 0
         IN Gives(<<Setcc(cond, Loc(c, 8))>>, l, h, <<v, w, sz>>, [l EXCEPT ![c] = b], h, <<v, w, sz>>)
<1> DEFINE b == IF Holds(cond, v, w, sz, ir.signed) THEN 1 ELSE 0
           f == <<v, w, sz>>
           i == Setcc(cond, Loc(c, 8))
<1>1. Ok(i)
  BY DEF Ok, Setcc, Constructible
<1>2. b \in 0 .. 1
  OBVIOUS
<1>3. Low(b, 8) = b
  BY <1>2, LowIs DEF Sizes
<1>4. i.op = "setcc" /\ i.d = Loc(c, 8) /\ i.cond = cond /\ i.signed = ir.signed
  BY DEF Setcc
<1> HIDE DEF i
<1>5. \A q : After(Core(l, h, f, q), i) = Write(Core(l, h, f, q), Loc(c, 8), b)
  <2> SUFFICES ASSUME NEW q PROVE After(Core(l, h, f, q), i) = Write(Core(l, h, f, q), Loc(c, 8), b)
    OBVIOUS
  <2>1. Core(l, h, f, q).flags[1] = v /\ Core(l, h, f, q).flags[2] = w /\ Core(l, h, f, q).flags[3] = sz
    BY DEF Core
  <2>2. After(Core(l, h, f, q), i)
          = Write(Core(l, h, f, q), i.d,
                  IF Holds(i.cond, Core(l, h, f, q).flags[1], Core(l, h, f, q).flags[2], Core(l, h, f, q).flags[3], i.signed)
                  THEN 1 ELSE 0)
    BY <1>4 DEF After
  <2> QED
    BY <1>4, <2>1, <2>2, Zenon
<1> HIDE DEF b, f
<1>6. [l EXCEPT ![c] = b] \in Locs
  BY <1>2 DEF Locs
<1>7. \A q : After(Core(l, h, f, q), i) = Core([l EXCEPT ![c] = b], h, f, q)
  BY <1>3, <1>5, WriteLoc
<1>8. Gives(<<i>>, l, h, f, [l EXCEPT ![c] = b], h, f)
  BY <1>1, <1>6, <1>7, OneStep DEF Gives
<1> QED
  BY <1>8 DEF b, f, i

(* The effect of a negation or complement.                                  *)
LEMMA GivesUnary ==
  ASSUME NEW op \in {"not", "neg"}, NEW l \in Locs, NEW h, NEW f, NEW c \in Places, NEW sz \in Sizes
  PROVE  LET v == Low(Compute(op, Value(l, Loc(c, sz), sz), 0), sz)
         IN Gives(<<I(op, Loc(c, sz), None)>>, l, h, f, [l EXCEPT ![c] = v], h, f) /\ [l EXCEPT ![c] = v] \in Locs
<1> DEFINE v == Low(Compute(op, Value(l, Loc(c, sz), sz), 0), sz)
           i == I(op, Loc(c, sz), None)
<1>1. Ok(i)
  BY DEF Ok, I, Constructible
<1>2. IsPlain(Loc(c, sz))
  BY DEF IsPlain
<1>3. v \in Nat
  <2>1. Value(l, Loc(c, sz), sz) \in Nat
    BY <1>2, ValueType
  <2>2. Compute(op, Value(l, Loc(c, sz), sz), 0) \in Int
    BY <2>1, ComputeType
  <2> QED
    BY <2>2, LowIs
<1>4. \A q : After(Core(l, h, f, q), i) = Core([l EXCEPT ![c] = v], h, f, q)
  <2> SUFFICES ASSUME NEW q PROVE After(Core(l, h, f, q), i) = Core([l EXCEPT ![c] = v], h, f, q)
    OBVIOUS
  <2>1. After(Core(l, h, f, q), i)
          = Write(Core(l, h, f, q), Loc(c, sz), Compute(op, Read(Core(l, h, f, q), Loc(c, sz), sz), 0))
    BY DEF After, I, Loc
  <2>2. Core(l, h, f, q).loc = l
    BY DEF Core
  <2>3. Read(Core(l, h, f, q), Loc(c, sz), sz) = Value(l, Loc(c, sz), sz)
    BY <1>2, <2>2, ReadPlain
  <2> QED
    BY <2>1, <2>3, WriteLoc
<1> HIDE DEF v, i
<1>5. [l EXCEPT ![c] = v] \in Locs
  BY <1>3 DEF Locs
<1>6. Gives(<<i>>, l, h, f, [l EXCEPT ![c] = v], h, f)
  BY <1>1, <1>4, <1>5, OneStep DEF Gives
<1> QED
  BY <1>5, <1>6 DEF v, i

(* The effect of the multiplication of an operand with an immediate.        *)
LEMMA GivesImul3 ==
  ASSUME NEW l \in Locs, NEW h, NEW f, NEW c \in Places, NEW sz \in Sizes, NEW a, IsPlain(a), NEW o, IsPlain(o),
         sz # 8, a.sz = sz, ~IsWideImm(o)
  PROVE  LET v == Low(Value(l, a, sz) * Value(l, o, sz), sz)
         IN /\ Gives(<<[op |-> "imul3", d |-> Loc(c, sz), s |-> a, imm |-> o]>>, l, h, f, [l EXCEPT ![c] = v], h, f)
            /\ [l EXCEPT ![c] = v] \in Locs
<1> DEFINE v == Low(Value(l, a, sz) * Value(l, o, sz), sz)
           i == [op |-> "imul3", d |-> Loc(c, sz), s |-> a, imm |-> o]
<1>1. Ok(i)
  BY DEF Ok, Loc, Constructible
<1>2. v \in Nat
  BY ValueType, LowIs
<1>3. \A q : After(Core(l, h, f, q), i) = Core([l EXCEPT ![c] = v], h, f, q)
  <2> SUFFICES ASSUME NEW q PROVE After(Core(l, h, f, q), i) = Core([l EXCEPT ![c] = v], h, f, q)
    OBVIOUS
  <2>1. After(Core(l, h, f, q), i)
          = Write(Core(l, h, f, q), Loc(c, sz), Read(Core(l, h, f, q), a, sz) * Read(Core(l, h, f, q), o, sz))
    BY DEF After, Loc
  <2>2. Core(l, h, f, q).loc = l
    BY DEF Core
  <2>3. Read(Core(l, h, f, q), a, sz) = Value(l, a, sz) /\ Read(Core(l, h, f, q), o, sz) = Value(l, o, sz)
    BY <2>2, ReadPlain
  <2> QED
    BY <2>1, <2>3, WriteLoc
<1> HIDE DEF v, i
<1>4. [l EXCEPT ![c] = v] \in Locs
  BY <1>2 DEF Locs
<1>5. Gives(<<i>>, l, h, f, [l EXCEPT ![c] = v], h, f)
  BY <1>1, <1>3, <1>4, OneStep DEF Gives
<1> QED
  BY <1>4, <1>5 DEF v, i

(* Moves from and to the heap, at an address that a register or a           *)
(* displacement gives.                                                      *)
Place(l, o) == IF IsImm(o) THEN Signed(o.at, o.sz) % 16 ELSE l[o.at]

(* The effect of a move from the heap to a register.                        *)
LEMMA GivesLoad ==
  ASSUME NEW l \in Locs, NEW h \in Heaps, NEW f, NEW c \in Places, NEW sz \in Sizes, NEW o,
         Place(l, o) \in 0 .. 15, c < NumRegs
  PROVE  LET v == Low(h[Place(l, o)], sz)
         IN /\ Gives(<<Mov(Loc(c, sz), Heap(o, sz))>>, l, h, f, [l EXCEPT ![c] = v], h, f)
            /\ [l EXCEPT ![c] = v] \in Locs
<1> DEFINE v == Low(h[Place(l, o)], sz)
           i == Mov(Loc(c, sz), Heap(o, sz))
<1>1. Ok(i)
  BY DEF Ok, Mov, I, Loc, Heap, Constructible, SizesMatch, IsMem, IsWideImm, IsImm
<1>2. v \in Nat /\ Low(v, sz) = v
  <2>1. h[Place(l, o)] \in Int
    BY DEF Heaps
  <2>2. v \in Nat /\ v \in Words(sz)
    BY <2>1, LowIs
  <2> QED
    BY <2>2, LowOfWord
<1>3. \A q : After(Core(l, h, f, q), i) = Core([l EXCEPT ![c] = v], h, f, q)
  <2> SUFFICES ASSUME NEW q PROVE After(Core(l, h, f, q), i) = Core([l EXCEPT ![c] = v], h, f, q)
    OBVIOUS
  <2>1. After(Core(l, h, f, q), i) = Write(Core(l, h, f, q), Loc(c, sz), Read(Core(l, h, f, q), Heap(o, sz), sz))
    BY DEF After, Mov, I, Loc
  <2>2. Read(Core(l, h, f, q), Heap(o, sz), sz) = v
    <3>1. Address(Core(l, h, f, q), Heap(o, sz)) = Place(l, o)
      BY DEF Address, Heap, Core, Place
    <3>2. Read(Core(l, h, f, q), Heap(o, sz), sz)
            = Low(Core(l, h, f, q).heap[Address(Core(l, h, f, q), Heap(o, sz))], sz)
      BY DEF Read, Heap, IsImm
    <3>3. Core(l, h, f, q).heap = h
      BY DEF Core
    <3> QED
      BY <3>1, <3>2, <3>3
  <2> QED
    BY <1>2, <2>1, <2>2, WriteLoc
<1> HIDE DEF v, i
<1>4. [l EXCEPT ![c] = v] \in Locs
  BY <1>2 DEF Locs
<1>5. Gives(<<i>>, l, h, f, [l EXCEPT ![c] = v], h, f)
  BY <1>1, <1>3, <1>4, OneStep DEF Gives
<1> QED
  BY <1>4, <1>5 DEF v, i

(* The effect of a move to the heap.                                        *)
LEMMA GivesStore ==
  ASSUME NEW l \in Locs, NEW h \in Heaps, NEW f, NEW sz \in Sizes, NEW a, Place(l, a) \in 0 .. 15,
         NEW o, IsPlain(o), Constructible(Mov(Heap(a, sz), o))
  PROVE  Gives(<<Mov(Heap(a, sz), o)>>, l, h, f, l, [h EXCEPT ![Place(l, a)] = Value(l, o, sz)], f)
<1> DEFINE v == Value(l, o, sz)
           i == Mov(Heap(a, sz), o)
           g == [h EXCEPT ![Place(l, a)] = v]
<1>1. Ok(i)
  BY DEF Ok, Mov, I
<1>2. Low(v, sz) = v
  BY ValueType, LowOfWord
<1>3. \A q : After(Core(l, h, f, q), i) = Core(l, g, f, q)
  <2> SUFFICES ASSUME NEW q PROVE After(Core(l, h, f, q), i) = Core(l, g, f, q)
    OBVIOUS
  <2>1. After(Core(l, h, f, q), i) = Write(Core(l, h, f, q), Heap(a, sz), Read(Core(l, h, f, q), o, sz))
    BY DEF After, Mov, I, Heap
  <2>2. Core(l, h, f, q).loc = l
    BY DEF Core
  <2>3. Read(Core(l, h, f, q), o, sz) = v
    BY <2>2, ReadPlain
  <2>4. Address(Core(l, h, f, q), Heap(a, sz)) = Place(l, a)
    BY DEF Address, Heap, Core, Place
  <2> HIDE DEF v
  <2>5. Write(Core(l, h, f, q), Heap(a, sz), v) = [Core(l, h, f, q) EXCEPT !.heap[Place(l, a)] = v]
    BY <1>2, <2>4 DEF Write, Heap
  <2> QED
    BY <2>1, <2>3, <2>5 DEF Core
<1> HIDE DEF i, g
<1>4. Gives(<<i>>, l, h, f, l, g, f)
  BY <1>1, <1>3, OneStep DEF Gives
<1> QED
  BY <1>4 DEF i, g

-----------------------------------------------------------------------------
(* Temporary registers.                                                     *)

(* The minimum of a set of numbers is one of its elements.                  *)
LEMMA SmallestElement ==
  ASSUME NEW T \in SUBSET Nat, T # {}
  PROVE  Min(T) \in T /\ \A y \in T : Min(T) <= y
<1>1. IsWellFoundedOn(OpToRel(<, Nat), Nat)
  BY NatLessThanWellFounded
<1>2. PICK x \in T : \A y \in T : ~(<<y, x>> \in OpToRel(<, Nat))
  BY <1>1, WFMin, Zenon
<1>3. ASSUME NEW y \in T PROVE x <= y
  <2>1. SUFFICES ASSUME y < x PROVE FALSE
    OBVIOUS
  <2>2. <<y, x>> \in OpToRel(<, Nat)
    BY <2>1 DEF OpToRel
  <2> QED
    BY <1>2, <2>2
<1> QED
  BY <1>3, Zenon DEF Min

(* A temporary is no register that is taken; one that is not saved holds    *)
(* no value that is read or lives on, one that is saved is no result.       *)
LEMMA Temporary ==
  ASSUME NEW r \in BOOLEAN, NEW taken, NEW t \in Prepare(r, taken), RegistersAssumption
  PROVE  /\ t = [c |-> t.c, saved |-> t.saved] /\ t.saved \in BOOLEAN
         /\ t.c \in Regs \ taken
         /\ t.saved => t.c \notin ResultsOf
         /\ ~t.saved => /\ t.c \notin OperandColors
                        /\ t.c \notin ir.through \/ (r /\ t.c \in ResultsOf)
         /\ ~t.saved /\ ~r => t.c \notin ResultsOf
<1> DEFINE regs == (0 .. (NumRegs - 1)) \ taken
           result == IF r THEN (regs \cap ResultsOf) \ OperandColors ELSE {}
           idle == (regs \cap UsedColors) \ LiveColors
           unused == regs \ UsedColors
           live == regs \ InvolvedColors
           Free(S) == {[c |-> c, saved |-> FALSE] : c \in S}
<1>1. t \in IF result # {} THEN Free(result)
            ELSE IF idle # {} THEN Free(idle)
            ELSE IF unused # {} THEN Free({Min(unused)})
            ELSE IF live # {} THEN {[c |-> Min(live), saved |-> TRUE]}
            ELSE {}
  BY DEF Prepare
<1>2. unused \in SUBSET Nat /\ live \in SUBSET Nat
  BY DEF RegistersAssumption
<1>3. /\ result \subseteq (regs \cap ResultsOf) \ OperandColors /\ (~r => result = {})
      /\ idle \subseteq regs \ LiveColors /\ unused \subseteq regs \ LiveColors
      /\ live \subseteq regs \ ResultsOf
  BY DEF UsedColors, InvolvedColors
<1>4. regs = Regs \ taken
  BY DEF Regs
<1> HIDE DEF regs, result, idle, unused, live
<1>5. unused # {} => Min(unused) \in unused
  BY <1>2, SmallestElement
<1>6. live # {} => Min(live) \in live
  BY <1>2, SmallestElement
<1>7. \/ \E c \in result : t = [c |-> c, saved |-> FALSE]
      \/ \E c \in idle \cup unused : t = [c |-> c, saved |-> FALSE]
      \/ \E c \in live : t = [c |-> c, saved |-> TRUE]
  BY <1>1, <1>5, <1>6
<1>8. LiveColors = ir.through \cup OperandColors \cup ResultsOf
  BY DEF LiveColors
<1>9. CASE \E c \in result : t = [c |-> c, saved |-> FALSE]
  <2>1. PICK c \in result : t = [c |-> c, saved |-> FALSE]
    BY <1>9
  <2>2. t.c = c /\ t.saved = FALSE /\ c \in Regs \ taken /\ c \in ResultsOf /\ c \notin OperandColors /\ r
    BY <1>3, <1>4, <2>1
  <2> QED
    BY <2>1, <2>2
<1>10. CASE \E c \in idle \cup unused : t = [c |-> c, saved |-> FALSE]
  <2>1. PICK c \in idle \cup unused : t = [c |-> c, saved |-> FALSE]
    BY <1>10
  <2>2. t.c = c /\ t.saved = FALSE /\ c \in Regs \ taken /\ c \notin LiveColors
    BY <1>3, <1>4, <2>1
  <2> QED
    BY <1>8, <2>1, <2>2
<1>11. CASE \E c \in live : t = [c |-> c, saved |-> TRUE]
  <2>1. PICK c \in live : t = [c |-> c, saved |-> TRUE]
    BY <1>11
  <2>2. t.c = c /\ t.saved = TRUE /\ c \in Regs \ taken /\ c \notin ResultsOf
    BY <1>3, <1>4, <2>1
  <2> QED
    BY <2>1, <2>2
<1> QED
  BY <1>7, <1>9, <1>10, <1>11

(* With three registers, and at most one of them taken and one the result,  *)
(* the search for a temporary finds one.                                    *)
LEMMA SomeTemporary ==
  ASSUME NEW r \in BOOLEAN, NEW taken, NEW a, taken \subseteq {a}, NEW b, ResultsOf \subseteq {b}, RegistersAssumption
  PROVE  Prepare(r, taken) # {}
<1> DEFINE regs == (0 .. (NumRegs - 1)) \ taken
           live == regs \ InvolvedColors
<1>1. live # {}
  <2>1. 0 \in 0 .. (NumRegs - 1) /\ 1 \in 0 .. (NumRegs - 1) /\ 2 \in 0 .. (NumRegs - 1)
    BY DEF RegistersAssumption
  <2> QED
    BY <2>1 DEF InvolvedColors
<1> QED
  BY <1>1 DEF Prepare

(* The operand for a location: a register or a slot of the frame, never an  *)
(* immediate.                                                               *)
LEMMA LocIs ==
  ASSUME NEW c, NEW sz
  PROVE  /\ Loc(c, sz).at = c /\ Loc(c, sz).sz = sz /\ ~IsImm(Loc(c, sz)) /\ ~IsWideImm(Loc(c, sz))
         /\ Loc(c, sz).k # "imm" /\ Loc(c, sz).k # "heap"
         /\ c < NumRegs => IsReg(Loc(c, sz)) /\ ~IsMem(Loc(c, sz)) /\ Loc(c, sz) = [k |-> "reg", at |-> c, sz |-> sz]
         /\ ~(c < NumRegs) => ~IsReg(Loc(c, sz)) /\ IsMem(Loc(c, sz))
BY DEF Loc, IsImm, IsWideImm, IsReg, IsMem

(* Operands outside the heap are locations or immediates.                   *)
LEMMA PlainIs ==
  ASSUME NEW o, IsPlain(o)
  PROVE  /\ o.sz \in Sizes
         /\ \/ o.at \in Places /\ o = Loc(o.at, o.sz) /\ ~IsImm(o)
            \/ o.at \in 0 .. 15 /\ o = Imm(o.at, o.sz) /\ IsImm(o) /\ ~IsMem(o) /\ ~IsReg(o)
<1>1. CASE \E c \in Places, sz \in Sizes : o = Loc(c, sz)
  BY <1>1, LocIs
<1>2. CASE \E sz \in Sizes, v \in 0 .. 15 : o = Imm(v, sz)
  BY <1>2 DEF Imm, IsImm, IsMem, IsReg
<1> QED
  BY <1>1, <1>2 DEF IsPlain

(* Registers and colors are locations; the frame pointer is no register to  *)
(* allocate.                                                                *)
LEMMA RegPlaces ==
  ASSUME RegistersAssumption
  PROVE  Regs \subseteq Places /\ Colors \subseteq Places /\ Regs \subseteq Colors /\ NumColors \in Places /\ NumColors \notin Regs
BY DEF RegistersAssumption, Regs, Places, Colors

(* What the code around an operand in a temporary does, from the locations  *)
(* l it starts with: the code within starts with l1.                        *)
Wraps(t, needed, l, l1, h, f) ==
  \A b, l2, h2, f2 : Gives(b, l1, h, f, l2, h2, f2) =>
    \E l3 : /\ Gives(t.before \o b \o t.after, l, h, f, l3, h2, f2)
            /\ \A c \in ResultsOf : l3[c] = l2[c]
            /\ \A c \in ir.through \ ResultsOf : (needed /\ c = t.o.at) \/ l2[c] = l1[c] => l3[c] = l[c]

(* The registers that the search for a temporary may have to save.          *)
SavedOf(r, taken) == {t.c : t \in {t \in Prepare(r, taken) : t.saved}}

(* The locations l1 hold the operand o of l where t finds it.               *)
Holding(t, needed, o, r, taken, l, l1, h, f) ==
  /\ IsPlain(t.o) /\ t.o.sz = o.sz
  /\ Value(l1, t.o, o.sz) = Value(l, o, o.sz)
  /\ needed => /\ t.o.at \in Regs \ taken /\ t.o = Loc(t.o.at, o.sz)
               /\ r \/ t.o.at \notin ResultsOf
               /\ t.o.at \in OperandColors => t.o.at \in SavedOf(r, taken)
               /\ l1[t.o.at] = Value(l, o, o.sz)
  /\ ~needed => t.o = o /\ l1 = l
  /\ \A c \in Places : (needed /\ c = t.o.at) \/ l1[c] = l[c]
  /\ Wraps(t, needed, l, l1, h, f)

(* Around any code, an operand moved to a temporary keeps its value there,  *)
(* every location but the temporary keeps its own, and the code after it    *)
(* restores a temporary that was saved.                                     *)
LEMMA OperandInTmp ==
  ASSUME RegistersAssumption, ir.through \subseteq Colors, ResultsOf \subseteq Colors,
         NEW needed \in BOOLEAN, NEW o, IsPlain(o), NEW r \in BOOLEAN, NEW taken, Prepare(r, taken) # {},
         NEW t \in InTmp(needed, o, r, taken), NEW l \in Locs, NEW h, NEW f
  PROVE  \E l1 \in Locs : Holding(t, needed, o, r, taken, l, l1, h, f)
<1>1. CASE ~needed
  <2>1. t = [o |-> o, before |-> <<>>, after |-> <<>>]
    BY <1>1 DEF InTmp
  <2>2. ASSUME NEW b, NEW l2, NEW h2, NEW f2, Gives(b, l, h, f, l2, h2, f2)
        PROVE  Gives(<<>> \o b \o <<>>, l, h, f, l2, h2, f2)
    <3>1. l2 \in Locs
      BY <2>2 DEF Gives
    <3>2. Gives(<<>>, l, h, f, l, h, f) /\ Gives(<<>>, l2, h2, f2, l2, h2, f2)
      BY <3>1, GivesNothing
    <3>3. Gives(<<>> \o b, l, h, f, l2, h2, f2)
      BY <2>2, <3>2, GivesThen
    <3> QED
      BY <3>2, <3>3, GivesThen
  <2>3. t.o = o /\ t.before = <<>> /\ t.after = <<>>
    BY <2>1
  <2>4. Wraps(t, needed, l, l, h, f)
    BY <1>1, <2>2, <2>3 DEF Wraps
  <2> QED
    BY <1>1, <2>3, <2>4 DEF Holding
<1>2. CASE needed
  <2>1. PICK p \in Prepare(r, taken) :
          t = [o |-> Loc(p.c, o.sz), before |-> Save(p) \o <<Mov(Loc(p.c, o.sz), o)>>, after |-> Restore(p)]
    BY <1>2 DEF InTmp
  <2>2. /\ p = [c |-> p.c, saved |-> p.saved] /\ p.saved \in BOOLEAN
        /\ p.c \in Regs \ taken
        /\ p.saved => p.c \notin ResultsOf
        /\ ~p.saved => /\ p.c \notin OperandColors
                       /\ p.c \notin ir.through \/ (r /\ p.c \in ResultsOf)
        /\ ~p.saved /\ ~r => p.c \notin ResultsOf
    BY Temporary
  <2>3. p.c \in Places /\ p.c < NumRegs /\ o.sz \in Sizes
    BY <2>2, RegPlaces, PlainIs DEF Regs, RegistersAssumption
  <2> DEFINE tmp == Loc(p.c, o.sz)
             l1 == [l EXCEPT ![p.c] = Value(l, o, o.sz)]
  <2>4. Constructible(Mov(tmp, o))
    BY <2>3, LocIs DEF Constructible, Mov, I, SizesMatch
  <2>5. Gives(<<Mov(tmp, o)>>, l, h, f, l1, h, f) /\ l1 \in Locs
    BY <2>3, <2>4, GivesMov
  <2>6. l1[p.c] = Value(l, o, o.sz) /\ \A c \in Places : c = p.c \/ l1[c] = l[c]
    BY <2>3 DEF Locs
  <2>7. Value(l1, tmp, o.sz) = Value(l, o, o.sz)
    <3>1. Low(Value(l, o, o.sz), o.sz) = Value(l, o, o.sz)
      BY <2>3, ValueType, LowOfWord
    <3> QED
      BY <2>6, <3>1, LocIs DEF Value
  <2>8. t.o = tmp /\ t.before = Save(p) \o <<Mov(tmp, o)>> /\ t.after = Restore(p)
    BY <2>1
  <2>9. tmp.at = p.c /\ tmp.sz = o.sz /\ IsPlain(tmp)
    BY <2>3, LocIs DEF IsPlain
  <2>10. p.c \in OperandColors => p.c \in SavedOf(r, taken)
    BY <2>2 DEF SavedOf
  <2> HIDE DEF tmp, l1
  <2>11. Wraps(t, needed, l, l1, h, f)
    <3> SUFFICES ASSUME NEW b, NEW l2, NEW h2, NEW f2, Gives(b, l1, h, f, l2, h2, f2)
                 PROVE  \E l3 : /\ Gives(t.before \o b \o t.after, l, h, f, l3, h2, f2)
                                /\ \A c \in ResultsOf : l3[c] = l2[c]
                                /\ \A c \in ir.through \ ResultsOf : (needed /\ c = t.o.at) \/ l2[c] = l1[c] => l3[c] = l[c]
      BY DEF Wraps
    <3> DEFINE l3 == IF p.saved THEN [l2 EXCEPT ![p.c] = l[p.c]] ELSE l2
               d == <<Mov(tmp, o)>> \o b
    <3>1. Gives(d, l, h, f, l2, h2, f2)
      BY <2>5, GivesThen
    <3>2. Gives(Save(p) \o d \o Restore(p), l, h, f, l3, h2, f2)
      <4> HIDE DEF d
      <4> QED
        BY <2>2, <2>3, <3>1, GivesTmp
    <3>3. Save(p) \o d \o Restore(p) = t.before \o b \o t.after
      <4>1. PICK S : b \in Seq(S)
        BY GivesIsCode DEF IsCode
      <4>2. PICK T : Save(p) \in Seq(T)
        <5>1. <<Push(p.c)>> \in Seq({Push(p.c)}) /\ <<>> \in Seq({Push(p.c)})
          OBVIOUS
        <5> QED
          BY <5>1 DEF Save
      <4>3. <<Mov(tmp, o)>> \in Seq({Mov(tmp, o)})
        OBVIOUS
      <4> DEFINE U == S \cup T \cup {Mov(tmp, o)}
      <4>4. b \in Seq(U) /\ Save(p) \in Seq(U) /\ <<Mov(tmp, o)>> \in Seq(U)
        BY <4>1, <4>2, <4>3
      <4> HIDE DEF U
      <4>5. Save(p) \o (<<Mov(tmp, o)>> \o b) = (Save(p) \o <<Mov(tmp, o)>>) \o b
        BY <4>4, ConcatAssociative
      <4> QED
        BY <2>8, <4>5
    <3>4. l2 \in Locs
      BY DEF Gives
    <3>5. \A c \in Places : l3[c] = IF p.saved /\ c = p.c THEN l[c] ELSE l2[c]
      BY <2>3, <3>4 DEF Locs
    <3> HIDE DEF l3, d
    <3>6. \A c \in ResultsOf : l3[c] = l2[c]
      BY <2>2, <3>5, RegPlaces
    <3>7. \A c \in ir.through \ ResultsOf : (needed /\ c = t.o.at) \/ l2[c] = l1[c] => l3[c] = l[c]
      <4>1. t.o.at = p.c
        BY <2>8, <2>9
      <4> QED
        BY <2>2, <2>6, <3>5, <4>1, RegPlaces
    <3> QED
      BY <3>2, <3>3, <3>6, <3>7
  <2>12. /\ IsPlain(t.o) /\ t.o.sz = o.sz
         /\ Value(l1, t.o, o.sz) = Value(l, o, o.sz)
         /\ t.o.at = p.c /\ t.o = Loc(t.o.at, o.sz)
         /\ \A c \in Places : c = t.o.at \/ l1[c] = l[c]
    BY <2>6, <2>7, <2>8, <2>9 DEF tmp
  <2>13. r \/ t.o.at \notin ResultsOf
    BY <2>2, <2>12
  <2>14. Holding(t, needed, o, r, taken, l, l1, h, f)
    BY <1>2, <2>2, <2>6, <2>10, <2>11, <2>12, <2>13 DEF Holding
  <2> QED
    BY <2>5, <2>14
<1> QED
  BY <1>1, <1>2

(* What stays: operands, and what lives on.                                 *)
Kept == (OperandColors \cup ir.through) \cap Colors

(* Two sequences of one instruction joined.                                 *)
LEMMA OneAndOne ==
  ASSUME NEW a, NEW b
  PROVE  <<a>> \o <<b>> = <<a, b>>
<1> DEFINE c == <<a>> \o <<b>>
           d == <<a, b>>
<1>1. c \in Seq({a, b}) /\ d \in Seq({a, b}) /\ Len(c) = 2 /\ Len(d) = 2
  OBVIOUS
<1>2. c[1] = a /\ c[2] = b /\ d[1] = a /\ d[2] = b
  OBVIOUS
<1> HIDE DEF c, d
<1>3. \A i \in 1 .. Len(c) : c[i] = d[i]
  BY <1>1, <1>2
<1>4. c = d
  BY <1>1, <1>3, SeqEqual
<1> QED
  BY <1>4 DEF c, d

(* The code puts v into c, and the locations are l2 then.                   *)
SetsTo(k, c, sz, v, l, l2, h, f) ==
  /\ Gives(k, l, h, f, l2, h, f)
  /\ Low(l2[c], sz) = v
  /\ \A x \in Kept \ {c} : l2[x] = l[x]

(* GenerateMov sets the destination to the value of the source and keeps    *)
(* every other location a value of the instruction is in; it takes at most  *)
(* one temporary.                                                           *)
LEMMA MovGives ==
  ASSUME RegistersAssumption, NEW c \in Colors, ResultsOf = {c}, NEW sz \in Sizes, NEW s, IsPlain(s), SizesMatch(Loc(c, sz), s),
         NEW mv \in GenerateMov(Loc(c, sz), s), NEW l \in Locs, NEW h, NEW f
  PROVE  /\ \E l2 : SetsTo(mv.code, c, sz, Value(l, s, sz), l, l2, h, f)
         /\ \E a : mv.taken \subseteq {a}
<1> DEFINE d == Loc(c, sz)
<1>1. c \in Places /\ IsPlain(d) /\ s.sz \in Sizes /\ d.sz = sz /\ d.at = c /\ ~IsImm(d)
  BY RegPlaces, PlainIs, LocIs DEF IsPlain
<1>2. CASE d = s
  <2>1. mv.code = <<>> /\ mv.taken = {}
    BY <1>2 DEF GenerateMov
  <2>2. Value(l, s, sz) = Low(l[c], sz)
    BY <1>1, <1>2 DEF Value
  <2> QED
    BY <2>1, <2>2, GivesNothing DEF SetsTo
<1>3. CASE d # s /\ ~MovNeedsTmpReg(d, s)
  <2>1. mv.code = <<Mov(d, s)>> /\ mv.taken = {}
    BY <1>3 DEF GenerateMov
  <2>2. Constructible(Mov(d, s))
    <3>1. IsMem(d) => ~IsReg(d)
      BY DEF IsMem, IsReg
    <3> QED
      BY <1>3, <3>1 DEF Constructible, Mov, I, MovNeedsTmpReg
  <2> DEFINE l2 == [l EXCEPT ![c] = Value(l, s, sz)]
  <2>3. Gives(mv.code, l, h, f, l2, h, f)
    BY <1>1, <2>1, <2>2, GivesMov
  <2>4. l2[c] = Value(l, s, sz) /\ \A x \in Places : x = c \/ l2[x] = l[x]
    BY <1>1 DEF Locs
  <2>5. Low(l2[c], sz) = Value(l, s, sz)
    BY <2>4, ValueType, LowOfWord
  <2> HIDE DEF l2
  <2> QED
    BY <2>1, <2>3, <2>4, <2>5, RegPlaces DEF Kept, SetsTo
<1>4. CASE d # s /\ MovNeedsTmpReg(d, s)
  <2>1. Prepare(FALSE, {}) # {}
    BY SomeTemporary
  <2>2. PICK t \in Prepare(FALSE, {}) :
          mv = [code |-> Around(t, <<Mov(Loc(t.c, s.sz), s), Mov(d, Loc(t.c, s.sz))>>), taken |-> {t.c}]
    BY <1>4, <2>1 DEF GenerateMov
  <2>3. /\ t = [c |-> t.c, saved |-> t.saved] /\ t.saved \in BOOLEAN
        /\ t.c \in Regs /\ t.c # c
        /\ ~t.saved => t.c \notin OperandColors \cup ir.through
    BY Temporary
  <2>4. t.c \in Places /\ t.c < NumRegs
    BY <2>3, RegPlaces DEF Regs, RegistersAssumption
  <2>5. s.sz = sz
    BY <1>1, <1>4 DEF SizesMatch, MovNeedsTmpReg, IsWideImm, IsImm, IsMem
  <2> DEFINE tmp == Loc(t.c, sz)
             v == Value(l, s, sz)
             l1 == [l EXCEPT ![t.c] = v]
             l2 == [l1 EXCEPT ![c] = Value(l1, tmp, sz)]
             l3 == IF t.saved THEN [l2 EXCEPT ![t.c] = l[t.c]] ELSE l2
  <2>6. Constructible(Mov(tmp, s)) /\ Constructible(Mov(d, tmp)) /\ IsPlain(tmp)
    BY <1>1, <2>4, <2>5, LocIs DEF Constructible, Mov, I, SizesMatch, IsPlain
  <2>7. Gives(<<Mov(tmp, s)>>, l, h, f, l1, h, f) /\ l1 \in Locs
    BY <2>4, <2>6, GivesMov
  <2>8. l1[t.c] = v /\ \A x \in Places : x = t.c \/ l1[x] = l[x]
    BY <2>4 DEF Locs
  <2>9. Low(v, sz) = v
    BY ValueType, LowOfWord
  <2>10. Value(l1, tmp, sz) = v
    BY <2>8, <2>9, LocIs DEF Value
  <2> HIDE DEF tmp, l1
  <2>11. Gives(<<Mov(d, tmp)>>, l1, h, f, l2, h, f)
    BY <1>1, <2>6, <2>7, GivesMov
  <2>12. l2[c] = v /\ \A x \in Places : x = c \/ l2[x] = l1[x]
    BY <1>1, <2>7, <2>10 DEF Locs
  <2>13. l2 \in Locs
    BY <2>11 DEF Gives
  <2> HIDE DEF l2
  <2>14. Gives(<<Mov(tmp, s)>> \o <<Mov(d, tmp)>>, l, h, f, l2, h, f)
    BY <2>7, <2>11, GivesThen
  <2>15. Gives(Save(t) \o (<<Mov(tmp, s)>> \o <<Mov(d, tmp)>>) \o Restore(t), l, h, f, l3, h, f)
    BY <2>3, <2>4, <2>14, GivesTmp
  <2>16. <<Mov(tmp, s)>> \o <<Mov(d, tmp)>> = <<Mov(tmp, s), Mov(d, tmp)>>
    BY OneAndOne
  <2>17. mv.code = Save(t) \o (<<Mov(tmp, s)>> \o <<Mov(d, tmp)>>) \o Restore(t) /\ mv.taken = {t.c}
    BY <2>2, <2>5, <2>16 DEF Around, tmp
  <2>18. \A x \in Places : l3[x] = IF t.saved /\ x = t.c THEN l[x] ELSE l2[x]
    BY <2>4, <2>13 DEF Locs
  <2> HIDE DEF l3, v
  <2>19. Low(l3[c], sz) = v
    BY <1>1, <2>3, <2>9, <2>12, <2>18
  <2>20. \A x \in Kept \ {c} : l3[x] = l[x]
    BY <2>3, <2>8, <2>12, <2>18, RegPlaces DEF Kept
  <2> QED
    BY <2>15, <2>17, <2>19, <2>20 DEF v, SetsTo
<1> QED
  BY <1>2, <1>3, <1>4

(* Operands of matching sizes, not both in memory and not a wide immediate, *)
(* can be given to the constructors of the instructions.                    *)
LEMMA ALConstructible ==
  ASSUME NEW op \in {"and", "or", "xor", "add", "sub", "cmp"}, NEW d, NEW s,
         SizesMatch(d, s), ~IsWideImm(s), ~(IsMem(d) /\ IsMem(s))
  PROVE  Constructible(I(op, d, s))
BY DEF Constructible, I

(* The heap at the start.                                                   *)
H0 == [x \in 0 .. 15 |-> (x + 7) % 16]

(* The code puts v into the result and leaves alone what lives on.          *)
CanCompute(k, sz, v) ==
  \E l, f : /\ Gives(k, InitialLoc, H0, <<>>, l, H0, f)
            /\ Low(l[Res], sz) = v
            /\ \A x \in ir.through : l[x] = InitialLoc[x]

(* The common shape of additions, bitwise operations, subtractions and      *)
(* pointer offsets: the first operand is moved to the result and the other  *)
(* applied to it, through a temporary where it has to be, and the values    *)
(* that live on are kept.                                                   *)
LEMMA ApplyGives ==
  ASSUME RegistersAssumption, InitialLoc \in Locs, Res \in Colors, ResultsOf = {Res}, ir.through \subseteq Colors \ {Res},
         NEW sz \in Sizes, NEW op \in {"and", "or", "xor", "add", "sub"}, NEW moved \in BOOLEAN,
         NEW first, ~moved => IsPlain(first) /\ SizesMatch(Loc(Res, sz), first),
         NEW needed \in BOOLEAN, NEW other, IsPlain(other), SizesMatch(Loc(Res, sz), other),
         IsWideImm(other) \/ (IsMem(other) /\ IsMem(Loc(Res, sz))) => needed,
         needed => other.sz = sz,
         ~IsImm(other) => other.at \in OperandColors \cap Colors /\ (moved \/ other.at # Res),
         NEW v, v = IF moved THEN Low(InitialLoc[Res], sz) ELSE Value(InitialLoc, first, sz),
         NEW w, w = Value(InitialLoc, other, sz),
         NEW k \in MovAndApply(op, Loc(Res, sz), moved, first, needed, other)
  PROVE  CanCompute(k, sz, Low(Compute(op, v, w), sz))
<1> DEFINE c == Res
           l == InitialLoc
           h == H0
           f == <<>>
           res == Loc(c, sz)
<1>1. c \in Places /\ IsPlain(res) /\ res.sz = sz /\ res.at = c /\ ~IsImm(res) /\ other.sz \in Sizes
  BY RegPlaces, PlainIs, LocIs DEF IsPlain
<1>2. PICK mv \in IF moved THEN {[code |-> <<>>, taken |-> {}]} ELSE GenerateMov(res, first) :
        k \in {mv.code \o (t.before \o <<I(op, res, t.o)>> \o t.after) : t \in InTmp(needed, other, FALSE, mv.taken)}
  BY DEF MovAndApply
<1>3. PICK t \in InTmp(needed, other, FALSE, mv.taken) :
        k = mv.code \o (t.before \o <<I(op, res, t.o)>> \o t.after)
  BY <1>2
<1>4. /\ \E l2 : SetsTo(mv.code, c, sz, v, l, l2, h, f) /\ (moved => l2 = l)
      /\ \E a : mv.taken \subseteq {a}
  <2>1. CASE moved
    <3>1. mv.code = <<>> /\ mv.taken = {}
      BY <1>2, <2>1
    <3> QED
      BY <2>1, <3>1, GivesNothing DEF SetsTo
  <2>2. CASE ~moved
    <3>1. mv \in GenerateMov(Loc(c, sz), first)
      BY <1>2, <2>2
    <3>2. v = Value(l, first, sz)
      BY <2>2
    <3> HIDE DEF c, l, h, f
    <3>3. \E l2 : SetsTo(mv.code, c, sz, Value(l, first, sz), l, l2, h, f)
      BY <2>2, <3>1, MovGives DEF c, l
    <3>4. \E a : mv.taken \subseteq {a}
      BY <2>2, <3>1, MovGives DEF c, l
    <3> QED
      BY <2>2, <3>2, <3>3, <3>4
  <2> QED
    BY <2>1, <2>2
<1>5. PICK l2 : SetsTo(mv.code, c, sz, v, l, l2, h, f) /\ (moved => l2 = l)
  BY <1>4
<1>6. l2 \in Locs
  BY <1>5 DEF Gives, SetsTo
<1>7. Value(l2, other, sz) = w
  <2>1. CASE IsImm(other)
    BY <2>1 DEF Value
  <2>2. CASE ~IsImm(other)
    BY <1>5, <2>2 DEF Value, Kept, SetsTo
  <2> QED
    BY <2>1, <2>2
<1>8. Prepare(FALSE, mv.taken) # {}
  BY <1>4, SomeTemporary
<1>9. ir.through \subseteq Colors /\ ResultsOf \subseteq Colors
  OBVIOUS
<1>10. PICK l3 \in Locs : Holding(t, needed, other, FALSE, mv.taken, l2, l3, h, f)
  BY <1>6, <1>8, <1>9, OperandInTmp
<1>11. Value(l3, t.o, sz) = w
  BY <1>7, <1>10 DEF Holding
<1>12. Constructible(I(op, res, t.o))
  <2>1. CASE needed
    <3>1. t.o.at < NumRegs
      BY <1>10, <2>1 DEF Holding, Regs, RegistersAssumption
    <3>2. ~IsWideImm(t.o) /\ ~IsMem(t.o) /\ t.o.sz = sz
      BY <1>10, <2>1, <3>1, LocIs DEF Holding
    <3> QED
      BY <1>1, <3>2, ALConstructible DEF SizesMatch
  <2>2. CASE ~needed
    BY <1>10, <2>2, ALConstructible DEF Holding
  <2> QED
    BY <2>1, <2>2
<1>13. l3[c] = l2[c]
  BY <1>1, <1>10 DEF Holding
<1> DEFINE x == Low(Compute(op, Value(l3, res, sz), Value(l3, t.o, sz)), sz)
           l4 == [l3 EXCEPT ![c] = x]
<1>14. Gives(<<I(op, res, t.o)>>, l3, h, f, l4, h, f) /\ l4 \in Locs
  BY <1>1, <1>10, <1>12, GivesAL DEF ALOps, Holding
<1>15. Value(l3, res, sz) = v
  BY <1>1, <1>5, <1>13 DEF Value, SetsTo
<1>16. x = Low(Compute(op, v, w), sz) /\ Low(x, sz) = x
  <2>1. x = Low(Compute(op, v, w), sz)
    BY <1>11, <1>15
  <2>2. Value(l3, res, sz) \in Nat /\ Value(l3, t.o, sz) \in Nat
    BY <1>1, <1>10, ValueType DEF Holding
  <2>3. Compute(op, Value(l3, res, sz), Value(l3, t.o, sz)) \in Int
    BY <2>2, ComputeType DEF ALOps
  <2>4. x \in Words(sz)
    BY <2>3, LowIs
  <2> QED
    BY <2>1, <2>4, LowOfWord
<1> HIDE DEF x
<1>17. l4[c] = x /\ \A y \in Places : y = c \/ l4[y] = l3[y]
  BY <1>1, <1>10 DEF Locs
<1> HIDE DEF l4, res
<1>18. PICK l5 : /\ Gives(t.before \o <<I(op, res, t.o)>> \o t.after, l2, h, f, l5, h, f)
                 /\ l5[c] = l4[c]
                 /\ \A y \in ir.through \ ResultsOf : l4[y] = l3[y] => l5[y] = l2[y]
  BY <1>10, <1>14 DEF Wraps, Holding
<1>19. Gives(k, l, h, f, l5, h, f)
  BY <1>3, <1>5, <1>18, GivesThen DEF SetsTo
<1>20. \A y \in ir.through : l5[y] = l[y]
  <2>1. ASSUME NEW y \in ir.through PROVE l5[y] = l[y]
    <3>1. y \in Colors /\ y # c /\ y \notin ResultsOf /\ y \in Places
      BY RegPlaces
    <3>2. l4[y] = l3[y]
      BY <1>17, <3>1
    <3>3. l5[y] = l2[y]
      BY <1>18, <3>1, <3>2
    <3> QED
      BY <1>5, <3>1, <3>3 DEF Kept, SetsTo
  <2> QED
    BY <2>1
<1>21. Low(l5[c], sz) = Low(Compute(op, v, w), sz)
  BY <1>16, <1>17, <1>18
<1> QED
  BY <1>19, <1>20, <1>21 DEF CanCompute

-----------------------------------------------------------------------------
(* The instruction, its operands and the machine it starts on.              *)

(* What is assumed of an instruction.                                       *)
LEMMA InstrIs ==
  ASSUME ir \in Cases
  PROVE  /\ IsInstr(ir) /\ HasOperands(ir) /\ HasValues(ir) /\ HasPlaces(ir) /\ RegistersAssumption
         /\ ir.sz \in Sizes /\ ir.signed \in BOOLEAN
         /\ ir.through \subseteq Colors /\ ResultsOf \subseteq Colors /\ ir.through \cap ResultsOf = {}
         /\ SizeOfA(ir) \in Sizes
<1>1. IsInstr(ir) /\ RegistersAssumption
  BY InstrsAssumption
<1>2. HasOperands(ir) /\ HasValues(ir) /\ HasPlaces(ir) /\ ir.sz \in Sizes /\ ir.signed \in BOOLEAN
  BY <1>1 DEF IsInstr, Sizes
<1>3. ir.results \in Seq(Colors) /\ ir.through \in SUBSET (Colors \ ToSet(ir.results))
  BY <1>2 DEF HasPlaces
<1>4. ResultsOf = ToSet(ir.results) /\ ToSet(ir.results) \subseteq Colors
  BY <1>3 DEF ResultsOf, ToSet
<1>5. SizeOfA(ir) \in Sizes
  BY <1>2 DEF SizeOfA, Sizes
<1> QED
  BY <1>1, <1>2, <1>3, <1>4, <1>5

(* Operations with a result.                                                *)
OneResultOps ==
  {"mov", "bool_not", "not", "neg", "offset", "niltest", "load"} \cup BoolBinaryOps \cup CompareOps \cup IntBinaryOps

(* An instruction with a result has one, in a place no value that lives on  *)
(* has.                                                                     *)
LEMMA OneResult ==
  ASSUME ir \in Cases, ir.op \in OneResultOps
  PROVE  Res \in Colors /\ ResultsOf = {Res} /\ ir.through \subseteq Colors \ {Res} /\ ir.args = <<>> /\ Len(ir.results) = 1
<1>1. ir.op \notin {"call", "return", "frame", "store", "jumpcond"}
  BY DEF OneResultOps, BoolBinaryOps, CompareOps, IntBinaryOps
<1>2. HasPlaces(ir)
  BY InstrIs
<1>3. ir.args = <<>> /\ Len(ir.results) \in NumResults(ir)
  BY <1>1, <1>2 DEF HasPlaces
<1>4. Len(ir.results) = 1 /\ ir.results \in Seq(Colors)
  BY <1>1, <1>2, <1>3 DEF NumResults, HasPlaces
<1>5. Res \in Colors /\ ToSet(ir.results) = {Res}
  BY <1>4 DEF Res, ToSet
<1> QED
  BY <1>3, <1>4, <1>5, InstrIs DEF ResultsOf

(* An operand is a constant or has a color.                                 *)
LEMMA ValueIsConstOrComputed ==
  ASSUME NEW sz \in Sizes, NEW x \in Values(sz)
  PROVE  \/ x \in Computed /\ x.k = "val" /\ x.v \in Colors /\ x = Val(x.v)
         \/ x \notin Computed /\ x.k = "const" /\ x.v \in Words(sz) /\ x.v \in 0 .. 15
<1>1. CASE \E c \in Colors : x = Val(c)
  BY <1>1 DEF Val, Computed
<1>2. CASE \E v \in Words(sz) : x = Const(v)
  <2>1. PICK v \in Words(sz) : x = Const(v)
    BY <1>2
  <2>2. x.k = "const" /\ x.v = v
    BY <2>1 DEF Const
  <2>3. v \in 0 .. 15
    BY WordsAre
  <2>4. x \notin Computed
    BY <2>2 DEF Computed, Val
  <2> QED
    BY <2>2, <2>3, <2>4
<1> QED
  BY <1>1, <1>2 DEF Values, Computed

(* Sign extension of a narrowed constant.                                   *)
NarrowsWrongly(x) == ir.sz = 64 /\ ~ir.signed /\ x.k = "const" /\ x.v \in {2, 3}

(* The operand of the processor for an operand of the IR has its size and   *)
(* holds its value, unless an unsigned constant is narrowed that must not   *)
(* be.                                                                      *)
LEMMA Translated ==
  ASSUME ir \in Cases, NEW narrowing \in BOOLEAN, NEW x \in Values(ir.sz),
         NEW o, o = TranslateValue(x, ir.sz, ir.signed, narrowing)
  PROVE  /\ IsPlain(o) /\ \A c : SizesMatch(Loc(c, ir.sz), o)
         /\ x \in Computed => x.v \in Colors /\ o = Loc(x.v, ir.sz) /\ o.sz = ir.sz /\ ~IsImm(o) /\ o.at = x.v
         /\ x \notin Computed => /\ IsImm(o)
                                 /\ o.sz # ir.sz => narrowing /\ ir.sz = 64 /\ o.sz = 32
                                 /\ (narrowing => ~NarrowsWrongly(x)) => \A l : Value(l, o, ir.sz) = x.v
<1>1. ir.sz \in Sizes /\ ir.signed \in BOOLEAN /\ RegistersAssumption
  BY InstrIs
<1>2. CASE x \in Computed
  <2>1. x.k = "val" /\ x.v \in Colors
    BY <1>1, <1>2, ValueIsConstOrComputed
  <2>2. o = Loc(x.v, ir.sz)
    BY <2>1 DEF TranslateValue
  <2> QED
    BY <1>1, <1>2, <2>1, <2>2, LocIs, RegPlaces DEF IsPlain, SizesMatch
<1>3. CASE x \notin Computed
  <2>1. x.k = "const" /\ x.v \in Words(ir.sz) /\ x.v \in 0 .. 15
    BY <1>1, <1>3, ValueIsConstOrComputed
  <2> DEFINE narrowed == ir.sz = 64 /\ narrowing /\ CanConvertTo32(x.v, ir.signed)
  <2>2. CASE narrowed
    <3>1. o = Imm(Low(x.v, 32), 32)
      BY <2>1, <2>2 DEF TranslateValue
    <3>2. Low(x.v, 32) = x.v % 4 /\ Low(x.v, 32) \in 0 .. 15
      BY <2>1, LowIs DEF Sizes
    <3>3. IsPlain(o) /\ IsImm(o) /\ o.sz = 32 /\ o.at = x.v % 4
      BY <3>1, <3>2 DEF IsPlain, Imm, IsImm, Sizes
    <3>4. ASSUME NEW c PROVE SizesMatch(Loc(c, ir.sz), o)
      <4>1. Loc(c, ir.sz).sz = 64
        BY <2>2, LocIs
      <4> QED
        BY <3>3, <4>1 DEF SizesMatch
    <3>5. ASSUME ~NarrowsWrongly(x) PROVE Low(Signed(x.v % 4, 32), 64) = x.v
      <4>1. /\ Signed(x.v % 4, 32) = IF x.v % 4 >= 2 THEN (x.v % 4) - 4 ELSE x.v % 4
            /\ Signed(x.v % 4, 32) \in Int
        <5>1. x.v % 4 \in Int /\ (x.v % 4) % 4 = x.v % 4 /\ 32 \in Sizes
          BY <2>1 DEF Sizes
        <5> HIDE DEF Sizes
        <5> QED
          BY <5>1, SignedIs
      <4>2. Low(Signed(x.v % 4, 32), 64) = Signed(x.v % 4, 32) % 16
        BY <4>1, LowIs DEF Sizes
      <4>3. Signed(x.v, 64) = IF x.v >= 8 THEN x.v - 16 ELSE x.v
        BY <2>1, SignedIs DEF Sizes
      <4>4. x.v \in {0, 1, 14, 15}
        BY <1>1, <2>1, <2>2, <3>5, <4>3 DEF CanConvertTo32, NarrowsWrongly
      <4>5. x.v = 0 \/ x.v = 1 \/ x.v = 14 \/ x.v = 15
        BY <4>4
      <4> HIDE DEF Sizes
      <4> QED
        BY <4>1, <4>2, <4>5
    <3>6. ~NarrowsWrongly(x) => \A l : Value(l, o, ir.sz) = x.v
      BY <2>2, <3>3, <3>5 DEF Value
    <3> QED
      BY <1>3, <2>2, <3>3, <3>4, <3>6
  <2>3. CASE ~narrowed
    <3>1. o = Imm(Low(x.v, ir.sz), ir.sz)
      BY <2>1, <2>3 DEF TranslateValue
    <3>2. Low(x.v, ir.sz) = x.v
      BY <1>1, <2>1, LowOfWord
    <3>3. IsPlain(o) /\ IsImm(o) /\ o.sz = ir.sz /\ o.at = x.v
      BY <1>1, <2>1, <3>1, <3>2 DEF IsPlain, Imm, IsImm
    <3>4. \A c : SizesMatch(Loc(c, ir.sz), o)
      BY <3>3, LocIs DEF SizesMatch
    <3>5. Low(Signed(x.v, ir.sz), ir.sz) = x.v
      <4>1. CASE ir.sz = 64
        <5>1. Signed(x.v, ir.sz) = (IF x.v >= 8 THEN x.v - 16 ELSE x.v) /\ Signed(x.v, ir.sz) \in Int
          BY <1>1, <2>1, <4>1, SignedIs
        <5>2. Low(Signed(x.v, ir.sz), ir.sz) = Signed(x.v, ir.sz) % 16
          BY <1>1, <4>1, <5>1, LowIs
        <5> QED
          BY <2>1, <5>1, <5>2
      <4>2. CASE ir.sz # 64
        <5>1. x.v \in 0 .. 3
          BY <1>1, <2>1, <4>2, WordsAre
        <5>2. Signed(x.v, ir.sz) = (IF x.v >= 2 THEN x.v - 4 ELSE x.v) /\ Signed(x.v, ir.sz) \in Int
          BY <1>1, <4>2, <5>1, SignedIs
        <5>3. Low(Signed(x.v, ir.sz), ir.sz) = Signed(x.v, ir.sz) % 4
          BY <1>1, <4>2, <5>2, LowIs
        <5> QED
          BY <5>1, <5>2, <5>3
      <4> QED
        BY <4>1, <4>2
    <3>6. \A l : Value(l, o, ir.sz) = x.v
      BY <3>3, <3>5 DEF Value
    <3> QED
      BY <1>3, <3>3, <3>4, <3>6
  <2> QED
    BY <2>2, <2>3
<1> QED
  BY <1>2, <1>3

(* The operands of an instruction are values of its sizes.                  *)
LEMMA OperandsAre ==
  ASSUME ir \in Cases
  PROVE  ir.a \in Values(SizeOfA(ir)) /\ ir.b \in Values(ir.sz)
<1>1. ir.sz \in Sizes /\ SizeOfA(ir) \in Sizes /\ HasOperands(ir) /\ IsInstr(ir)
  BY InstrIs
<1>2. Const(0) \in Values(ir.sz) /\ Const(0) \in Values(SizeOfA(ir))
  BY <1>1, WordsAre DEF Values
<1>3. \A sz : Computed \subseteq Values(sz)
  BY DEF Values
<1>4. ir.b \in Values(ir.sz)
  BY <1>1, <1>2, <1>3 DEF HasOperands, Unused, IsInstr
<1>5. CASE ir.op \in {"mov", "load"}
  BY <1>1, <1>4, <1>5 DEF HasOperands, CompareOps, IntBinaryOps, BoolBinaryOps
<1>6. CASE ir.op \in {"bool_not", "not", "neg", "niltest"} \cup BoolBinaryOps
  <2>1. ir.a \in Computed
    BY <1>1, <1>6 DEF HasOperands, CompareOps, IntBinaryOps, BoolBinaryOps
  <2> QED
    BY <1>3, <1>4, <2>1
<1>7. CASE ir.op \in CompareOps \cup IntBinaryOps \cup {"offset"}
  <2>1. ir.a \in Values(ir.sz)
    BY <1>1, <1>7 DEF HasOperands, CompareOps, IntBinaryOps, BoolBinaryOps
  <2>2. ir.op = "offset" => ir.sz = 64
    BY InstrIs DEF HasValues
  <2>3. SizeOfA(ir) = ir.sz
    BY <1>7, <2>2 DEF SizeOfA, CompareOps, IntBinaryOps
  <2> QED
    BY <1>4, <2>1, <2>3
<1>8. CASE ir.op \in {"store", "call", "jumpcond"}
  <2>1. ir.a \in Values(IF ir.op = "jumpcond" THEN 8 ELSE 64)
    BY <1>1, <1>8 DEF HasOperands, CompareOps, IntBinaryOps, BoolBinaryOps
  <2>2. ir.op = "jumpcond" => ir.sz = 8
    BY InstrIs DEF HasValues
  <2> QED
    BY <1>4, <1>8, <2>1, <2>2 DEF SizeOfA
<1>9. CASE ir.op \in {"return", "frame"}
  BY <1>1, <1>2, <1>4, <1>9 DEF HasOperands, Unused, CompareOps, IntBinaryOps, BoolBinaryOps
<1> QED
  BY <1>1, <1>4, <1>5, <1>6, <1>7, <1>8, <1>9 DEF IsInstr

(* Where the code starts: every location holds a number, and the places of  *)
(* the operands their values.                                               *)
LEMMA Start ==
  ASSUME ir \in Cases
  PROVE  /\ InitialLoc \in Locs /\ H0 \in Heaps /\ InitialMachine = Core(InitialLoc, H0, <<>>, <<>>)
         /\ ir.va \in Words(SizeOfA(ir)) /\ ir.vb \in Words(ir.sz) /\ ir.va \in 0 .. 15 /\ ir.vb \in 0 .. 15
         /\ ir.a \in Computed => ir.a.v \in OperandColors \cap Colors /\ InitialLoc[ir.a.v] = ir.va
         /\ ir.b \in Computed => ir.b.v \in OperandColors \cap Colors /\ InitialLoc[ir.b.v] = ir.vb
         /\ ir.a \notin Computed => ir.a.k = "const" /\ ir.va = ir.a.v /\ ir.a.v \in 0 .. 15
         /\ ir.b \notin Computed => ir.b.k = "const" /\ ir.vb = ir.b.v /\ ir.b.v \in 0 .. 15
         /\ ir.a \in Computed => ir.a.k = "val"
         /\ ir.b \in Computed => ir.b.k = "val"
<1>1. HasValues(ir) /\ ir.sz \in Sizes /\ SizeOfA(ir) \in Sizes /\ RegistersAssumption
  BY InstrIs
<1>2. /\ \/ ir.a \in Computed /\ ir.a.k = "val" /\ ir.a.v \in Colors /\ ir.a = Val(ir.a.v)
         \/ ir.a \notin Computed /\ ir.a.k = "const" /\ ir.a.v \in 0 .. 15
      /\ \/ ir.b \in Computed /\ ir.b.k = "val" /\ ir.b.v \in Colors /\ ir.b = Val(ir.b.v)
         \/ ir.b \notin Computed /\ ir.b.k = "const" /\ ir.b.v \in 0 .. 15
  BY <1>1, OperandsAre, ValueIsConstOrComputed
<1>3. ir.va \in Words(SizeOfA(ir)) /\ ir.vb \in Words(ir.sz) /\ ir.va \in 0 .. 15 /\ ir.vb \in 0 .. 15
  <2>1. ir.va \in Words(SizeOfA(ir)) /\ ir.vb \in Words(ir.sz)
    BY <1>1 DEF HasValues
  <2>2. \A sz \in Sizes : Words(sz) \subseteq 0 .. 15
    BY WordsAre
  <2> QED
    BY <1>1, <2>1, <2>2
<1>4. InitialLoc \in Locs
  <2>1. \A c \in Places : (c + 8) % 16 \in Nat
    BY <1>1 DEF Places, RegistersAssumption
  <2> QED
    BY <1>3, <2>1 DEF InitialLoc, Locs, Places
<1>5. \A c \in Colors : InitialLoc[c] = IF ir.a.k = "val" /\ ir.a.v = c THEN ir.va
                                      ELSE IF ir.b.k = "val" /\ ir.b.v = c THEN ir.vb ELSE (c + 8) % 16
  BY <1>1, RegPlaces DEF InitialLoc, Places
<1>6. ir.a \in Computed /\ ir.a = ir.b => ir.va = ir.vb
  BY <1>1 DEF HasValues
<1>7. /\ ir.a \in Computed => InitialLoc[ir.a.v] = ir.va
      /\ ir.b \in Computed => InitialLoc[ir.b.v] = ir.vb
  BY <1>2, <1>5, <1>6
<1>8. /\ ir.a \notin Computed => ir.va = ir.a.v
      /\ ir.b \notin Computed => ir.vb = ir.b.v
  BY <1>1, <1>2 DEF HasValues
<1>9. /\ ir.a \in Computed => ir.a.v \in OperandColors
      /\ ir.b \in Computed => ir.b.v \in OperandColors
  BY <1>2 DEF OperandColors
<1>10. H0 \in Heaps
  BY DEF H0, Heaps
<1>11. InitialMachine = Core(InitialLoc, H0, <<>>, <<>>)
  BY DEF InitialMachine, Core, H0
<1> QED
  BY <1>2, <1>3, <1>4, <1>7, <1>8, <1>9, <1>10, <1>11

(* The first operand of the processor holds at the start what the first     *)
(* operand of the IR instruction does.                                      *)
LEMMA OperandA ==
  ASSUME ir \in Cases, SizeOfA(ir) = ir.sz, NEW narrowing \in BOOLEAN, narrowing => ~NarrowsWrongly(ir.a)
  PROVE  Value(InitialLoc, TranslateValue(ir.a, ir.sz, ir.signed, narrowing), ir.sz) = ir.va
<1> DEFINE o == TranslateValue(ir.a, ir.sz, ir.signed, narrowing)
<1>1. ir.a \in Values(ir.sz) /\ ir.va \in Words(ir.sz) /\ ir.sz \in Sizes
  BY OperandsAre, Start, InstrIs
<1>2. /\ ir.a \in Computed => ~IsImm(o) /\ o.at = ir.a.v
      /\ ir.a \notin Computed => Value(InitialLoc, o, ir.sz) = ir.a.v
  BY <1>1, Translated
<1> HIDE DEF o
<1>3. Low(ir.va, ir.sz) = ir.va
  BY <1>1, LowOfWord
<1> SUFFICES Value(InitialLoc, o, ir.sz) = ir.va
  BY DEF o
<1>4. CASE ir.a \in Computed
  BY <1>2, <1>3, <1>4, Start DEF Value
<1>5. CASE ir.a \notin Computed
  BY <1>2, <1>5, Start
<1> QED
  BY <1>4, <1>5

(* The second operand of the processor holds at the start what the second   *)
(* operand of the IR instruction does.                                      *)
LEMMA OperandB ==
  ASSUME ir \in Cases, NEW narrowing \in BOOLEAN, narrowing => ~NarrowsWrongly(ir.b)
  PROVE  Value(InitialLoc, TranslateValue(ir.b, ir.sz, ir.signed, narrowing), ir.sz) = ir.vb
<1> DEFINE o == TranslateValue(ir.b, ir.sz, ir.signed, narrowing)
<1>1. ir.b \in Values(ir.sz) /\ ir.vb \in Words(ir.sz) /\ ir.sz \in Sizes
  BY OperandsAre, Start, InstrIs
<1>2. /\ ir.b \in Computed => ~IsImm(o) /\ o.at = ir.b.v
      /\ ir.b \notin Computed => Value(InitialLoc, o, ir.sz) = ir.b.v
  BY <1>1, Translated
<1> HIDE DEF o
<1>3. Low(ir.vb, ir.sz) = ir.vb
  BY <1>1, LowOfWord
<1> SUFFICES Value(InitialLoc, o, ir.sz) = ir.vb
  BY DEF o
<1>4. CASE ir.b \in Computed
  BY <1>2, <1>3, <1>4, Start DEF Value
<1>5. CASE ir.b \notin Computed
  BY <1>2, <1>5, Start
<1> QED
  BY <1>4, <1>5

(* The code runs to its end, where the machine is right.                    *)
Translates(c) == \E y : Runs(c, InitialMachine, y) /\ Right(y)

(* Code that leaves in the result what the instruction computes, keeps what *)
(* lives on and leaves the stack as it was is right.                        *)
LEMMA Computes ==
  ASSUME ir \in Cases, ir.op \in OneResultOps, NEW c, CanCompute(c, ResultSize, IRValue)
  PROVE  Translates(c)
<1> PICK l, f : /\ Gives(c, InitialLoc, H0, <<>>, l, H0, f)
                /\ Low(l[Res], ResultSize) = IRValue
                /\ \A x \in ir.through : l[x] = InitialLoc[x]
  BY DEF CanCompute
<1> DEFINE y == Core(l, H0, f, <<>>)
<1>1. <<>> \in Seq(Nat)
  OBVIOUS
<1>2. Runs(c, InitialMachine, y)
  BY <1>1, Start DEF Gives
<1>3. y.loc = l /\ y.stack = <<>>
  BY DEF Core
<1> HIDE DEF y
<1>4. ir.op \notin {"call", "return", "frame", "store", "jumpcond"}
  BY DEF OneResultOps, BoolBinaryOps, CompareOps, IntBinaryOps
<1>5. Effect(y)
  BY <1>3, <1>4 DEF Effect, Res
<1>6. Right(y)
  BY <1>3, <1>5 DEF Right
<1> QED
  BY <1>2, <1>6 DEF Translates

-----------------------------------------------------------------------------
(* Moves, comparisons and arithmetic, one lemma per translator.             *)

(* Moves are translated right.                                              *)
LEMMA MovTranslates ==
  ASSUME ir \in Cases, ~KnownDefect, ir.op = "mov", NEW c \in TranslateMov
  PROVE  Translates(c)
<1>1. PICK mv \in GenerateMov(Result(ir.sz), Narrowed(ir.a)) : c = mv.code
  BY DEF TranslateMov
<1>2. ir.op \in OneResultOps /\ SizeOfA(ir) = ir.sz
  BY DEF OneResultOps, SizeOfA
<1>3. Res \in Colors /\ ResultsOf = {Res} /\ ir.through \subseteq Colors \ {Res} /\ Result(ir.sz) = Loc(Res, ir.sz)
  BY <1>2, OneResult DEF Result, Res
<1>4. ir.a \in Values(ir.sz) /\ ir.sz \in Sizes /\ InitialLoc \in Locs /\ RegistersAssumption
  BY <1>2, OperandsAre, InstrIs, Start
<1>5. IsPlain(Narrowed(ir.a)) /\ SizesMatch(Loc(Res, ir.sz), Narrowed(ir.a))
  BY <1>4, Translated DEF Narrowed
<1>6. ~NarrowsWrongly(ir.a)
  BY DEF KnownDefect, NarrowedUnsigned, NarrowsWrongly
<1>7. Value(InitialLoc, Narrowed(ir.a), ir.sz) = ir.va
  BY <1>2, <1>6, OperandA DEF Narrowed
<1>8. PICK l2 : SetsTo(mv.code, Res, ir.sz, ir.va, InitialLoc, l2, H0, <<>>)
  <2>1. mv \in GenerateMov(Loc(Res, ir.sz), Narrowed(ir.a))
    BY <1>1, <1>3
  <2>2. \E l2 : SetsTo(mv.code, Res, ir.sz, Value(InitialLoc, Narrowed(ir.a), ir.sz), InitialLoc, l2, H0, <<>>)
    BY <1>3, <1>4, <1>5, <2>1, MovGives
  <2> QED
    BY <1>7, <2>2
<1>9. IRValue = ir.va /\ ResultSize = ir.sz
  BY DEF ResultSize, IRValue, BoolOps, CompareOps
<1>10. \A x \in ir.through : l2[x] = InitialLoc[x]
  BY <1>3, <1>8 DEF Kept, SetsTo
<1>11. CanCompute(c, ResultSize, IRValue)
  BY <1>1, <1>8, <1>9, <1>10 DEF SetsTo, CanCompute
<1> QED
  BY <1>2, <1>11, Computes

(* Two values are the same with a sign iff they are without.                *)
LEMMA SignedInjective ==
  ASSUME NEW sz \in Sizes, NEW v \in Words(sz), NEW w \in Words(sz)
  PROVE  /\ Signed(v, sz) = Signed(w, sz) <=> v = w
         /\ Signed(v, sz) \in Int /\ Signed(w, sz) \in Int /\ v \in Int /\ w \in Int
<1>1. CASE sz = 64
  <2>1. v \in 0 .. 15 /\ w \in 0 .. 15
    BY <1>1, WordsAre
  <2>2. Signed(v, sz) = (IF v >= 8 THEN v - 16 ELSE v) /\ Signed(w, sz) = (IF w >= 8 THEN w - 16 ELSE w)
    BY <1>1, <2>1, SignedIs
  <2> QED
    BY <2>1, <2>2
<1>2. CASE sz # 64
  <2>1. v \in 0 .. 3 /\ w \in 0 .. 3
    BY <1>2, WordsAre
  <2>2. Signed(v, sz) = (IF v >= 2 THEN v - 4 ELSE v) /\ Signed(w, sz) = (IF w >= 2 THEN w - 4 ELSE w)
    BY <1>2, <2>1, SignedIs
  <2> QED
    BY <2>1, <2>2
<1> QED
  BY <1>1, <1>2

(* The outcome of a comparison.                                             *)
CompareBit(cond, v, w, sz) == IF Holds(cond, v, w, sz, ir.signed) THEN 1 ELSE 0

(* The outcome of a comparison is a value of 8 bits.                        *)
LEMMA BitIs ==
  ASSUME NEW cond, NEW v, NEW w, NEW sz
  PROVE  Low(CompareBit(cond, v, w, sz), 8) = CompareBit(cond, v, w, sz)
<1>1. CompareBit(cond, v, w, sz) \in 0 .. 1
  BY DEF CompareBit
<1> QED
  BY <1>1, LowIs DEF Sizes

(* A comparison with setcc, its second operand in a temporary where it has  *)
(* to be, leaves the outcome in the result.                                 *)
LEMMA CompareGives ==
  ASSUME ir \in Cases, ir.op \in OneResultOps, NEW x \in Colors \cap OperandColors, NEW sz \in Sizes,
         NEW b, IsPlain(b), SizesMatch(Loc(x, sz), b), NEW needed \in BOOLEAN,
         IsWideImm(b) \/ (IsMem(Loc(x, sz)) /\ IsMem(b)) => needed, needed => b.sz = sz,
         needed => x \notin Regs \/ x \notin SavedOf(TRUE, {}),
         NEW cond, NEW t \in InTmp(needed, b, TRUE, {}),
         NEW v, v = Value(InitialLoc, Loc(x, sz), sz), NEW w, w = Value(InitialLoc, b, sz)
  PROVE  CanCompute(t.before \o <<I("cmp", Loc(x, sz), t.o), Setcc(cond, Result(8))>> \o t.after,
                    8, CompareBit(cond, v, w, sz))
<1> DEFINE a == Loc(x, sz)
<1>1. /\ Res \in Colors /\ ResultsOf = {Res} /\ ir.through \subseteq Colors \ {Res} /\ Result(8) = Loc(Res, 8)
      /\ RegistersAssumption /\ InitialLoc \in Locs /\ Res \in Places /\ x \in Places
  BY OneResult, InstrIs, Start, RegPlaces DEF Result, Res
<1>2. IsPlain(a) /\ a.sz = sz /\ a.at = x /\ ~IsImm(a) /\ b.sz \in Sizes
  BY <1>1, LocIs, PlainIs DEF IsPlain
<1>3. Prepare(TRUE, {}) # {}
  BY <1>1, SomeTemporary
<1>4. PICK l1 \in Locs : Holding(t, needed, b, TRUE, {}, InitialLoc, l1, H0, <<>>)
  BY <1>1, <1>3, OperandInTmp
<1>5. l1[x] = InitialLoc[x]
  BY <1>1, <1>4 DEF Holding
<1>6. Value(l1, a, sz) = v
  BY <1>2, <1>5 DEF Value
<1>7. Value(l1, t.o, sz) = w /\ IsPlain(t.o)
  <2>1. CASE needed
    BY <1>4, <2>1 DEF Holding
  <2>2. CASE ~needed
    BY <1>4, <2>2 DEF Holding
  <2> QED
    BY <2>1, <2>2
<1>8. Constructible(I("cmp", a, t.o))
  <2>1. CASE needed
    <3>1. t.o.at < NumRegs /\ t.o = Loc(t.o.at, sz)
      BY <1>1, <1>4, <2>1 DEF Holding, Regs, RegistersAssumption
    <3>2. ~IsWideImm(t.o) /\ ~IsMem(t.o) /\ t.o.sz = sz
      BY <3>1, LocIs
    <3> QED
      BY <1>2, <3>2, ALConstructible DEF SizesMatch
  <2>2. CASE ~needed
    BY <1>4, <2>2, ALConstructible DEF Holding
  <2> QED
    BY <2>1, <2>2
<1> DEFINE bit == CompareBit(cond, v, w, sz)
           l2 == [l1 EXCEPT ![Res] = bit]
           f == <<v, w, sz>>
<1>9. Gives(<<I("cmp", a, t.o)>>, l1, H0, <<>>, l1, H0, f)
  <2>1. Gives(<<I("cmp", a, t.o)>>, l1, H0, <<>>, l1, H0, <<Value(l1, a, a.sz), Value(l1, t.o, a.sz), a.sz>>)
    BY <1>2, <1>7, <1>8, GivesCmp
  <2> QED
    BY <1>2, <1>6, <1>7, <2>1
<1>10. Gives(<<Setcc(cond, Result(8))>>, l1, H0, f, l2, H0, f)
  BY <1>1, GivesSetcc DEF CompareBit
<1>11. l2[Res] = bit /\ \A y \in Places : y = Res \/ l2[y] = l1[y]
  BY <1>1 DEF Locs
<1> HIDE DEF l2, f, a
<1>12. <<I("cmp", a, t.o)>> \o <<Setcc(cond, Result(8))>> = <<I("cmp", a, t.o), Setcc(cond, Result(8))>>
  BY OneAndOne
<1>13. Gives(<<I("cmp", a, t.o), Setcc(cond, Result(8))>>, l1, H0, <<>>, l2, H0, f)
  BY <1>9, <1>10, <1>12, GivesThen
<1>14. PICK l3 : /\ Gives(t.before \o <<I("cmp", a, t.o), Setcc(cond, Result(8))>> \o t.after, InitialLoc, H0, <<>>, l3, H0, f)
                 /\ \A y \in ResultsOf : l3[y] = l2[y]
                 /\ \A y \in ir.through \ ResultsOf : l2[y] = l1[y] => l3[y] = InitialLoc[y]
  BY <1>4, <1>13 DEF Holding, Wraps
<1>15. Low(l3[Res], 8) = bit
  BY <1>1, <1>11, <1>14, BitIs
<1>16. \A y \in ir.through : l3[y] = InitialLoc[y]
  BY <1>1, <1>11, <1>14, RegPlaces
<1> QED
  BY <1>14, <1>15, <1>16 DEF a, CanCompute

(* Comparisons of Booleans are translated right.                            *)
LEMMA BoolCompareTranslates ==
  ASSUME ir \in Cases, NEW cond \in {"eq", "neq"}, ir.op = IF cond = "eq" THEN "bool_eq" ELSE "bool_neq",
         NEW c \in TranslateBoolCompare(cond)
  PROVE  Translates(c)
<1> DEFINE a == Unnarrowed(ir.a)
           b == Unnarrowed(ir.b)
           needed == IsMem(a) /\ IsMem(b)
<1>1. ir.op \in OneResultOps /\ ir.op \in BoolBinaryOps /\ SizeOfA(ir) = ir.sz
  BY DEF OneResultOps, BoolBinaryOps, SizeOfA
<1>2. ir.a \in Computed /\ ir.b \in Computed /\ ir.sz \in Sizes /\ ir.signed \in BOOLEAN /\ RegistersAssumption
  <2>1. HasOperands(ir)
    BY InstrIs
  <2>2. ir.a \in Computed /\ ir.b \in Computed
    BY <1>1, <2>1 DEF HasOperands, BoolBinaryOps, CompareOps, IntBinaryOps
  <2> QED
    BY <2>2, InstrIs
<1>3. /\ a = Loc(ir.a.v, ir.sz) /\ b = Loc(ir.b.v, ir.sz) /\ IsPlain(b) /\ SizesMatch(a, b) /\ b.sz = ir.sz
      /\ ir.a.v \in Colors \cap OperandColors /\ ~IsWideImm(b)
  <2>1. ir.a \in Values(ir.sz) /\ ir.b \in Values(ir.sz)
    BY <1>1, OperandsAre
  <2>2. /\ ir.a.v \in Colors /\ a = Loc(ir.a.v, ir.sz) /\ b = Loc(ir.b.v, ir.sz) /\ IsPlain(b) /\ b.sz = ir.sz
        /\ \A x : SizesMatch(Loc(x, ir.sz), b)
    BY <1>2, <2>1, Translated DEF Unnarrowed
  <2> QED
    BY <1>2, <2>2, Start, LocIs
<1>4. PICK t \in InTmp(needed, b, TRUE, {}) : c = t.before \o <<I("cmp", a, t.o), Setcc(cond, Result(8))>> \o t.after
  BY DEF TranslateBoolCompare
<1>5. Value(InitialLoc, a, ir.sz) = ir.va /\ Value(InitialLoc, b, ir.sz) = ir.vb
  BY <1>1, OperandA, OperandB DEF Unnarrowed
<1>6. needed => ir.a.v \notin Regs
  BY <1>2, <1>3, LocIs DEF Regs, RegistersAssumption
<1> HIDE DEF a, b
<1>7. needed \in BOOLEAN
  OBVIOUS
<1> DEFINE n == needed
<1>8. /\ IsWideImm(b) \/ (IsMem(a) /\ IsMem(b)) => n
      /\ n => b.sz = ir.sz
      /\ n => ir.a.v \notin Regs \/ ir.a.v \notin SavedOf(TRUE, {})
      /\ n \in BOOLEAN /\ t \in InTmp(n, b, TRUE, {})
  BY <1>3, <1>4, <1>6, <1>7
<1> HIDE DEF n
<1>9. CanCompute(c, 8, CompareBit(cond, ir.va, ir.vb, ir.sz))
  <2>1. SizesMatch(Loc(ir.a.v, ir.sz), b) /\ IsPlain(b) /\ ir.a.v \in Colors \cap OperandColors /\ ir.sz \in Sizes
    BY <1>2, <1>3
  <2>2. IsWideImm(b) \/ (IsMem(Loc(ir.a.v, ir.sz)) /\ IsMem(b)) => n
    BY <1>3, <1>8
  <2>3. ir.va = Value(InitialLoc, Loc(ir.a.v, ir.sz), ir.sz) /\ ir.vb = Value(InitialLoc, b, ir.sz)
    BY <1>3, <1>5
  <2>4. CanCompute(t.before \o <<I("cmp", Loc(ir.a.v, ir.sz), t.o), Setcc(cond, Result(8))>> \o t.after,
                   8, CompareBit(cond, ir.va, ir.vb, ir.sz))
    BY <1>1, <1>8, <2>1, <2>2, <2>3, CompareGives
  <2> QED
    BY <1>3, <1>4, <2>4
<1>10. Holds(cond, ir.va, ir.vb, ir.sz, ir.signed) <=> IRBool
  <2>1. ir.va \in Words(ir.sz) /\ ir.vb \in Words(ir.sz)
    BY <1>1, Start
  <2>2. /\ Signed(ir.va, ir.sz) = Signed(ir.vb, ir.sz) <=> ir.va = ir.vb
    BY <1>2, <2>1, SignedInjective
  <2> QED
    BY <2>2 DEF Holds, IRBool
<1>11. ResultSize = 8 /\ IRValue = CompareBit(cond, ir.va, ir.vb, ir.sz)
  <2>1. ir.op \in BoolOps
    BY DEF BoolOps
  <2> QED
    BY <1>10, <2>1 DEF ResultSize, IRValue, CompareBit
<1> QED
  BY <1>1, <1>9, <1>11, Computes

(* The bits of a number are 0 or 1.                                         *)
LEMMA BitIsBit ==
  ASSUME NEW v \in Nat
  PROVE  \A i \in {0, 1, 2, 3} : (v \div 2^i) % 2 \in {0, 1}
<1>1. 2^0 = 1 /\ 2^1 = 2 /\ 2^2 = 4 /\ 2^3 = 8
  OBVIOUS
<1>2. \A d \in {1, 2, 4, 8} : (v \div d) % 2 \in {0, 1}
  <2> SUFFICES ASSUME NEW d \in {1, 2, 4, 8} PROVE (v \div d) % 2 \in {0, 1}
    OBVIOUS
  <2>1. v \div d \in Int
    OBVIOUS
  <2> QED
    BY <2>1
<1> QED
  BY <1>1, <1>2

(* Bitwise conjunction and disjunction of Booleans are those of bool_and    *)
(* and bool_or.                                                             *)
LEMMA BitwiseOfBits ==
  ASSUME NEW v \in 0 .. 1, NEW w \in 0 .. 1
  PROVE  /\ BitwiseOf("and", v, w) = IF v = 1 /\ w = 1 THEN 1 ELSE 0
         /\ BitwiseOf("or", v, w) = IF v = 1 \/ w = 1 THEN 1 ELSE 0
<1>1. 2^0 = 1 /\ 2^1 = 2 /\ 2^2 = 4 /\ 2^3 = 8
  OBVIOUS
<1>2. \A x \in 0 .. 1 : /\ (x \div 1) % 2 = x /\ (x \div 2) % 2 = 0
                        /\ (x \div 4) % 2 = 0 /\ (x \div 8) % 2 = 0
  OBVIOUS
<1>3. \A x \in 0 .. 1 : /\ (x \div 2^0) % 2 = x /\ (x \div 2^1) % 2 = 0
                        /\ (x \div 2^2) % 2 = 0 /\ (x \div 2^3) % 2 = 0
  BY <1>1, <1>2
<1>4. BitwiseOf("and", v, w) = v * w + 2 * (0 * 0) + 4 * (0 * 0) + 8 * (0 * 0)
  BY <1>3 DEF BitwiseOf
<1>5. BitwiseOf("or", v, w) = (IF v + w > 0 THEN 1 ELSE 0) + 2 * (IF 0 + 0 > 0 THEN 1 ELSE 0)
                              + 4 * (IF 0 + 0 > 0 THEN 1 ELSE 0) + 8 * (IF 0 + 0 > 0 THEN 1 ELSE 0)
  BY <1>3 DEF BitwiseOf
<1>6. v = 0 \/ v = 1
  OBVIOUS
<1>7. w = 0 \/ w = 1
  OBVIOUS
<1> QED
  BY <1>4, <1>5, <1>6, <1>7

(* The operations whose operands the translators swap are commutative.      *)
LEMMA ComputeCommutes ==
  ASSUME NEW op \in {"add", "and", "or", "xor", "imul", "mul"}, NEW v \in Nat, NEW w \in Nat
  PROVE  Compute(op, v, w) = Compute(op, w, v)
<1>1. CASE op \in {"add", "imul", "mul"}
  BY <1>1 DEF Compute
<1>2. CASE op \in {"and", "or", "xor"}
  <2> DEFINE Of(x, y) == CASE op = "and" -> x * y
                          [] op = "or" -> IF x + y > 0 THEN 1 ELSE 0
                          [] op = "xor" -> (x + y) % 2
  <2>1. \A x, y \in {0, 1} : Of(x, y) = Of(y, x)
    <3>1. \A x, y \in {0, 1} : x * y = y * x /\ x + y = y + x
      OBVIOUS
    <3> QED
      BY <1>2, <3>1
  <2>2. /\ BitwiseOf(op, v, w)
             = Of((v \div 2^0) % 2, (w \div 2^0) % 2) + 2 * Of((v \div 2^1) % 2, (w \div 2^1) % 2)
               + 4 * Of((v \div 2^2) % 2, (w \div 2^2) % 2) + 8 * Of((v \div 2^3) % 2, (w \div 2^3) % 2)
        /\ BitwiseOf(op, w, v)
             = Of((w \div 2^0) % 2, (v \div 2^0) % 2) + 2 * Of((w \div 2^1) % 2, (v \div 2^1) % 2)
               + 4 * Of((w \div 2^2) % 2, (v \div 2^2) % 2) + 8 * Of((w \div 2^3) % 2, (v \div 2^3) % 2)
    BY DEF BitwiseOf
  <2> HIDE DEF Of
  <2>3. \A i \in {0, 1, 2, 3} : Of((v \div 2^i) % 2, (w \div 2^i) % 2) = Of((w \div 2^i) % 2, (v \div 2^i) % 2)
    BY <2>1, BitIsBit
  <2>4. BitwiseOf(op, v, w) = BitwiseOf(op, w, v)
    BY <2>2, <2>3
  <2> QED
    BY <1>2, <2>4 DEF Compute
<1> QED
  BY <1>1, <1>2

(* Conjunctions and disjunctions of Booleans are translated right.          *)
LEMMA BoolLogicTranslates ==
  ASSUME ir \in Cases, ~KnownDefect, NEW op \in {"and", "or"}, ir.op = IF op = "and" THEN "bool_and" ELSE "bool_or",
         NEW k \in TranslateBoolLogic(op)
  PROVE  Translates(k)
<1> DEFINE a == Unnarrowed(ir.a)
           b == Unnarrowed(ir.b)
           res == Loc(Res, 8)
           other == IF res = b THEN a ELSE b
           n == IsMem(a) /\ IsMem(other)
           moved == res = b
           v == IF moved THEN ir.vb ELSE ir.va
           w == IF moved THEN ir.va ELSE ir.vb
<1>1. ir.op \in OneResultOps /\ ir.op \in BoolBinaryOps /\ SizeOfA(ir) = ir.sz
  BY DEF OneResultOps, BoolBinaryOps, SizeOfA
<1>2. ir.a \in Computed /\ ir.b \in Computed /\ ir.sz = 8 /\ 8 \in Sizes /\ RegistersAssumption /\ ir.va \in 0 .. 1 /\ ir.vb \in 0 .. 1
  <2>1. HasOperands(ir) /\ HasValues(ir)
    BY InstrIs
  <2>2. ir.a \in Computed /\ ir.b \in Computed
    BY <1>1, <2>1 DEF HasOperands, BoolBinaryOps, CompareOps, IntBinaryOps
  <2>3. ir.sz = 8 /\ ir.va \in 0 .. 1 /\ ir.vb \in 0 .. 1
    BY <1>1, <2>1 DEF HasValues
  <2> QED
    BY <2>2, <2>3, InstrIs
<1>3. /\ a = Loc(ir.a.v, 8) /\ b = Loc(ir.b.v, 8) /\ IsPlain(a) /\ IsPlain(b) /\ SizesMatch(res, a) /\ SizesMatch(res, b)
      /\ ir.a.v \in Colors \cap OperandColors /\ ir.b.v \in Colors \cap OperandColors
  <2>1. ir.a \in Values(ir.sz) /\ ir.b \in Values(ir.sz)
    BY <1>1, OperandsAre
  <2>2. /\ ir.a.v \in Colors /\ a = Loc(ir.a.v, ir.sz) /\ b = Loc(ir.b.v, ir.sz) /\ IsPlain(b) /\ IsPlain(a)
        /\ \A x : SizesMatch(Loc(x, ir.sz), b) /\ SizesMatch(Loc(x, ir.sz), a)
    BY <1>2, <2>1, Translated DEF Unnarrowed
  <2> QED
    BY <1>2, <2>2, Start
<1>4. Res \in Colors /\ ResultsOf = {Res} /\ ir.through \subseteq Colors \ {Res} /\ Result(8) = res /\ InitialLoc \in Locs
  BY <1>1, OneResult, Start DEF Result, Res
<1>5. k \in MovAndApply(op, res, moved, a, n, other)
  BY <1>4 DEF TranslateBoolLogic
<1>6. Value(InitialLoc, a, 8) = ir.va /\ Value(InitialLoc, b, 8) = ir.vb
  BY <1>1, <1>2, OperandA, OperandB DEF Unnarrowed
<1>7. /\ IsPlain(other) /\ SizesMatch(res, other) /\ other.sz = 8 /\ ~IsWideImm(other)
      /\ other.at \in OperandColors \cap Colors /\ (moved \/ other.at # Res)
  BY <1>3, LocIs
<1>8. w = Value(InitialLoc, other, 8)
  BY <1>6
<1>9. v = IF moved THEN Low(InitialLoc[Res], 8) ELSE Value(InitialLoc, a, 8)
  <2>1. moved => Value(InitialLoc, b, 8) = Low(InitialLoc[Res], 8)
    BY LocIs DEF Value
  <2> QED
    BY <1>6, <2>1
<1>10. IsMem(other) /\ IsMem(res) => n
  <2>1. CASE moved
    BY <2>1
  <2>2. CASE ~moved /\ ~IsMem(a) /\ IsMem(b) /\ IsMem(res)
    <3>1. InMem(Res) /\ InMem(ir.b.v) /\ ~InMem(ir.a.v)
      BY <1>2, <1>3, <1>4, <2>2, LocIs DEF InMem, RegistersAssumption, Colors
    <3>2. ir.b.v # Res
      BY <1>3, <2>2
    <3>3. ir.a.k = "val" /\ ir.b.k = "val"
      BY <1>2, Start
    <3>4. TwoMemOperands
      BY <3>1, <3>2, <3>3 DEF TwoMemOperands, IsVal, OperandInMem
    <3> QED
      BY <3>4 DEF KnownDefect
  <2> QED
    BY <2>1, <2>2
<1>11. moved \in BOOLEAN /\ n \in BOOLEAN
  OBVIOUS
<1>12. ~moved => IsPlain(a) /\ SizesMatch(res, a)
  BY <1>3
<1> HIDE DEF a, b, other, moved, n, v, w
<1>13. CanCompute(k, 8, Low(Compute(op, v, w), 8))
  BY <1>2, <1>4, <1>5, <1>7, <1>8, <1>9, <1>10, <1>11, <1>12, ApplyGives
<1>14. ResultSize = 8 /\ IRValue = Low(Compute(op, v, w), 8)
  <2>1. v \in 0 .. 1 /\ w \in 0 .. 1 /\ (v = 1 /\ w = 1 <=> ir.va = 1 /\ ir.vb = 1) /\ (v = 1 \/ w = 1 <=> ir.va = 1 \/ ir.vb = 1)
    BY <1>2 DEF v, w
  <2>2. Compute(op, v, w) = BitwiseOf(op, v, w)
    BY DEF Compute
  <2>3. BitwiseOf(op, v, w) = IF IRBool THEN 1 ELSE 0
    BY <2>1, BitwiseOfBits DEF IRBool
  <2>4. \A x \in 0 .. 1 : Low(x, 8) = x
    BY LowIs DEF Sizes
  <2>5. ir.op \in BoolOps
    BY DEF BoolOps
  <2>6. (IF IRBool THEN 1 ELSE 0) \in 0 .. 1
    OBVIOUS
  <2>7. Low(Compute(op, v, w), 8) = IF IRBool THEN 1 ELSE 0
    BY <2>2, <2>3, <2>4, <2>6
  <2> QED
    BY <2>5, <2>7 DEF ResultSize, IRValue
<1> QED
  BY <1>1, <1>13, <1>14, Computes

(* Complements and negations are translated right where operand and result  *)
(* have the same place.                                                     *)
LEMMA IntUnaryTranslates ==
  ASSUME ir \in Cases, ~KnownDefect, ir.op \in {"not", "neg"}, NEW k \in TranslateIntUnary(ir.op)
  PROVE  Translates(k)
<1>1. ir.op \in OneResultOps /\ SizeOfA(ir) = ir.sz
  BY DEF OneResultOps, SizeOfA
<1>2. ir.a \in Computed /\ ir.sz \in Sizes
  <2>1. HasOperands(ir)
    BY InstrIs
  <2> QED
    BY <2>1, InstrIs DEF HasOperands, BoolBinaryOps, CompareOps, IntBinaryOps
<1>3. Res \in Colors /\ ResultsOf = {Res} /\ ir.through \subseteq Colors \ {Res} /\ Result(ir.sz) = Loc(Res, ir.sz) /\ InitialLoc \in Locs
      /\ Res \in Places
  BY <1>1, OneResult, Start, RegPlaces, InstrIs DEF Result, Res
<1>4. Narrowed(ir.a) = Loc(Res, ir.sz)
  <2>1. IsVal(ir.a, Res)
    BY DEF KnownDefect, UnaryOnOperand
  <2>2. Narrowed(ir.a) = Loc(ir.a.v, ir.sz)
    BY <1>1, <1>2, OperandsAre, Translated DEF Narrowed
  <2> QED
    BY <2>1, <2>2 DEF IsVal
<1>5. k = <<>> \o <<I(ir.op, Loc(Res, ir.sz), None)>>
  <2>1. GenerateMov(Loc(Res, ir.sz), Loc(Res, ir.sz)) = {[code |-> <<>>, taken |-> {}]}
    BY DEF GenerateMov
  <2> QED
    BY <1>3, <1>4, <2>1 DEF TranslateIntUnary
<1>6. Value(InitialLoc, Loc(Res, ir.sz), ir.sz) = ir.va
  <2>1. ~NarrowsWrongly(ir.a)
    BY <1>2, Start DEF NarrowsWrongly
  <2> QED
    BY <1>1, <1>4, <2>1, OperandA DEF Narrowed
<1> DEFINE v == Low(Compute(ir.op, ir.va, 0), ir.sz)
           l == [InitialLoc EXCEPT ![Res] = v]
<1>7. Gives(<<I(ir.op, Loc(Res, ir.sz), None)>>, InitialLoc, H0, <<>>, l, H0, <<>>) /\ l \in Locs
  BY <1>2, <1>3, <1>6, GivesUnary
<1>8. l[Res] = v /\ \A x \in Places : x = Res \/ l[x] = InitialLoc[x]
  BY <1>3 DEF Locs
<1>9. Low(v, ir.sz) = v
  <2>1. Compute(ir.op, ir.va, 0) \in Int
    <3>1. ir.va \in Nat /\ 0 \in Nat /\ ir.op \in ALOps \cup {"not", "neg", "mul"}
      BY Start
    <3> QED
      BY <3>1, ComputeType
  <2>2. v \in Words(ir.sz)
    BY <1>2, <2>1, LowIs
  <2> QED
    BY <1>2, <2>2, LowOfWord
<1>10. IRValue = v /\ ResultSize = ir.sz
  <2>1. ir.op \notin BoolOps /\ ir.op \notin {"mov", "load", "offset"}
    BY DEF BoolOps, CompareOps
  <2>2. Compute(ir.op, ir.va, 0) = Compute(ir.op, ir.va, ir.vb)
    BY DEF Compute
  <2> QED
    BY <2>1, <2>2 DEF IRValue, ResultSize
<1> HIDE DEF l, v
<1>11. Gives(k, InitialLoc, H0, <<>>, l, H0, <<>>)
  BY <1>3, <1>5, <1>7, GivesNothing, GivesThen
<1>12. \A x \in ir.through : l[x] = InitialLoc[x]
  BY <1>3, <1>8, RegPlaces, InstrIs
<1>13. CanCompute(k, ResultSize, IRValue)
  BY <1>8, <1>9, <1>10, <1>11, <1>12 DEF CanCompute
<1> QED
  BY <1>1, <1>13, Computes

(* The operands of integer instructions and pointer offsets, outside the    *)
(* known defects.                                                           *)
LEMMA IntOperands ==
  ASSUME ir \in Cases, ~KnownDefect, ir.op \in CompareOps \cup IntBinaryOps \cup {"offset"}
  PROVE  /\ SizeOfA(ir) = ir.sz /\ ir.a \in Values(ir.sz) /\ ir.b \in Values(ir.sz) /\ ir.sz \in Sizes
         /\ ir.a \in Computed \/ ir.b \in Computed
         /\ ~NarrowsWrongly(ir.a) /\ ~NarrowsWrongly(ir.b)
         /\ ir.a \in Computed <=> ir.a.k # "const"
         /\ Value(InitialLoc, Narrowed(ir.a), ir.sz) = ir.va /\ Value(InitialLoc, Narrowed(ir.b), ir.sz) = ir.vb
         /\ ir.op \in OneResultOps
         /\ ir.op \in BoolOps <=> ir.op \in CompareOps
<1>1. HasOperands(ir) /\ ir.sz \in Sizes
  BY InstrIs
<1>2. SizeOfA(ir) = ir.sz
  <2>1. ir.op = "offset" => ir.sz = 64
    BY InstrIs DEF HasValues
  <2> QED
    BY <2>1 DEF SizeOfA, CompareOps, IntBinaryOps
<1>3. ir.a \in Values(ir.sz) /\ ir.b \in Values(ir.sz)
  BY <1>2, OperandsAre
<1>4. ir.a \in Computed \/ ir.b \in Computed
  BY <1>1 DEF HasOperands, BoolBinaryOps, CompareOps, IntBinaryOps
<1>5. ~NarrowsWrongly(ir.a) /\ ~NarrowsWrongly(ir.b)
  BY DEF KnownDefect, NarrowedUnsigned, NarrowsWrongly
<1>6. ir.a \in Computed <=> ir.a.k # "const"
  BY Start
<1>7. Value(InitialLoc, Narrowed(ir.a), ir.sz) = ir.va /\ Value(InitialLoc, Narrowed(ir.b), ir.sz) = ir.vb
  BY <1>2, <1>5, OperandA, OperandB DEF Narrowed
<1>8. ir.op \in OneResultOps
  BY DEF OneResultOps
<1>9. ir.op \in BoolOps <=> ir.op \in CompareOps
  BY DEF BoolOps, CompareOps, IntBinaryOps
<1> QED
  BY <1>1, <1>2, <1>3, <1>4, <1>5, <1>6, <1>7, <1>8, <1>9

(* The flipped condition on swapped operands is the condition.              *)
LEMMA HoldsFlipped ==
  ASSUME NEW cond \in CompareOps, NEW sz \in Sizes, NEW v \in Words(sz), NEW w \in Words(sz), NEW signed \in BOOLEAN
  PROVE  Holds(Flipped[cond], w, v, sz, signed) <=> Holds(cond, v, w, sz, signed)
<1> DEFINE x == IF signed THEN Signed(v, sz) ELSE v
           y == IF signed THEN Signed(w, sz) ELSE w
<1>1. x \in Int /\ y \in Int
  BY SignedInjective
<1> DEFINE H(c, p, q) == CASE c = "eq" -> p = q [] c = "neq" -> p # q
                          [] c = "lss" -> p < q [] c = "leq" -> p <= q
                          [] c = "gtr" -> p > q [] c = "geq" -> p >= q
<1>2. Holds(cond, v, w, sz, signed) = H(cond, x, y) /\ Holds(Flipped[cond], w, v, sz, signed) = H(Flipped[cond], y, x)
  BY DEF Holds
<1> HIDE DEF x, y
<1>3. H(Flipped[cond], y, x) <=> H(cond, x, y)
  <2>1. CASE cond \in {"eq", "neq"}
    <3>1. Flipped[cond] = cond
      BY <2>1 DEF Flipped
    <3> QED
      BY <2>1, <3>1
  <2>2. CASE cond \in {"lss", "gtr"}
    <3>1. Flipped[cond] = IF cond = "lss" THEN "gtr" ELSE "lss"
      BY <2>2 DEF Flipped
    <3> QED
      BY <1>1, <2>2, <3>1
  <2>3. CASE cond \in {"leq", "geq"}
    <3>1. Flipped[cond] = IF cond = "leq" THEN "geq" ELSE "leq"
      BY <2>3 DEF Flipped
    <3> QED
      BY <1>1, <2>3, <3>1
  <2> QED
    BY <2>1, <2>2, <2>3 DEF CompareOps
<1> QED
  BY <1>2, <1>3

(* Comparisons of integers are translated right, whichever operand is the   *)
(* constant.                                                                *)
LEMMA IntCompareTranslates ==
  ASSUME ir \in Cases, ~KnownDefect, ir.op \in CompareOps, NEW k \in TranslateIntCompare(ir.op)
  PROVE  Translates(k)
<1> DEFINE swap == ir.a.k = "const"
           p == IF swap THEN ir.b ELSE ir.a
           q == IF swap THEN ir.a ELSE ir.b
           a == Narrowed(p)
           b == Narrowed(q)
           n == IsWideImm(b) \/ (IsMem(a) /\ IsMem(b))
           cond == IF swap THEN Flipped[ir.op] ELSE ir.op
           v == IF swap THEN ir.vb ELSE ir.va
           w == IF swap THEN ir.va ELSE ir.vb
<1>1. /\ p \in Computed /\ p \in Values(ir.sz) /\ q \in Values(ir.sz) /\ ir.sz \in Sizes
      /\ Value(InitialLoc, a, ir.sz) = v /\ Value(InitialLoc, b, ir.sz) = w
      /\ ir.op \in OneResultOps /\ ir.op \in BoolOps /\ RegistersAssumption
      /\ v \in Words(ir.sz) /\ w \in Words(ir.sz) /\ ir.signed \in BOOLEAN
  <2>1. ir.va \in Words(ir.sz) /\ ir.vb \in Words(ir.sz)
    BY IntOperands, Start
  <2> QED
    BY <2>1, IntOperands, InstrIs
<1>2. /\ p.v \in Colors \cap OperandColors /\ a = Loc(p.v, ir.sz)
      /\ IsPlain(b) /\ SizesMatch(a, b)
      /\ n => b.sz = ir.sz
  <2>1. p.v \in Colors /\ a = Loc(p.v, ir.sz)
    BY <1>1, Translated DEF Narrowed
  <2>2. /\ IsPlain(b) /\ \A x : SizesMatch(Loc(x, ir.sz), b)
        /\ q \in Computed => b.sz = ir.sz
        /\ q \notin Computed => IsImm(b) /\ (b.sz # ir.sz => b.sz = 32)
    <3>1. TRUE \in BOOLEAN /\ b = TranslateValue(q, ir.sz, ir.signed, TRUE)
      BY DEF Narrowed
    <3> HIDE DEF b, q, n
    <3> QED
      BY <1>1, <3>1, Translated
  <2>3. p.v \in OperandColors
    BY <1>1, Start
  <2>4. n => b.sz = ir.sz
    <3>1. IsImm(b) => ~IsMem(b)
      BY DEF IsImm, IsMem
    <3>2. ASSUME IsWideImm(b) PROVE b.sz = ir.sz
      BY <2>2, <3>2 DEF IsWideImm
    <3> QED
      BY <2>2, <3>1, <3>2
  <2> QED
    BY <2>1, <2>2, <2>3, <2>4
<1>3. PICK t \in InTmp(n, b, TRUE, {}) : k = t.before \o <<I("cmp", a, t.o), Setcc(cond, Result(8))>> \o t.after
  BY DEF TranslateIntCompare
<1>4. n => p.v \notin Regs \/ p.v \notin SavedOf(TRUE, {})
  <2>1. SUFFICES ASSUME n, p.v \in Regs, p.v \in SavedOf(TRUE, {}) PROVE FALSE
    OBVIOUS
  <2>2. ~IsMem(a)
    BY <1>1, <1>2, <2>1, LocIs DEF Regs, RegistersAssumption
  <2>3. IsWideImm(b)
    BY <2>1, <2>2
  <2>4. IsIn(p, SavedTmp(TRUE))
    <3>1. p.k = "val"
      BY <1>1, Start
    <3> QED
      BY <2>1, <3>1 DEF IsIn, SavedTmp, SavedOf
  <2>5. p \in {ir.a, ir.b} /\ q \in {ir.a, ir.b}
    OBVIOUS
  <2> HIDE DEF p, q
  <2>6. TmpHoldsOperand
    BY <2>3, <2>4, <2>5 DEF TmpHoldsOperand
  <2> QED
    BY <2>6 DEF KnownDefect
<1>5. n \in BOOLEAN /\ (IsWideImm(b) \/ (IsMem(a) /\ IsMem(b)) => n)
  OBVIOUS
<1> HIDE DEF p, q, a, b, n, cond, v, w
<1>6. CanCompute(k, 8, CompareBit(cond, v, w, ir.sz))
  <2>1. t.before \o <<I("cmp", Loc(p.v, ir.sz), t.o), Setcc(cond, Result(8))>> \o t.after = k
    BY <1>2, <1>3
  <2>2. SizesMatch(Loc(p.v, ir.sz), b) /\ (IsWideImm(b) \/ (IsMem(Loc(p.v, ir.sz)) /\ IsMem(b)) => n)
    BY <1>2, <1>5
  <2>3. v = Value(InitialLoc, Loc(p.v, ir.sz), ir.sz)
    BY <1>1, <1>2
  <2>4. CanCompute(t.before \o <<I("cmp", Loc(p.v, ir.sz), t.o), Setcc(cond, Result(8))>> \o t.after,
                   8, CompareBit(cond, v, w, ir.sz))
    BY <1>1, <1>2, <1>4, <1>5, <2>2, <2>3, CompareGives
  <2> QED
    BY <2>1, <2>4
<1>7. ResultSize = 8 /\ IRValue = CompareBit(cond, v, w, ir.sz)
  <2>1. Holds(cond, v, w, ir.sz, ir.signed) <=> Holds(ir.op, ir.va, ir.vb, ir.sz, ir.signed)
    <3>1. CASE swap
      BY <1>1, <3>1, HoldsFlipped DEF cond, v, w
    <3>2. CASE ~swap
      BY <3>2 DEF cond, v, w
    <3> QED
      BY <3>1, <3>2
  <2>2. IRBool <=> Holds(ir.op, ir.va, ir.vb, ir.sz, ir.signed)
    BY DEF IRBool, CompareOps
  <2>3. Holds(cond, v, w, ir.sz, ir.signed) <=> IRBool
    BY <2>1, <2>2, Zenon
  <2>4. ResultSize = 8 /\ IRValue = IF IRBool THEN 1 ELSE 0
    <3>1. ir.op \in BoolOps /\ ir.op \notin {"mov", "load", "offset"}
      BY <1>1 DEF CompareOps
    <3> QED
      BY <3>1 DEF ResultSize, IRValue
  <2>5. CompareBit(cond, v, w, ir.sz) = IF IRBool THEN 1 ELSE 0
    BY <2>3 DEF CompareBit
  <2> QED
    BY <2>4, <2>5, Zenon
<1> QED
  BY <1>1, <1>6, <1>7, Computes

(* Tests for nil are translated right.                                      *)
LEMMA NilTestTranslates ==
  ASSUME ir \in Cases, ir.op = "niltest", NEW k \in TranslateNilTest
  PROVE  Translates(k)
<1> DEFINE b == Imm(0, 32)
           n == b.sz = 64
           t == [o |-> b, before |-> <<>>, after |-> <<>>]
<1>1. ir.op \in OneResultOps /\ ir.op \in BoolOps /\ SizeOfA(ir) = 64 /\ 64 \in Sizes
  BY DEF OneResultOps, BoolOps, SizeOfA, Sizes
<1>2. ir.a \in Computed
  <2>1. HasOperands(ir)
    BY InstrIs
  <2> QED
    BY <2>1 DEF HasOperands, BoolBinaryOps, CompareOps, IntBinaryOps
<1>3. Pointer(ir.a) = Loc(ir.a.v, 64) /\ ir.a.v \in Colors \cap OperandColors /\ InitialLoc[ir.a.v] = ir.va
  BY <1>2, Start DEF Pointer
<1>4. IsPlain(b) /\ SizesMatch(Loc(ir.a.v, 64), b) /\ ~IsWideImm(b) /\ ~IsMem(b) /\ b.sz = 32 /\ IsImm(b)
  BY LocIs DEF IsPlain, Imm, SizesMatch, IsImm, IsWideImm, IsMem, Sizes
<1>5. Value(InitialLoc, Loc(ir.a.v, 64), 64) = ir.va
  <2>1. Low(ir.va, 64) = ir.va
    BY <1>1, Start, LowOfWord
  <2> QED
    BY <1>3, <2>1, LocIs DEF Value
<1>6. Value(InitialLoc, b, 64) = 0
  <2>1. Signed(0, 32) = 0 /\ Low(0, 64) = 0
    BY SignedIs, LowIs DEF Sizes
  <2>2. b.at = 0 /\ b.sz = 32
    BY DEF Imm
  <2> QED
    BY <1>4, <2>1, <2>2 DEF Value
<1>7. ~n /\ n \in BOOLEAN /\ t \in InTmp(n, b, TRUE, {}) /\ t.o = b /\ t.before = <<>> /\ t.after = <<>>
  <2>1. ~n /\ n \in BOOLEAN
    BY <1>4
  <2> HIDE DEF n
  <2> QED
    BY <2>1 DEF InTmp
<1> HIDE DEF b, t, n
<1>8. CanCompute(t.before \o <<I("cmp", Loc(ir.a.v, 64), t.o), Setcc("eq", Result(8))>> \o t.after,
                 8, CompareBit("eq", ir.va, 0, 64))
  <2>1. /\ IsWideImm(b) \/ (IsMem(Loc(ir.a.v, 64)) /\ IsMem(b)) => n
        /\ n => b.sz = 64
        /\ n => ir.a.v \notin Regs \/ ir.a.v \notin SavedOf(TRUE, {})
    BY <1>4, <1>7
  <2>2. ir.va = Value(InitialLoc, Loc(ir.a.v, 64), 64) /\ 0 = Value(InitialLoc, b, 64)
    BY <1>5, <1>6
  <2> DEFINE cond == "eq"
             sz == 64
             zero == 0
  <2>3. /\ sz \in Sizes
        /\ IsWideImm(b) \/ (IsMem(Loc(ir.a.v, sz)) /\ IsMem(b)) => n
        /\ n => b.sz = sz
        /\ SizesMatch(Loc(ir.a.v, sz), b)
        /\ ir.va = Value(InitialLoc, Loc(ir.a.v, sz), sz) /\ zero = Value(InitialLoc, b, sz)
    BY <1>1, <1>4, <2>1, <2>2
  <2> HIDE DEF cond, sz, zero
  <2>4. CanCompute(t.before \o <<I("cmp", Loc(ir.a.v, sz), t.o), Setcc(cond, Result(8))>> \o t.after,
                   8, CompareBit(cond, ir.va, zero, sz))
    BY <1>1, <1>3, <1>4, <1>7, <2>1, <2>3, CompareGives
  <2> QED
    BY <2>4 DEF cond, sz, zero
<1>9. k = t.before \o <<I("cmp", Loc(ir.a.v, 64), t.o), Setcc("eq", Result(8))>> \o t.after
  <2>1. k = <<I("cmp", Loc(ir.a.v, 64), b), Setcc("eq", Result(8))>>
    BY <1>3 DEF TranslateNilTest, b
  <2>2. \A x, y : <<>> \o <<x, y>> \o <<>> = <<x, y>>
    <3> SUFFICES ASSUME NEW x, NEW y PROVE <<>> \o <<x, y>> \o <<>> = <<x, y>>
      OBVIOUS
    <3>1. <<x, y>> \in Seq({x, y})
      OBVIOUS
    <3> QED
      BY <3>1, ConcatEmptySeq
  <2> QED
    BY <1>7, <2>1, <2>2
<1>10. ResultSize = 8 /\ IRValue = CompareBit("eq", ir.va, 0, 64)
  <2>1. 0 \in Words(64) /\ ir.va \in Words(64)
    BY <1>1, Start, WordsAre
  <2>2. Signed(ir.va, 64) = Signed(0, 64) <=> ir.va = 0
    BY <1>1, <2>1, SignedInjective
  <2>3. Holds("eq", ir.va, 0, 64, ir.signed) <=> ir.va = 0
    BY <2>2, InstrIs DEF Holds
  <2> QED
    BY <1>1, <2>3 DEF ResultSize, IRValue, IRBool, CompareBit
<1> QED
  BY <1>1, <1>8, <1>9, <1>10, Computes

(* The operand of the processor for an operand that may be narrowed.        *)
LEMMA NarrowedIs ==
  ASSUME ir \in Cases, NEW x \in Values(ir.sz), NEW o, o = Narrowed(x)
  PROVE  /\ IsPlain(o) /\ \A c : SizesMatch(Loc(c, ir.sz), o)
         /\ x \in Computed => x.v \in Colors /\ o = Loc(x.v, ir.sz) /\ o.sz = ir.sz /\ ~IsImm(o) /\ o.at = x.v
         /\ x \notin Computed => IsImm(o) /\ ~IsMem(o) /\ (o.sz # ir.sz => ir.sz = 64 /\ o.sz = 32)
         /\ IsImm(o) <=> x \notin Computed
         /\ IsWideImm(o) \/ IsMem(o) => o.sz = ir.sz
<1>1. TRUE \in BOOLEAN /\ o = TranslateValue(x, ir.sz, ir.signed, TRUE)
  BY DEF Narrowed
<1>2. /\ IsPlain(o) /\ \A c : SizesMatch(Loc(c, ir.sz), o)
      /\ x \in Computed => x.v \in Colors /\ o = Loc(x.v, ir.sz) /\ o.sz = ir.sz /\ ~IsImm(o) /\ o.at = x.v
      /\ x \notin Computed => IsImm(o) /\ (o.sz # ir.sz => ir.sz = 64 /\ o.sz = 32)
  BY <1>1, Translated
<1>3. IsImm(o) => ~IsMem(o)
  BY DEF IsImm, IsMem
<1>4. IsWideImm(o) => o.sz = ir.sz
  BY <1>2 DEF IsWideImm
<1> QED
  BY <1>2, <1>3, <1>4

(* Additions and bitwise operations are translated right.                   *)
LEMMA IntCommutativeALTranslates ==
  ASSUME ir \in Cases, ~KnownDefect, ir.op \in {"add", "and", "or", "xor"}, NEW k \in TranslateIntCommutativeAL(ir.op)
  PROVE  Translates(k)
<1> DEFINE swap == IsImm(Narrowed(ir.a))
           p == IF swap THEN ir.b ELSE ir.a
           q == IF swap THEN ir.a ELSE ir.b
           a == Narrowed(p)
           b == Narrowed(q)
           res == Loc(Res, ir.sz)
           other == IF res = b THEN a ELSE b
           moved == res = b
           n == IsWideImm(other) \/ (IsMem(other) /\ IsMem(res))
           va == IF swap THEN ir.vb ELSE ir.va
           vb == IF swap THEN ir.va ELSE ir.vb
           v == IF moved THEN vb ELSE va
           w == IF moved THEN va ELSE vb
<1>1. /\ ir.op \in OneResultOps /\ ir.op \notin BoolOps /\ ir.op \in {"and", "or", "xor", "add", "sub"}
      /\ ir.sz \in Sizes /\ RegistersAssumption
      /\ ir.op \in IntBinaryOps
  BY InstrIs DEF OneResultOps, IntBinaryOps, BoolOps, CompareOps
<1>2. /\ p \in Computed /\ p \in Values(ir.sz) /\ q \in Values(ir.sz)
      /\ Value(InitialLoc, a, ir.sz) = va /\ Value(InitialLoc, b, ir.sz) = vb
  <2>1. ir.a \in Values(ir.sz) /\ ir.b \in Values(ir.sz) /\ (ir.a \in Computed \/ ir.b \in Computed)
    BY <1>1, IntOperands
  <2>2. swap <=> ir.a \notin Computed
    BY <2>1, NarrowedIs
  <2> QED
    BY <1>1, <2>1, <2>2, IntOperands
<1>3. Res \in Colors /\ ResultsOf = {Res} /\ ir.through \subseteq Colors \ {Res} /\ Result(ir.sz) = res /\ InitialLoc \in Locs
  BY <1>1, OneResult, Start DEF Result, Res
<1>4. k \in MovAndApply(ir.op, res, moved, a, n, other)
  BY <1>3 DEF TranslateIntCommutativeAL
<1>5. p.v \in Colors \cap OperandColors /\ (q \in Computed => q.v \in Colors \cap OperandColors)
  BY <1>2, Start
<1>6. /\ IsPlain(a) /\ SizesMatch(res, a) /\ a = Loc(p.v, ir.sz) /\ ~IsImm(a) /\ a.at = p.v /\ a.sz = ir.sz
      /\ IsPlain(b) /\ SizesMatch(res, b)
      /\ q \in Computed => b = Loc(q.v, ir.sz) /\ ~IsImm(b) /\ b.at = q.v
      /\ q \notin Computed => IsImm(b)
      /\ IsWideImm(b) \/ IsMem(b) => b.sz = ir.sz
  BY <1>2, NarrowedIs
<1> HIDE DEF a, b, p, q, va, vb, res, swap
<1>7. /\ IsPlain(other) /\ SizesMatch(res, other)
      /\ n => other.sz = ir.sz
      /\ ~IsImm(other) => other.at \in OperandColors \cap Colors /\ (moved \/ other.at # Res)
  <2>1. CASE moved
    BY <1>5, <1>6, <2>1
  <2>2. CASE ~moved
    <3>1. ~IsImm(b) => b.at \in OperandColors \cap Colors /\ b.at # Res
      <4>1. SUFFICES ASSUME ~IsImm(b) PROVE b.at \in OperandColors \cap Colors /\ b.at # Res
        OBVIOUS
      <4>2. q \in Computed /\ b = Loc(q.v, ir.sz) /\ b.at = q.v
        BY <1>6, <4>1
      <4> QED
        BY <1>5, <2>2, <4>2 DEF res
    <3> QED
      BY <1>6, <2>2, <3>1
  <2> QED
    BY <2>1, <2>2
<1>8. w = Value(InitialLoc, other, ir.sz)
  BY <1>2
<1>9. v = IF moved THEN Low(InitialLoc[Res], ir.sz) ELSE Value(InitialLoc, a, ir.sz)
  <2>1. moved => Value(InitialLoc, b, ir.sz) = Low(InitialLoc[Res], ir.sz)
    BY LocIs DEF Value, res
  <2> QED
    BY <1>2, <2>1
<1>10. moved \in BOOLEAN /\ n \in BOOLEAN /\ (IsWideImm(other) \/ (IsMem(other) /\ IsMem(res)) => n)
       /\ (~moved => IsPlain(a) /\ SizesMatch(res, a))
  BY <1>6
<1> HIDE DEF other, moved, n, v, w
<1>11. CanCompute(k, ir.sz, Low(Compute(ir.op, v, w), ir.sz))
  <2> DEFINE op == ir.op
             sz == ir.sz
  <2>1. /\ op \in {"and", "or", "xor", "add", "sub"} /\ sz \in Sizes
        /\ IsPlain(other) /\ SizesMatch(Loc(Res, sz), other)
        /\ n => other.sz = sz
        /\ ~IsImm(other) => other.at \in OperandColors \cap Colors /\ (moved \/ other.at # Res)
        /\ w = Value(InitialLoc, other, sz)
        /\ v = IF moved THEN Low(InitialLoc[Res], sz) ELSE Value(InitialLoc, a, sz)
        /\ moved \in BOOLEAN /\ n \in BOOLEAN
        /\ IsWideImm(other) \/ (IsMem(other) /\ IsMem(Loc(Res, sz))) => n
        /\ ~moved => IsPlain(a) /\ SizesMatch(Loc(Res, sz), a)
        /\ k \in MovAndApply(op, Loc(Res, sz), moved, a, n, other)
    BY <1>1, <1>4, <1>7, <1>8, <1>9, <1>10 DEF res
  <2> HIDE DEF op, sz
  <2>2. CanCompute(k, sz, Low(Compute(op, v, w), sz))
    BY <1>1, <1>3, <2>1, ApplyGives
  <2> QED
    BY <2>2 DEF op, sz
<1>12. ResultSize = ir.sz /\ IRValue = Low(Compute(ir.op, v, w), ir.sz)
  <2>1. ir.va \in Nat /\ ir.vb \in Nat
    BY Start
  <2>2. Compute(ir.op, ir.va, ir.vb) = Compute(ir.op, ir.vb, ir.va)
    BY <2>1, ComputeCommutes
  <2>3. Compute(ir.op, v, w) = Compute(ir.op, ir.va, ir.vb)
    BY <2>2 DEF v, w, va, vb
  <2>4. ir.op \notin {"mov", "load", "offset"}
    OBVIOUS
  <2> QED
    BY <1>1, <2>3, <2>4 DEF ResultSize, IRValue
<1> QED
  BY <1>1, <1>11, <1>12, Computes

(* Pointer offsets are translated right.                                    *)
LEMMA PointerOffsetTranslates ==
  ASSUME ir \in Cases, ~KnownDefect, ir.op = "offset", NEW k \in TranslatePointerOffset
  PROVE  Translates(k)
<1> DEFINE a == Pointer(ir.a)
           b == Narrowed(ir.b)
           res == Loc(Res, 64)
           other == IF res = b THEN a ELSE b
           moved == res = b
           n == IsWideImm(other) \/ (IsMem(a) /\ IsMem(res))
           v == IF moved THEN ir.vb ELSE ir.va
           w == IF moved THEN ir.va ELSE ir.vb
<1>1. ir.op \in OneResultOps /\ ir.op \notin BoolOps /\ ir.op \in CompareOps \cup IntBinaryOps \cup {"offset"}
  BY DEF OneResultOps, BoolOps, CompareOps
<1>2. /\ ir.sz = 64 /\ 64 \in Sizes /\ RegistersAssumption /\ ir.a \in Values(64) /\ ir.b \in Values(64)
      /\ ir.a \in Computed \/ ir.b \in Computed
      /\ Value(InitialLoc, b, 64) = ir.vb
  <2>1. ir.sz = 64
    BY InstrIs DEF HasValues
  <2> QED
    BY <1>1, <2>1, IntOperands, InstrIs
<1>3. Res \in Colors /\ ResultsOf = {Res} /\ ir.through \subseteq Colors \ {Res} /\ Result(64) = res /\ InitialLoc \in Locs
  BY <1>1, OneResult, Start DEF Result, Res
<1>4. k \in MovAndApply("add", res, moved, a, n, other)
  BY <1>3 DEF TranslatePointerOffset
<1>5. /\ IsPlain(a) /\ SizesMatch(res, a) /\ Value(InitialLoc, a, 64) = ir.va
      /\ ir.a \in Computed => a = Loc(ir.a.v, 64) /\ ir.a.v \in Colors \cap OperandColors /\ ~IsImm(a) /\ a.at = ir.a.v /\ a.sz = 64
      /\ ir.a \notin Computed => IsImm(a) /\ ~IsMem(a)
      /\ IsWideImm(a) => a.sz = 64
  <2>1. CASE ir.a \in Computed
    <3>1. a = Loc(ir.a.v, 64) /\ ir.a.v \in Colors \cap OperandColors /\ InitialLoc[ir.a.v] = ir.va
      BY <2>1, Start DEF Pointer
    <3>2. Low(ir.va, 64) = ir.va
      <4>1. ir.va \in Words(64)
        BY <1>2, Start DEF SizeOfA
      <4> QED
        BY <1>2, <4>1, LowOfWord
    <3>3. IsPlain(a) /\ SizesMatch(res, a)
      BY <1>2, <3>1, RegPlaces, LocIs DEF IsPlain, SizesMatch
    <3>4. Value(InitialLoc, a, 64) = ir.va
      BY <3>1, <3>2, LocIs DEF Value
    <3> QED
      BY <2>1, <3>1, <3>3, <3>4, LocIs
  <2>2. CASE ir.a \notin Computed
    <3>1. ir.a.k = "const" /\ ir.va = ir.a.v /\ ir.a.v \in 0 .. 15
      BY <2>2, Start
    <3>2. a = IF ir.a.v = 0 THEN Imm(0, 32) ELSE Imm(ir.a.v, 64)
      BY <3>1 DEF Pointer
    <3>3. IsImm(a) /\ ~IsMem(a) /\ a.at = ir.a.v /\ (a.sz = 64 \/ (a.sz = 32 /\ ir.a.v = 0)) /\ IsPlain(a)
      BY <3>1, <3>2 DEF Imm, IsImm, IsMem, IsPlain, Sizes
    <3>4. SizesMatch(res, a)
      BY <3>3, LocIs DEF SizesMatch
    <3>5. Value(InitialLoc, a, 64) = ir.va
      <4>1. Value(InitialLoc, a, 64) = Low(Signed(ir.a.v, a.sz), 64)
        BY <3>3 DEF Value
      <4>2. CASE a.sz = 64
        <5>1. Signed(ir.a.v, 64) = (IF ir.a.v >= 8 THEN ir.a.v - 16 ELSE ir.a.v) /\ Signed(ir.a.v, 64) \in Int
          BY <1>2, <3>1, SignedIs
        <5>2. Low(Signed(ir.a.v, 64), 64) = Signed(ir.a.v, 64) % 16
          BY <1>2, <5>1, LowIs
        <5> QED
          BY <3>1, <4>1, <4>2, <5>1, <5>2
      <4>3. CASE a.sz = 32 /\ ir.a.v = 0
        <5>1. Signed(0, 32) = 0 /\ Low(0, 64) = 0
          BY SignedIs, LowIs DEF Sizes
        <5> QED
          BY <3>1, <4>1, <4>3, <5>1
      <4> QED
        BY <3>3, <4>2, <4>3
    <3> QED
      BY <2>2, <3>3, <3>4, <3>5 DEF IsWideImm
  <2> QED
    BY <2>1, <2>2
<1>6. /\ IsPlain(b) /\ SizesMatch(res, b)
      /\ ir.b \in Computed => b = Loc(ir.b.v, 64) /\ ir.b.v \in Colors \cap OperandColors /\ ~IsImm(b) /\ b.at = ir.b.v /\ b.sz = 64
      /\ ir.b \notin Computed => IsImm(b) /\ ~IsMem(b)
      /\ IsWideImm(b) => b.sz = 64
  BY <1>2, NarrowedIs, Start
<1>7. ~TwoMemOperands
  BY DEF KnownDefect
<1>8. /\ n => other.sz = 64
      /\ IsWideImm(other) \/ (IsMem(other) /\ IsMem(res)) => n
  <2>1. CASE moved
    <3>1. other = a
      BY <2>1
    <3>2. IsMem(a) => a.sz = 64
      BY <1>5
    <3> QED
      BY <1>5, <3>1, <3>2
  <2>2. CASE ~moved
    <3>1. other = b
      BY <2>2
    <3>2. ASSUME IsMem(res) PROVE /\ IsMem(a) => ir.b \in Computed \/ IsWideImm(b)
                                  /\ IsMem(b) => IsMem(a)
      <4>1. InMem(Res)
        BY <1>2, <1>3, <3>2, LocIs DEF InMem, RegistersAssumption, Colors
      <4>2. ~IsVal(ir.b, Res)
        <5>1. ir.b \in Computed => ir.b.v # Res
          BY <1>6, <2>2
        <5>2. ir.b \notin Computed => ir.b.k = "const"
          BY Start
        <5> QED
          BY <5>1, <5>2 DEF IsVal
      <4>3. OperandInMem(ir.a) <=> IsMem(a)
        <5>1. CASE ir.a \in Computed
          BY <1>2, <1>5, <5>1, Start, LocIs DEF OperandInMem, InMem, RegistersAssumption, Colors
        <5>2. CASE ir.a \notin Computed
          BY <1>5, <5>2, Start DEF OperandInMem
        <5> QED
          BY <5>1, <5>2
      <4>4. OperandInMem(ir.b) <=> IsMem(b)
        <5>1. CASE ir.b \in Computed
          BY <1>2, <1>6, <5>1, Start, LocIs DEF OperandInMem, InMem, RegistersAssumption, Colors
        <5>2. CASE ir.b \notin Computed
          BY <1>6, <5>2, Start DEF OperandInMem
        <5> QED
          BY <5>1, <5>2
      <4> QED
        BY <1>6, <1>7, <4>1, <4>2, <4>3, <4>4 DEF TwoMemOperands
    <3>3. n => b.sz = 64
      BY <1>6, <3>1, <3>2
    <3> QED
      BY <3>1, <3>2, <3>3
  <2> QED
    BY <2>1, <2>2
<1>9. v = IF moved THEN Low(InitialLoc[Res], 64) ELSE Value(InitialLoc, a, 64)
  <2>1. moved => Value(InitialLoc, b, 64) = Low(InitialLoc[Res], 64)
    BY LocIs DEF Value
  <2> QED
    BY <1>2, <1>5, <2>1
<1>10. /\ IsPlain(other) /\ SizesMatch(res, other) /\ w = Value(InitialLoc, other, 64)
       /\ moved \in BOOLEAN /\ n \in BOOLEAN
       /\ ~moved => IsPlain(a) /\ SizesMatch(res, a)
  <2>1. moved \in BOOLEAN /\ n \in BOOLEAN
    OBVIOUS
  <2> QED
    BY <1>2, <1>5, <1>6, <2>1
<1>11. ~IsImm(other) => other.at \in OperandColors \cap Colors /\ (moved \/ other.at # Res)
  <2> HIDE DEF a, b
  <2> QED
    BY <1>5, <1>6
<1> HIDE DEF a, b, other, moved, n, v, w
<1>12. CanCompute(k, 64, Low(Compute("add", v, w), 64))
  <2> DEFINE op == "add"
             sz == 64
  <2>1. /\ op \in {"and", "or", "xor", "add", "sub"} /\ sz \in Sizes
        /\ IsPlain(other) /\ SizesMatch(Loc(Res, sz), other)
        /\ n => other.sz = sz
        /\ ~IsImm(other) => other.at \in OperandColors \cap Colors /\ (moved \/ other.at # Res)
        /\ w = Value(InitialLoc, other, sz)
        /\ v = IF moved THEN Low(InitialLoc[Res], sz) ELSE Value(InitialLoc, a, sz)
        /\ moved \in BOOLEAN /\ n \in BOOLEAN
        /\ IsWideImm(other) \/ (IsMem(other) /\ IsMem(Loc(Res, sz))) => n
        /\ ~moved => IsPlain(a) /\ SizesMatch(Loc(Res, sz), a)
        /\ k \in MovAndApply(op, Loc(Res, sz), moved, a, n, other)
    BY <1>2, <1>4, <1>8, <1>9, <1>10, <1>11
  <2> HIDE DEF op, sz
  <2>2. RegistersAssumption
    BY <1>2
  <2>3. CanCompute(k, sz, Low(Compute(op, v, w), sz))
    BY <1>3, <2>1, <2>2, ApplyGives
  <2> QED
    BY <2>3 DEF op, sz
<1>13. ResultSize = 64 /\ IRValue = Low(Compute("add", v, w), 64)
  <2>1. ir.va \in Nat /\ ir.vb \in Nat
    BY Start
  <2>2. Compute("add", v, w) = ir.va + ir.vb
    BY <2>1 DEF v, w, Compute
  <2> QED
    BY <1>1, <2>2 DEF ResultSize, IRValue
<1> QED
  BY <1>1, <1>12, <1>13, Computes

(* What an operation computes is cut to its size once.                      *)
LEMMA WordOfCompute ==
  ASSUME NEW op \in ALOps \cup {"not", "neg", "mul"}, NEW v \in Nat, NEW w \in Nat, NEW sz \in Sizes
  PROVE  /\ Low(Compute(op, v, w), sz) \in Nat
         /\ Low(Low(Compute(op, v, w), sz), sz) = Low(Compute(op, v, w), sz)
<1>1. Compute(op, v, w) \in Int
  BY ComputeType
<1>2. Low(Compute(op, v, w), sz) \in Words(sz) /\ Low(Compute(op, v, w), sz) \in Nat
  BY <1>1, LowIs
<1> QED
  BY <1>2, LowOfWord

(* Subtractions are translated right, also where the result is in the place *)
(* of the second operand.                                                   *)
LEMMA IntSubTranslates ==
  ASSUME ir \in Cases, ~KnownDefect, ir.op = "sub", NEW k \in TranslateIntSub
  PROVE  Translates(k)
<1> DEFINE a == Narrowed(ir.a)
           b == Narrowed(ir.b)
           sz == ir.sz
           res == Loc(Res, sz)
           value == Low(Compute("sub", ir.va, ir.vb), sz)
<1>1. /\ ir.op \in OneResultOps /\ ir.op \notin BoolOps /\ ir.op \in CompareOps \cup IntBinaryOps \cup {"offset"}
  BY DEF OneResultOps, IntBinaryOps, BoolOps, CompareOps
<1>2. /\ sz \in Sizes /\ RegistersAssumption /\ ir.a \in Values(sz) /\ ir.b \in Values(sz)
      /\ Value(InitialLoc, a, sz) = ir.va /\ Value(InitialLoc, b, sz) = ir.vb
      /\ ir.va \in Nat /\ ir.vb \in Nat
  BY <1>1, IntOperands, InstrIs, Start
<1>3. /\ Res \in Colors /\ ResultsOf = {Res} /\ ir.through \subseteq Colors \ {Res} /\ Result(sz) = res /\ InitialLoc \in Locs
      /\ Res \in Places
  BY <1>1, <1>2, OneResult, Start, RegPlaces DEF Result, Res
<1>4. /\ IsPlain(a) /\ SizesMatch(res, a) /\ IsPlain(b) /\ SizesMatch(res, b)
      /\ ir.a \in Computed => a = Loc(ir.a.v, sz) /\ ir.a.v \in Colors \cap OperandColors /\ ir.a.k = "val" /\ a.sz = sz
      /\ ir.a \notin Computed => IsImm(a) /\ ~IsReg(a)
      /\ ir.b \in Computed => b = Loc(ir.b.v, sz) /\ ir.b.v \in Colors \cap OperandColors /\ ir.b.k = "val" /\ b.at = ir.b.v
      /\ ir.b \notin Computed => IsImm(b)
      /\ IsWideImm(b) \/ IsMem(b) => b.sz = sz
  <2>1. IsImm(a) => ~IsReg(a)
    BY DEF IsImm, IsReg
  <2> QED
    BY <1>2, <2>1, NarrowedIs, Start
<1>5. ResultSize = sz /\ IRValue = value
  BY <1>1 DEF ResultSize, IRValue
<1>6. Low(value, sz) = value /\ value \in Nat
  BY <1>2, WordOfCompute DEF ALOps
<1> HIDE DEF a, b, sz, value
<1>7. CASE res # b
  <2> DEFINE op == "sub"
             moved == res = b
             n == IsWideImm(b) \/ (IsMem(b) /\ IsMem(res))
  <2>1. moved = FALSE
    BY <1>7
  <2>2. k \in MovAndApply(op, res, moved, a, n, b)
    <3>1. res # Narrowed(ir.b) /\ Result(ir.sz) = res
      BY <1>3, <1>7 DEF b, sz
    <3>2. k \in MovAndApply("sub", res, FALSE, a, IsWideImm(b) \/ (IsMem(b) /\ IsMem(res)), b)
      BY <3>1 DEF TranslateIntSub, a, b
    <3> QED
      BY <2>1, <3>2
  <2>3. n => b.sz = sz
    BY <1>4
  <2>4. ~IsImm(b) => b.at \in OperandColors \cap Colors /\ (moved \/ b.at # Res)
    <3>1. SUFFICES ASSUME ~IsImm(b) PROVE b.at \in OperandColors \cap Colors /\ b.at # Res
      OBVIOUS
    <3>2. ir.b \in Computed /\ b = Loc(ir.b.v, sz) /\ b.at = ir.b.v
      BY <1>4, <3>1
    <3> QED
      BY <1>4, <1>7, <3>2
  <2>5. ir.va = IF moved THEN Low(InitialLoc[Res], sz) ELSE Value(InitialLoc, a, sz)
    BY <1>2, <2>1
  <2>6. /\ op \in {"and", "or", "xor", "add", "sub"}
        /\ moved \in BOOLEAN /\ n \in BOOLEAN
        /\ IsWideImm(b) \/ (IsMem(b) /\ IsMem(res)) => n
        /\ ~moved => IsPlain(a) /\ SizesMatch(res, a)
        /\ ir.vb = Value(InitialLoc, b, sz)
    BY <1>2, <1>4
  <2> HIDE DEF op, moved, n
  <2>7. CanCompute(k, sz, Low(Compute(op, ir.va, ir.vb), sz))
    BY <1>2, <1>3, <1>4, <2>2, <2>3, <2>4, <2>5, <2>6, ApplyGives
  <2> QED
    BY <1>1, <1>5, <2>7, Computes DEF op, value
<1>8. CASE res = b
  <2> DEFINE n == ~(IsReg(a) /\ LastUse(ir.a))
  <2>1. PICK t \in InTmp(n, a, FALSE, {}) : k = t.before \o <<I("sub", t.o, b), Mov(res, t.o)>> \o t.after
    <3>1. res = Narrowed(ir.b) /\ Result(ir.sz) = res
      BY <1>3, <1>8 DEF b, sz
    <3> QED
      BY <3>1 DEF TranslateIntSub, a, b
  <2>2. n \in BOOLEAN
    OBVIOUS
  <2>3. a.sz = sz
    <3>1. ir.b \in Computed /\ ir.b.v = Res
      <4>1. ~IsImm(b) /\ b.at = Res
        BY <1>8, LocIs
      <4> QED
        BY <1>4, <4>1
    <3>2. IsVal(ir.b, Res)
      BY <1>4, <3>1 DEF IsVal
    <3>3. CASE ir.a \in Computed
      BY <1>4, <3>3
    <3>4. CASE ir.a \notin Computed
      <4>1. IsImm(Narrowed(ir.a)) /\ ~TmpOfOtherSize
        BY <1>4, <3>4 DEF a, KnownDefect
      <4> QED
        BY <3>2, <4>1 DEF TmpOfOtherSize, a, sz
    <3> QED
      BY <3>3, <3>4
  <2>4. ~n => a = Loc(ir.a.v, sz) /\ ir.a.v \in Regs /\ ir.a.v \notin ir.through
    <3>1. SUFFICES ASSUME ~n PROVE a = Loc(ir.a.v, sz) /\ ir.a.v \in Regs /\ ir.a.v \notin ir.through
      OBVIOUS
    <3>2. IsReg(a) /\ LastUse(ir.a)
      BY <3>1
    <3>3. ir.a \in Computed
      BY <1>4, <3>2
    <3>4. ir.a.v < NumRegs
      BY <1>2, <1>4, <3>2, <3>3, LocIs
    <3> QED
      BY <1>2, <1>4, <3>2, <3>3, <3>4 DEF LastUse, Regs, Colors, RegistersAssumption
  <2> HIDE DEF n
  <2>5. PICK l1 \in Locs : Holding(t, n, a, FALSE, {}, InitialLoc, l1, H0, <<>>)
    <3>1. Prepare(FALSE, {}) # {}
      BY <1>2, <1>3, SomeTemporary
    <3>2. ir.through \subseteq Colors /\ ResultsOf \subseteq Colors
      BY <1>3
    <3> QED
      BY <1>2, <1>3, <1>4, <2>1, <2>2, <3>1, <3>2, OperandInTmp
  <2> DEFINE x == t.o.at
  <2>6. /\ x \in Regs /\ t.o = Loc(x, sz) /\ IsPlain(t.o)
        /\ Value(l1, t.o, sz) = ir.va
        /\ \A y \in Places : (n /\ y = x) \/ l1[y] = InitialLoc[y]
        /\ n => x # Res
        /\ ~n => x \notin ir.through
    <3>1. CASE n
      BY <1>2, <1>3, <2>3, <2>5, <3>1 DEF Holding
    <3>2. CASE ~n
      <4>1. t.o = a /\ l1 = InitialLoc /\ IsPlain(t.o)
        BY <2>5, <3>2 DEF Holding
      <4>2. x = ir.a.v
        BY <2>4, <3>2, <4>1, LocIs
      <4> QED
        BY <1>2, <2>4, <3>2, <4>1, <4>2
    <3> QED
      BY <3>1, <3>2
  <2>7. x \in Places /\ x < NumRegs
    BY <1>2, <2>6, RegPlaces DEF Regs, RegistersAssumption
  <2>8. Value(l1, b, sz) = ir.vb
    <3>1. l1[Res] = InitialLoc[Res]
      BY <1>3, <2>6
    <3>2. Value(l1, b, sz) = Value(InitialLoc, b, sz)
      BY <1>8, <3>1, LocIs DEF Value
    <3> QED
      BY <1>2, <3>2
  <2> HIDE DEF x
  <2>9. Constructible(I("sub", t.o, b)) /\ Constructible(Mov(res, t.o))
    <3>1. ~IsMem(t.o) /\ ~IsWideImm(t.o) /\ t.o.sz = sz /\ ~IsWideImm(b) /\ b.sz = sz /\ res.sz = sz
      BY <1>8, <2>6, <2>7, LocIs
    <3>2. SizesMatch(t.o, b) /\ SizesMatch(res, t.o)
      BY <3>1 DEF SizesMatch
    <3>3. Constructible(I("sub", t.o, b))
      BY <3>1, <3>2, ALConstructible
    <3> QED
      BY <3>1, <3>2, <3>3 DEF Constructible, Mov, I
  <2> DEFINE l2 == [l1 EXCEPT ![x] = value]
             l3 == [l2 EXCEPT ![Res] = value]
  <2>10. Gives(<<I("sub", t.o, b)>>, l1, H0, <<>>, l2, H0, <<>>) /\ l2 \in Locs
    <3>1. Gives(<<I("sub", Loc(x, sz), b)>>, l1, H0, <<>>,
                [l1 EXCEPT ![x] = Low(Compute("sub", Value(l1, Loc(x, sz), sz), Value(l1, b, sz)), sz)], H0, <<>>)
          /\ [l1 EXCEPT ![x] = Low(Compute("sub", Value(l1, Loc(x, sz), sz), Value(l1, b, sz)), sz)] \in Locs
      <4>1. "sub" \in ALOps /\ Constructible(I("sub", Loc(x, sz), b))
        BY <2>6, <2>9 DEF ALOps
      <4> QED
        BY <1>2, <1>4, <2>7, <4>1, GivesAL
    <3>2. Low(Compute("sub", Value(l1, Loc(x, sz), sz), Value(l1, b, sz)), sz) = value
      BY <2>6, <2>8 DEF value
    <3> QED
      BY <2>6, <3>1, <3>2
  <2>11. l2[x] = value /\ \A y \in Places : y = x \/ l2[y] = l1[y]
    BY <2>7 DEF Locs
  <2>12. Value(l2, t.o, sz) = value
    BY <1>6, <2>6, <2>11, LocIs DEF Value
  <2> HIDE DEF l2
  <2>13. Gives(<<Mov(res, t.o)>>, l2, H0, <<>>, l3, H0, <<>>)
    BY <1>2, <1>3, <2>6, <2>9, <2>10, <2>12, GivesMov
  <2>14. l3[Res] = value /\ \A y \in Places : y = Res \/ l3[y] = l2[y]
    BY <1>3, <2>10 DEF Locs
  <2> HIDE DEF l3
  <2>15. Gives(<<I("sub", t.o, b), Mov(res, t.o)>>, l1, H0, <<>>, l3, H0, <<>>)
    <3>1. <<I("sub", t.o, b)>> \o <<Mov(res, t.o)>> = <<I("sub", t.o, b), Mov(res, t.o)>>
      BY OneAndOne
    <3> QED
      BY <2>10, <2>13, <3>1, GivesThen
  <2>16. PICK l4 : /\ Gives(t.before \o <<I("sub", t.o, b), Mov(res, t.o)>> \o t.after, InitialLoc, H0, <<>>, l4, H0, <<>>)
                   /\ \A c \in ResultsOf : l4[c] = l3[c]
                   /\ \A c \in ir.through \ ResultsOf : (n /\ c = t.o.at) \/ l3[c] = l1[c] => l4[c] = InitialLoc[c]
    BY <2>5, <2>15 DEF Holding, Wraps
  <2>17. Low(l4[Res], sz) = value
    BY <1>3, <1>6, <2>14, <2>16
  <2>18. ASSUME NEW c \in ir.through PROVE l4[c] = InitialLoc[c]
    <3>1. c \in Places /\ c # Res /\ c \notin ResultsOf
      BY <1>2, <1>3, RegPlaces
    <3>2. (n /\ c = t.o.at) \/ l3[c] = l1[c]
      BY <2>6, <2>11, <2>14, <3>1 DEF x
    <3> QED
      BY <2>16, <3>1, <3>2
  <2>19. CanCompute(k, sz, value)
    BY <2>1, <2>16, <2>17, <2>18 DEF CanCompute
  <2> QED
    BY <1>1, <1>5, <2>19, Computes
<1> QED
  BY <1>7, <1>8

(* The code puts v into c and changes, besides, at most the places T.       *)
SetsBut(k, T, c, sz, v, l, h, f) ==
  \E l2 : /\ Gives(k, l, h, f, l2, h, f)
          /\ Low(l2[c], sz) = v
          /\ \A y \in Places \ (T \cup {c}) : l2[y] = l[y]

(* The code of a multiplication sets the result's place to the product and  *)
(* changes nothing else but the temporary.                                  *)
LEMMA MulCodeGives ==
  ASSUME RegistersAssumption, NEW sz \in Sizes, sz # 8, NEW c \in Places, NEW d \in Places,
         NEW o, IsPlain(o), NEW tmp \in BOOLEAN,
         tmp => o.at < NumRegs /\ ~IsImm(o),
         ~(c < NumRegs) => tmp,
         ~IsWideImm(o), ~IsImm(o) => o.sz = sz,
         c < NumRegs /\ ~IsImm(o) /\ Loc(c, sz) # o => d # c,
         NEW l \in Locs, NEW h, NEW f,
         NEW v, v = Value(l, Loc(d, sz), sz), NEW w, w = Value(l, o, sz)
  PROVE  SetsBut(MulCode(Loc(c, sz), Loc(d, sz), o, tmp), IF tmp THEN {o.at} ELSE {}, c, sz, Low(v * w, sz), l, h, f)
<1> SUFFICES \E l2 : /\ Gives(MulCode(Loc(c, sz), Loc(d, sz), o, tmp), l, h, f, l2, h, f)
                     /\ Low(l2[c], sz) = Low(v * w, sz)
                     /\ \A y \in Places : y = c \/ (tmp /\ y = o.at) \/ l2[y] = l[y]
  BY DEF SetsBut
<1> DEFINE res == Loc(c, sz)
           a == Loc(d, sz)
           p == Low(v * w, sz)
<1>1. IsPlain(res) /\ IsPlain(a) /\ res.sz = sz /\ res.at = c /\ ~IsImm(res) /\ a.sz = sz /\ a.at = d /\ ~IsImm(a)
      /\ (IsReg(res) <=> c < NumRegs)
  BY LocIs DEF IsPlain
<1>2. v \in Nat /\ w \in Nat
  BY <1>1, ValueType
<1>3. v * w \in Int /\ w * v = v * w
  BY <1>2
<1>4. p \in Nat /\ Low(p, sz) = p
  <2>1. p \in Words(sz) /\ p \in Nat
    BY <1>3, LowIs
  <2> QED
    BY <2>1, LowOfWord
<1>5. ~IsImm(o) => o.at \in Places /\ o = Loc(o.at, sz)
  BY PlainIs
<1>6. "imul" \in ALOps /\ Compute("imul", w, v) = v * w
  BY <1>3 DEF ALOps, Compute
<1>7. CASE ~(c < NumRegs)
  <2> DEFINE x == o.at
             l1 == [l EXCEPT ![x] = p]
             l2 == [l1 EXCEPT ![c] = p]
  <2>1. x \in Places /\ o = Loc(x, sz) /\ x < NumRegs /\ o.sz = sz /\ IsReg(o)
    BY <1>5, <1>7, LocIs
  <2>2. MulCode(res, a, o, tmp) = <<I("imul", o, a), Mov(res, o)>>
    BY <1>1, <1>7 DEF MulCode
  <2>3. Constructible(I("imul", o, a)) /\ Constructible(Mov(res, o))
    <3>1. ~IsMem(o) /\ ~IsWideImm(o) /\ SizesMatch(res, o)
      BY <1>1, <2>1, LocIs DEF SizesMatch
    <3> QED
      BY <1>1, <2>1, <3>1 DEF Constructible, I, Mov
  <2> HIDE DEF x
  <2>4. Gives(<<I("imul", o, a)>>, l, h, f, l1, h, f) /\ l1 \in Locs
    <3> DEFINE op == "imul"
    <3>1. op \in ALOps /\ Constructible(I(op, Loc(x, sz), a)) /\ Low(Compute(op, Value(l, Loc(x, sz), sz), Value(l, a, sz)), sz) = p
      BY <1>6, <2>1, <2>3
    <3> HIDE DEF op, a
    <3>2. Gives(<<I(op, Loc(x, sz), a)>>, l, h, f, [l EXCEPT ![x] = Low(Compute(op, Value(l, Loc(x, sz), sz), Value(l, a, sz)), sz)], h, f)
          /\ [l EXCEPT ![x] = Low(Compute(op, Value(l, Loc(x, sz), sz), Value(l, a, sz)), sz)] \in Locs
      BY <1>1, <2>1, <3>1, GivesAL
    <3> QED
      BY <2>1, <3>1, <3>2 DEF op
  <2> HIDE DEF p
  <2>5. l1[x] = p /\ \A y \in Places : y = x \/ l1[y] = l[y]
    BY <2>1 DEF Locs
  <2>6. Value(l1, o, sz) = p
    BY <1>4, <2>1, <2>5, LocIs DEF Value
  <2> HIDE DEF l1
  <2>7. Gives(<<Mov(res, o)>>, l1, h, f, l2, h, f)
    BY <2>3, <2>4, <2>6, GivesMov
  <2>8. l2[c] = p /\ \A y \in Places : y = c \/ l2[y] = l1[y]
    BY <2>4 DEF Locs
  <2> HIDE DEF l2
  <2>9. Gives(<<I("imul", o, a), Mov(res, o)>>, l, h, f, l2, h, f)
    <3>1. <<I("imul", o, a)>> \o <<Mov(res, o)>> = <<I("imul", o, a), Mov(res, o)>>
      BY OneAndOne
    <3> QED
      BY <2>4, <2>7, <3>1, GivesThen
  <2>10. Gives(MulCode(res, a, o, tmp), l, h, f, l2, h, f) /\ Low(l2[c], sz) = p
    BY <1>4, <2>2, <2>8, <2>9
  <2>11. \A y \in Places : y = c \/ (tmp /\ y = o.at) \/ l2[y] = l[y]
    BY <1>7, <2>5, <2>8 DEF x
  <2> QED
    BY <2>10, <2>11 DEF p
<1>8. CASE c < NumRegs /\ IsImm(o)
  <2> DEFINE l2 == [l EXCEPT ![c] = p]
  <2>1. MulCode(res, a, o, tmp) = <<[op |-> "imul3", d |-> res, s |-> a, imm |-> o]>>
    BY <1>1, <1>8 DEF MulCode
  <2>2. Gives(<<[op |-> "imul3", d |-> res, s |-> a, imm |-> o]>>, l, h, f, l2, h, f)
    <3> HIDE DEF a
    <3>1. LET z == Low(Value(l, a, sz) * Value(l, o, sz), sz)
          IN /\ Gives(<<[op |-> "imul3", d |-> Loc(c, sz), s |-> a, imm |-> o]>>, l, h, f, [l EXCEPT ![c] = z], h, f)
             /\ [l EXCEPT ![c] = z] \in Locs
      BY <1>1, GivesImul3
    <3> QED
      BY <3>1 DEF a
  <2>3. l2[c] = p /\ \A y \in Places : y = c \/ l2[y] = l[y]
    BY DEF Locs
  <2> HIDE DEF l2
  <2> QED
    BY <1>4, <2>1, <2>2, <2>3
<1>9. CASE c < NumRegs /\ ~IsImm(o)
  <2> DEFINE mv == IF res # o THEN <<Mov(res, o)>> ELSE <<>>
  <2>1. MulCode(res, a, o, tmp) = mv \o <<I("imul", res, a)>>
    BY <1>1, <1>9 DEF MulCode
  <2>2. \E l1 \in Locs : /\ Gives(mv, l, h, f, l1, h, f)
                        /\ Value(l1, res, sz) = w /\ Value(l1, a, sz) = v
                        /\ \A y \in Places : y = c \/ l1[y] = l[y]
    <3>1. CASE res = o
      BY <3>1, GivesNothing
    <3>2. CASE res # o
      <4> DEFINE l1 == [l EXCEPT ![c] = w]
      <4>1. Constructible(Mov(res, o))
        BY <1>1, <1>9, <1>5, LocIs DEF Constructible, Mov, I, SizesMatch
      <4>2. Gives(mv, l, h, f, l1, h, f) /\ l1 \in Locs
        BY <3>2, <4>1, GivesMov
      <4>3. l1[c] = w /\ \A y \in Places : y = c \/ l1[y] = l[y]
        BY DEF Locs
      <4>4. Low(w, sz) = w
        <5>1. w \in Words(sz)
          BY ValueType
        <5> QED
          BY <5>1, LowOfWord
      <4> HIDE DEF l1, mv
      <4>5. Value(l1, res, sz) = w
        BY <1>1, <4>3, <4>4 DEF Value
      <4>6. d # c
        BY <1>9, <3>2
      <4>7. Value(l1, a, sz) = v
        BY <1>1, <4>3, <4>6 DEF Value
      <4> QED
        BY <4>2, <4>3, <4>5, <4>7
    <3> QED
      BY <3>1, <3>2
  <2>3. PICK l1 \in Locs : /\ Gives(mv, l, h, f, l1, h, f)
                           /\ Value(l1, res, sz) = w /\ Value(l1, a, sz) = v
                           /\ \A y \in Places : y = c \/ l1[y] = l[y]
    BY <2>2
  <2> DEFINE l2 == [l1 EXCEPT ![c] = p]
  <2>4. Constructible(I("imul", res, a))
    BY <1>1, <1>9 DEF Constructible, I
  <2>5. Gives(<<I("imul", res, a)>>, l1, h, f, l2, h, f)
    <3> DEFINE op == "imul"
    <3>1. op \in ALOps /\ Constructible(I(op, Loc(c, sz), a)) /\ Low(Compute(op, Value(l1, Loc(c, sz), sz), Value(l1, a, sz)), sz) = p
      BY <1>6, <2>3, <2>4
    <3> HIDE DEF op, a
    <3>2. Gives(<<I(op, Loc(c, sz), a)>>, l1, h, f, [l1 EXCEPT ![c] = Low(Compute(op, Value(l1, Loc(c, sz), sz), Value(l1, a, sz)), sz)], h, f)
          /\ [l1 EXCEPT ![c] = Low(Compute(op, Value(l1, Loc(c, sz), sz), Value(l1, a, sz)), sz)] \in Locs
      BY <1>1, <2>3, <3>1, GivesAL
    <3> QED
      BY <3>1, <3>2 DEF op
  <2>6. Gives(MulCode(res, a, o, tmp), l, h, f, l2, h, f)
    BY <2>1, <2>3, <2>5, GivesThen
  <2>7. l2[c] = p /\ \A y \in Places : y = c \/ l2[y] = l1[y]
    BY DEF Locs
  <2> HIDE DEF l2, mv
  <2> QED
    BY <1>4, <2>3, <2>6, <2>7
<1> QED
  BY <1>7, <1>8, <1>9

(* Multiplications are translated right outside the known defects.          *)
LEMMA IntMulTranslates ==
  ASSUME ir \in Cases, ~KnownDefect, ir.op = "mul", NEW k \in TranslateIntMul
  PROVE  Translates(k)
<1> DEFINE swap == ir.a.k = "const"
           p == IF swap THEN ir.b ELSE ir.a
           q == IF swap THEN ir.a ELSE ir.b
           a == Narrowed(p)
           b == Narrowed(q)
           sz == ir.sz
           res == Loc(Res, sz)
           n == IsWideImm(b) \/ (IsMem(res) /\ IsMem(a) /\ IsMem(b))
           v == IF swap THEN ir.vb ELSE ir.va
           w == IF swap THEN ir.va ELSE ir.vb
<1>1. /\ ir.op \in OneResultOps /\ ir.op \notin BoolOps /\ ir.op \in CompareOps \cup IntBinaryOps \cup {"offset"}
  BY DEF OneResultOps, IntBinaryOps, BoolOps, CompareOps
<1>2. /\ p \in Computed /\ p \in Values(sz) /\ q \in Values(sz) /\ sz \in Sizes
      /\ Value(InitialLoc, a, sz) = v /\ Value(InitialLoc, b, sz) = w
      /\ v \in Nat /\ w \in Nat /\ RegistersAssumption
      /\ q \in Computed => q.k = "val"
      /\ p.k = "val" /\ p.v \in Colors \cap OperandColors
      /\ q \in Computed => q.v \in Colors \cap OperandColors
  BY <1>1, IntOperands, InstrIs, Start
<1>3. /\ Res \in Colors /\ ResultsOf = {Res} /\ ir.through \subseteq Colors \ {Res} /\ Result(sz) = res /\ InitialLoc \in Locs
      /\ Res \in Places
  BY <1>1, <1>2, OneResult, Start, RegPlaces DEF Result, Res
<1>4. /\ a = Loc(p.v, sz)
      /\ IsPlain(b) /\ SizesMatch(res, b)
      /\ q \in Computed => b = Loc(q.v, sz) /\ ~IsImm(b) /\ b.at = q.v /\ b.sz = sz
      /\ q \notin Computed => IsImm(b) /\ ~IsMem(b)
      /\ IsWideImm(b) \/ IsMem(b) => b.sz = sz
  BY <1>2, NarrowedIs
<1>5. /\ sz # 8
      /\ InMem(Res) => IsWideImm(b) \/ (OperandInMem(p) /\ OperandInMem(q))
      /\ ~(IsVal(p, Res) /\ ~IsVal(q, Res) /\ (q.k = "val" \/ IsWideImm(b)))
  BY DEF KnownDefect, MulDefect
<1>6. PICK t \in InTmp(n, b, TRUE, {}) : k = t.before \o MulCode(res, a, t.o, n) \o t.after
  BY <1>3 DEF TranslateIntMul
<1>7. n => p.v \notin Regs \/ p.v \notin SavedOf(TRUE, {})
  <2>1. SUFFICES ASSUME n, p.v \in Regs, p.v \in SavedOf(TRUE, {}) PROVE FALSE
    OBVIOUS
  <2>2. ~IsMem(a)
    BY <1>2, <1>4, <2>1, LocIs DEF Regs, RegistersAssumption
  <2>3. IsWideImm(b)
    BY <2>1, <2>2
  <2>4. IsIn(p, SavedTmp(TRUE))
    BY <1>2, <2>1 DEF IsIn, SavedTmp, SavedOf
  <2>5. p \in {ir.a, ir.b} /\ q \in {ir.a, ir.b}
    OBVIOUS
  <2> HIDE DEF p, q
  <2>6. TmpHoldsOperand
    BY <2>3, <2>4, <2>5 DEF TmpHoldsOperand
  <2> QED
    BY <2>6 DEF KnownDefect
<1>8. n \in BOOLEAN /\ (IsWideImm(b) => n)
  OBVIOUS
<1>9. ~(Res < NumRegs) => n
  <2>1. SUFFICES ASSUME ~(Res < NumRegs), ~IsWideImm(b) PROVE IsMem(res) /\ IsMem(a) /\ IsMem(b)
    OBVIOUS
  <2>2. InMem(Res)
    BY <1>2, <1>3, <2>1 DEF InMem, RegistersAssumption, Colors
  <2>3. OperandInMem(p) /\ OperandInMem(q)
    BY <1>5, <2>1, <2>2
  <2>4. ~(p.v < NumRegs) /\ ~(q.v < NumRegs) /\ q \in Computed
    <3>1. q.k = "val" => q \in Computed
      BY <1>2, ValueIsConstOrComputed
    <3> QED
      BY <1>2, <2>3, <3>1 DEF OperandInMem, InMem, Colors, RegistersAssumption
  <2> QED
    BY <1>4, <2>1, <2>4, LocIs
<1>10. n => b.sz = sz
  BY <1>4
<1>11. n /\ IsMem(res) = FALSE => IsWideImm(b)
  OBVIOUS
<1>12. ResultSize = sz /\ IRValue = Low(v * w, sz)
  <2>1. ir.va \in Nat /\ ir.vb \in Nat
    BY Start
  <2>2. ir.va * ir.vb = v * w
    BY <2>1
  <2>3. Compute(ir.op, ir.va, ir.vb) = ir.va * ir.vb
    BY DEF Compute
  <2> QED
    BY <1>1, <2>2, <2>3 DEF ResultSize, IRValue
<1> HIDE DEF p, q, a, b, n, sz, v, w
<1>13. PICK l1 \in Locs : Holding(t, n, b, TRUE, {}, InitialLoc, l1, H0, <<>>)
  <2>1. Prepare(TRUE, {}) # {}
    BY <1>2, <1>3, SomeTemporary
  <2>2. ir.through \subseteq Colors /\ ResultsOf \subseteq Colors
    BY <1>3
  <2> QED
    BY <1>2, <1>3, <1>4, <1>6, <1>8, <2>1, <2>2, OperandInTmp
<1> DEFINE x == t.o.at
<1>14. n => /\ x \in Regs /\ t.o = Loc(x, sz) /\ x < NumRegs /\ ~IsImm(t.o) /\ ~IsWideImm(t.o) /\ t.o.sz = sz
            /\ x # p.v /\ x \in Places
  <2>1. SUFFICES ASSUME n
                 PROVE  /\ x \in Regs /\ t.o = Loc(x, sz) /\ x < NumRegs /\ ~IsImm(t.o) /\ ~IsWideImm(t.o) /\ t.o.sz = sz
                        /\ x # p.v /\ x \in Places
    OBVIOUS
  <2>2. x \in Regs /\ t.o = Loc(x, sz) /\ (x \in OperandColors => x \in SavedOf(TRUE, {}))
    BY <1>10, <1>13, <2>1 DEF Holding
  <2>3. x < NumRegs
    BY <1>2, <2>2 DEF Regs, RegistersAssumption
  <2>4. x # p.v
    BY <1>2, <1>7, <2>1, <2>2
  <2> HIDE DEF x
  <2>5. ~IsImm(t.o) /\ ~IsWideImm(t.o) /\ t.o.sz = sz
    BY <2>2, LocIs
  <2> QED
    BY <1>2, <2>2, <2>3, <2>4, <2>5, RegPlaces
<1>15. IsPlain(t.o) /\ ~IsWideImm(t.o) /\ (~IsImm(t.o) => t.o.sz = sz) /\ Value(l1, t.o, sz) = w
  <2>1. CASE n
    BY <1>2, <1>10, <1>13, <1>14, <2>1 DEF Holding
  <2>2. CASE ~n
    <3>1. t.o = b /\ l1 = InitialLoc
      BY <1>13, <2>2 DEF Holding
    <3>2. ~IsWideImm(b)
      BY <1>8, <2>2
    <3> QED
      BY <1>2, <1>4, <3>1, <3>2
  <2> QED
    BY <2>1, <2>2
<1>16. Value(l1, Loc(p.v, sz), sz) = v
  <2>1. l1[p.v] = InitialLoc[p.v]
    BY <1>2, <1>13, <1>14, RegPlaces DEF Holding
  <2>2. Value(l1, a, sz) = Value(InitialLoc, a, sz)
    BY <1>4, <2>1, LocIs DEF Value
  <2> QED
    BY <1>2, <1>4, <2>2
<1>17. Res < NumRegs /\ ~IsImm(t.o) /\ res # t.o => p.v # Res
  <2>1. SUFFICES ASSUME Res < NumRegs, ~IsImm(t.o), res # t.o, p.v = Res PROVE FALSE
    OBVIOUS
  <2>2. IsVal(p, Res)
    BY <1>2, <2>1 DEF IsVal
  <2>3. CASE n
    <3>1. IsWideImm(b)
      BY <2>1, <2>3, LocIs DEF n
    <3>2. ~IsVal(q, Res)
      <4>1. q \notin Computed
        BY <1>4, <3>1 DEF IsWideImm
      <4> QED
        BY <1>2, <4>1, ValueIsConstOrComputed DEF IsVal
    <3> QED
      BY <1>5, <2>2, <3>1, <3>2
  <2>4. CASE ~n
    <3>1. t.o = b
      BY <1>13, <2>4 DEF Holding
    <3>2. q \in Computed /\ b = Loc(q.v, sz)
      BY <1>4, <2>1, <3>1
    <3>3. q.v # Res
      BY <2>1, <3>1, <3>2
    <3> QED
      BY <1>2, <1>5, <2>2, <3>2, <3>3 DEF IsVal
  <2> QED
    BY <2>3, <2>4
<1> HIDE DEF x
<1>18. p.v \in Places
  BY <1>2, RegPlaces
<1>19. n => t.o.at < NumRegs /\ ~IsImm(t.o)
  BY <1>14 DEF x
<1>20. PICK l2 : /\ Gives(MulCode(Loc(Res, sz), Loc(p.v, sz), t.o, n), l1, H0, <<>>, l2, H0, <<>>)
                 /\ Low(l2[Res], sz) = Low(v * w, sz)
                 /\ \A y \in Places : y = Res \/ (n /\ y = t.o.at) \/ l2[y] = l1[y]
  <2> DEFINE o == t.o
             d == p.v
             c == Res
             h == H0
             f == <<>>
  <2>1. /\ sz \in Sizes /\ sz # 8 /\ c \in Places /\ d \in Places /\ IsPlain(o) /\ n \in BOOLEAN
        /\ n => o.at < NumRegs /\ ~IsImm(o)
        /\ ~(c < NumRegs) => n
        /\ ~IsWideImm(o) /\ (~IsImm(o) => o.sz = sz)
        /\ c < NumRegs /\ ~IsImm(o) /\ Loc(c, sz) # o => d # c
        /\ v = Value(l1, Loc(d, sz), sz) /\ w = Value(l1, o, sz) /\ l1 \in Locs
    BY <1>2, <1>3, <1>5, <1>8, <1>9, <1>13, <1>15, <1>16, <1>17, <1>18, <1>19
  <2> HIDE DEF o, d, c, h, f
  <2>2. SetsBut(MulCode(Loc(c, sz), Loc(d, sz), o, n), IF n THEN {o.at} ELSE {}, c, sz, Low(v * w, sz), l1, h, f)
    BY <1>2, <2>1, MulCodeGives
  <2> QED
    BY <2>2 DEF SetsBut, o, d, c, h, f
<1>21. PICK l3 : /\ Gives(t.before \o MulCode(Loc(Res, sz), Loc(p.v, sz), t.o, n) \o t.after, InitialLoc, H0, <<>>, l3, H0, <<>>)
                 /\ \A c \in ResultsOf : l3[c] = l2[c]
                 /\ \A c \in ir.through \ ResultsOf : (n /\ c = t.o.at) \/ l2[c] = l1[c] => l3[c] = InitialLoc[c]
  BY <1>13, <1>20 DEF Holding, Wraps
<1>22. Gives(k, InitialLoc, H0, <<>>, l3, H0, <<>>)
  BY <1>4, <1>6, <1>21
<1>23. ASSUME NEW c \in ir.through PROVE l3[c] = InitialLoc[c]
  <2>1. c \in Places /\ c # Res /\ c \notin ResultsOf
    BY <1>2, <1>3, RegPlaces
  <2> QED
    BY <1>20, <1>21, <2>1
<1>24. Low(l3[Res], sz) = Low(v * w, sz)
  BY <1>3, <1>20, <1>21
<1>25. CanCompute(k, ResultSize, IRValue)
  BY <1>12, <1>22, <1>23, <1>24 DEF CanCompute
<1> QED
  BY <1>1, <1>25, Computes

(* Code that sets the result and changes nothing but the temporary around   *)
(* it computes what it should.                                              *)
LEMMA SetsInTmp ==
  ASSUME RegistersAssumption, ResultsOf = {Res}, ir.through \subseteq Colors \ {Res},
         NEW t, NEW n \in BOOLEAN, NEW o, NEW r, NEW taken, NEW l1 \in Locs,
         Holding(t, n, o, r, taken, InitialLoc, l1, H0, <<>>),
         NEW b, NEW T, T = (IF n THEN {t.o.at} ELSE {}), NEW sz, NEW v,
         SetsBut(b, T, Res, sz, v, l1, H0, <<>>)
  PROVE  CanCompute(t.before \o b \o t.after, sz, v)
<1>1. PICK l2 : /\ Gives(b, l1, H0, <<>>, l2, H0, <<>>)
                /\ Low(l2[Res], sz) = v
                /\ \A y \in Places \ (T \cup {Res}) : l2[y] = l1[y]
  BY DEF SetsBut
<1>2. PICK l3 : /\ Gives(t.before \o b \o t.after, InitialLoc, H0, <<>>, l3, H0, <<>>)
                /\ \A c \in ResultsOf : l3[c] = l2[c]
                /\ \A c \in ir.through \ ResultsOf : (n /\ c = t.o.at) \/ l2[c] = l1[c] => l3[c] = InitialLoc[c]
  BY <1>1 DEF Holding, Wraps
<1>3. ASSUME NEW c \in ir.through PROVE l3[c] = InitialLoc[c]
  <2>1. c \in Places /\ c # Res /\ c \notin ResultsOf
    BY RegPlaces
  <2> QED
    BY <1>1, <1>2, <2>1
<1>4. Low(l3[Res], sz) = v
  BY <1>1, <1>2
<1> QED
  BY <1>2, <1>3, <1>4 DEF CanCompute

(* A load into a register.                                                  *)
LEMMA LoadGives ==
  ASSUME RegistersAssumption, NEW l \in Locs, NEW h \in Heaps, NEW f, NEW sz \in Sizes, NEW c \in Places, c < NumRegs,
         NEW o, Place(l, o) \in 0 .. 15, NEW v, v = Low(h[Place(l, o)], sz)
  PROVE  SetsBut(<<Mov(Loc(c, sz), Heap(o, sz))>>, {}, c, sz, v, l, h, f)
<1> DEFINE l2 == [l EXCEPT ![c] = v]
<1>1. Gives(<<Mov(Loc(c, sz), Heap(o, sz))>>, l, h, f, l2, h, f)
  BY GivesLoad
<1>2. l2[c] = v /\ \A y \in Places : y = c \/ l2[y] = l[y]
  BY DEF Locs
<1>3. Low(v, sz) = v
  <2>1. h[Place(l, o)] \in Int
    BY DEF Heaps
  <2>2. v \in Words(sz)
    BY <2>1, LowIs
  <2> QED
    BY <2>2, LowOfWord
<1> HIDE DEF l2
<1> QED
  BY <1>1, <1>2, <1>3 DEF SetsBut

(* A load through a temporary into a slot of the frame.                     *)
LEMMA LoadThroughGives ==
  ASSUME RegistersAssumption, NEW l \in Locs, NEW h \in Heaps, NEW f, NEW sz \in Sizes,
         NEW c \in Places, NEW x \in Places, x < NumRegs, x # c,
         NEW o, Place(l, o) \in 0 .. 15, NEW v, v = Low(h[Place(l, o)], sz)
  PROVE  SetsBut(<<Mov(Loc(x, sz), Heap(o, sz)), Mov(Loc(c, sz), Loc(x, sz))>>, {x}, c, sz, v, l, h, f)
<1> DEFINE i == Mov(Loc(x, sz), Heap(o, sz))
           j == Mov(Loc(c, sz), Loc(x, sz))
<1>1. PICK l1 : Gives(<<i>>, l, h, f, l1, h, f) /\ Low(l1[x], sz) = v /\ \A y \in Places \ ({} \cup {x}) : l1[y] = l[y]
  BY LoadGives DEF SetsBut
<1>2. l1 \in Locs
  BY <1>1 DEF Gives
<1> DEFINE l2 == [l1 EXCEPT ![c] = v]
<1>3. Value(l1, Loc(x, sz), sz) = v
  BY <1>1, LocIs DEF Value
<1>4. Constructible(j) /\ IsPlain(Loc(x, sz))
  BY LocIs DEF Constructible, Mov, I, SizesMatch, IsPlain
<1>5. Gives(<<j>>, l1, h, f, l2, h, f)
  BY <1>2, <1>3, <1>4, GivesMov
<1>6. l2[c] = v /\ \A y \in Places : y = c \/ l2[y] = l1[y]
  BY <1>2 DEF Locs
<1>7. Low(v, sz) = v
  <2>1. h[Place(l, o)] \in Int
    BY DEF Heaps
  <2>2. v \in Words(sz)
    BY <2>1, LowIs
  <2> QED
    BY <2>2, LowOfWord
<1> HIDE DEF l2
<1>8. Gives(<<i, j>>, l, h, f, l2, h, f)
  <2> HIDE DEF i, j
  <2>1. <<i>> \o <<j>> = <<i, j>>
    BY OneAndOne
  <2> QED
    BY <1>1, <1>5, <2>1, GivesThen
<1> QED
  BY <1>1, <1>6, <1>7, <1>8 DEF SetsBut

(* The place that an address without a temporary stands for.                *)
Displacement(o) == IF IsImm(o) THEN Imm(Low(o.at, 32), 32) ELSE o

(* The memory operand at an address.                                        *)
LEMMA AtIs ==
  ASSUME NEW o
  PROVE  At(o) = Heap(Displacement(o), ir.sz)
BY DEF At, Displacement

(* The address of a load or store, outside the known defects, is the value  *)
(* of the instruction's first operand.                                      *)
LEMMA AddressIs ==
  ASSUME ir \in Cases, ~KnownDefect, ir.op \in {"load", "store"}
  PROVE  /\ IsPlain(Pointer(ir.a)) /\ ir.va \in 0 .. 15 /\ Low(ir.va, 64) = ir.va
         /\ ir.a \in Computed => /\ Pointer(ir.a) = Loc(ir.a.v, 64) /\ ir.a.v \in Colors \cap OperandColors
                                 /\ ir.a.k = "val" /\ InitialLoc[ir.a.v] = ir.va /\ Displacement(Pointer(ir.a)) = Pointer(ir.a)
         /\ ir.a \notin Computed => /\ IsImm(Pointer(ir.a)) /\ ~IsMem(Pointer(ir.a)) /\ IsImm(Displacement(Pointer(ir.a)))
                                    /\ \A l : Place(l, Displacement(Pointer(ir.a))) = ir.va
<1> DEFINE o == Pointer(ir.a)
<1>1. SizeOfA(ir) = 64 /\ 64 \in Sizes /\ 32 \in Sizes
  BY DEF SizeOfA, Sizes
<1>2. ir.a \in Values(64) /\ ir.va \in 0 .. 15 /\ ir.va \in Words(64)
  BY <1>1, OperandsAre, Start
<1>3. Low(ir.va, 64) = ir.va
  BY <1>1, <1>2, LowOfWord
<1>4. CASE ir.a \in Computed
  <2>1. ir.a.k = "val" /\ ir.a.v \in Colors \cap OperandColors /\ InitialLoc[ir.a.v] = ir.va
    BY <1>4, Start
  <2>2. o = Loc(ir.a.v, 64)
    BY <2>1 DEF Pointer
  <2>3. IsPlain(o) /\ ~IsImm(o)
    BY <1>1, <2>1, <2>2, RegPlaces, InstrIs, LocIs DEF IsPlain
  <2> QED
    BY <1>2, <1>3, <1>4, <2>1, <2>2, <2>3 DEF Displacement
<1>5. CASE ir.a \notin Computed
  <2>1. ir.a.k = "const" /\ ir.va = ir.a.v
    BY <1>5, Start
  <2>2. Signed(ir.va, 64) \in -2 .. 1
    BY <2>1 DEF KnownDefect, TruncatedAddress, CanConvertTo32
  <2>3. ir.va \in {0, 1, 14, 15}
    <3>1. Signed(ir.va, 64) = IF ir.va >= 8 THEN ir.va - 16 ELSE ir.va
      BY <1>1, <1>2, SignedIs
    <3> QED
      BY <1>2, <2>2, <3>1
  <2>4. o \in {Imm(ir.va, 32), Imm(ir.va, 64)}
    BY <2>1 DEF Pointer
  <2>5. o.at = ir.va /\ IsImm(o) /\ ~IsMem(o) /\ IsPlain(o)
    BY <1>1, <1>2, <2>4 DEF Imm, IsImm, IsMem, IsPlain
  <2>6. Displacement(o) = Imm(Low(ir.va, 32), 32)
    BY <2>5 DEF Displacement
  <2>7. IsImm(Displacement(o)) /\ Displacement(o).at = Low(ir.va, 32) /\ Displacement(o).sz = 32
    BY <2>6 DEF Imm, IsImm
  <2>8. Signed(Low(ir.va, 32), 32) % 16 = ir.va
    <3>1. Low(ir.va, 32) = ir.va % 4 /\ ir.va % 4 \in Int /\ (ir.va % 4) % 4 = ir.va % 4
      BY <1>1, <1>2, LowIs
    <3>2. Signed(ir.va % 4, 32) = IF ir.va % 4 >= 2 THEN (ir.va % 4) - 4 ELSE ir.va % 4
      BY <1>1, <3>1, SignedIs
    <3>3. ir.va = 0 \/ ir.va = 1 \/ ir.va = 14 \/ ir.va = 15
      BY <2>3
    <3> QED
      BY <3>1, <3>2, <3>3
  <2>9. \A l : Place(l, Displacement(o)) = ir.va
    BY <2>7, <2>8 DEF Place
  <2> QED
    BY <1>2, <1>3, <1>5, <2>5, <2>7, <2>9
<1> QED
  BY <1>4, <1>5

(* Loads are translated right.                                              *)
LEMMA LoadTranslates ==
  ASSUME ir \in Cases, ~KnownDefect, ir.op = "load", NEW k \in TranslateLoad
  PROVE  Translates(k)
<1> DEFINE sz == ir.sz
           res == Loc(Res, sz)
           address == Pointer(ir.a)
           v == Low(H0[ir.va], sz)
           Through(o, t) == <<Mov(t, At(o)), Mov(res, t)>>
<1>1. /\ ir.op \in OneResultOps /\ ir.op \notin BoolOps /\ ir.op \in {"load", "store"}
      /\ sz \in Sizes /\ RegistersAssumption /\ 64 \in Sizes
  BY InstrIs DEF OneResultOps, BoolOps, CompareOps, Sizes
<1>2. /\ Res \in Colors /\ ResultsOf = {Res} /\ ir.through \subseteq Colors \ {Res} /\ Result(sz) = res /\ InitialLoc \in Locs
      /\ Res \in Places /\ H0 \in Heaps
  BY <1>1, OneResult, Start, RegPlaces DEF Result, Res
<1>3. ResultSize = sz /\ IRValue = v
  <2>1. ir.va \in 0 .. 15
    BY Start
  <2>2. H0[ir.va] = (ir.va + 7) % 16
    BY <2>1 DEF H0
  <2> QED
    BY <1>1, <2>2 DEF ResultSize, IRValue
<1>4. IsReg(res) <=> Res < NumRegs
  BY LocIs
<1>5. Prepare(FALSE, {}) # {} /\ Prepare(TRUE, {}) # {}
  BY <1>1, <1>2, SomeTemporary
<1>6. ~IsMem(address) => Place(InitialLoc, Displacement(address)) = ir.va
  <2>1. CASE ir.a \in Computed
    <3>1. address = Loc(ir.a.v, 64) /\ Displacement(address) = address /\ InitialLoc[ir.a.v] = ir.va
      BY <1>1, <2>1, AddressIs
    <3> QED
      BY <3>1, LocIs DEF Place
  <2>2. CASE ir.a \notin Computed
    BY <1>1, <2>2, AddressIs
  <2> QED
    BY <2>1, <2>2
<1>7. CASE IsMem(address)
  <2>1. ir.a \in Computed /\ address = Loc(ir.a.v, 64) /\ InitialLoc[ir.a.v] = ir.va /\ IsPlain(address) /\ address.sz = 64
        /\ ir.a.v \in Colors /\ ir.a.k = "val" /\ Low(ir.va, 64) = ir.va /\ ir.va \in 0 .. 15
    BY <1>1, <1>7, AddressIs, LocIs
  <2>2. PICK t \in InTmp(TRUE, address, TRUE, {}) :
          k = t.before \o (IF IsReg(res) THEN <<Mov(res, At(t.o))>> ELSE Through(t.o, t.o)) \o t.after
    BY <1>2, <1>7 DEF TranslateLoad
  <2> DEFINE n == TRUE
             b == IF IsReg(res) THEN <<Mov(res, At(t.o))>> ELSE Through(t.o, t.o)
             x == t.o.at
  <2>3. PICK l1 \in Locs : Holding(t, n, address, TRUE, {}, InitialLoc, l1, H0, <<>>)
    <3>1. ir.through \subseteq Colors /\ ResultsOf \subseteq Colors /\ TRUE \in BOOLEAN
      BY <1>2
    <3> QED
      BY <1>1, <1>2, <1>5, <2>1, <2>2, <3>1, OperandInTmp
  <2>4. x \in Regs /\ t.o = Loc(x, 64) /\ l1[x] = ir.va
    <3>1. Value(InitialLoc, address, 64) = ir.va
      BY <2>1, LocIs DEF Value
    <3> QED
      BY <2>1, <2>3, <3>1 DEF Holding
  <2>5. x \in Places /\ x < NumRegs
    BY <1>1, <2>4, RegPlaces DEF Regs, RegistersAssumption
  <2> HIDE DEF x
  <2>6. At(t.o) = Heap(Loc(x, 64), sz) /\ Place(l1, Loc(x, 64)) = ir.va
    BY <2>4, LocIs DEF At, Place
  <2>7. SetsBut(b, {x}, Res, sz, v, l1, H0, <<>>)
    <3>1. CASE Res < NumRegs
      <4>1. b = <<Mov(Loc(Res, sz), Heap(Loc(x, 64), sz))>>
        BY <1>4, <2>6, <3>1
      <4>2. SetsBut(<<Mov(Loc(Res, sz), Heap(Loc(x, 64), sz))>>, {}, Res, sz, v, l1, H0, <<>>)
        <5> DEFINE o == Loc(x, 64)
                   c == Res
                   f == <<>>
                   h == H0
        <5>1. c \in Places /\ c < NumRegs /\ Place(l1, o) \in 0 .. 15 /\ v = Low(h[Place(l1, o)], sz) /\ h \in Heaps /\ sz \in Sizes
          BY <1>1, <1>2, <2>1, <2>6, <3>1
        <5> HIDE DEF o, c, v, sz, f, h
        <5>2. SetsBut(<<Mov(Loc(c, sz), Heap(o, sz))>>, {}, c, sz, v, l1, h, f)
          BY <1>1, <5>1, LoadGives
        <5> QED
          BY <5>2 DEF o, c, f, h
      <4> QED
        BY <4>1, <4>2 DEF SetsBut
    <3>2. CASE ~(Res < NumRegs)
      <4>1. sz = 64
        <5>1. InMem(ir.a.v)
          BY <1>1, <1>7, <2>1, LocIs DEF InMem, Colors, RegistersAssumption
        <5>2. InMem(Res)
          BY <1>1, <1>2, <3>2 DEF InMem, Colors, RegistersAssumption
        <5> QED
          BY <2>1, <5>1, <5>2 DEF KnownDefect, TmpOfOtherSize, OperandInMem
      <4>2. b = <<Mov(Loc(x, sz), Heap(Loc(x, 64), sz)), Mov(Loc(Res, sz), Loc(x, sz))>>
        BY <1>4, <2>4, <2>6, <3>2, <4>1
      <4>3. SetsBut(<<Mov(Loc(x, sz), Heap(Loc(x, 64), sz)), Mov(Loc(Res, sz), Loc(x, sz))>>, {x}, Res, sz, v, l1, H0, <<>>)
        <5> DEFINE o == Loc(x, 64)
                   c == Res
                   f == <<>>
                   h == H0
        <5>1. c \in Places /\ Place(l1, o) \in 0 .. 15 /\ v = Low(h[Place(l1, o)], sz) /\ h \in Heaps /\ sz \in Sizes
              /\ x \in Places /\ x < NumRegs /\ x # c
          BY <1>1, <1>2, <2>1, <2>5, <2>6, <3>2
        <5> HIDE DEF o, c, v, sz, f, h
        <5>2. SetsBut(<<Mov(Loc(x, sz), Heap(o, sz)), Mov(Loc(c, sz), Loc(x, sz))>>, {x}, c, sz, v, l1, h, f)
          BY <1>1, <5>1, LoadThroughGives
        <5> QED
          BY <5>2 DEF o, c, f, h
      <4> QED
        BY <4>2, <4>3
    <3> QED
      BY <3>1, <3>2
  <2>8. n \in BOOLEAN /\ {x} = (IF n THEN {t.o.at} ELSE {})
    BY DEF x
  <2> HIDE DEF n, b, v, sz
  <2>9. CanCompute(t.before \o b \o t.after, sz, v)
    BY <1>1, <1>2, <2>3, <2>7, <2>8, SetsInTmp
  <2> QED
    BY <1>1, <1>3, <2>2, <2>9, Computes DEF b
<1>8. CASE ~IsMem(address) /\ IsReg(res)
  <2> DEFINE o == Displacement(address)
             c == Res
             f == <<>>
             h == H0
  <2>1. k = <<Mov(Loc(c, sz), Heap(o, sz))>>
    BY <1>2, <1>8, AtIs DEF TranslateLoad
  <2>2. c \in Places /\ c < NumRegs /\ Place(InitialLoc, o) \in 0 .. 15 /\ v = Low(h[Place(InitialLoc, o)], sz) /\ h \in Heaps /\ sz \in Sizes
    BY <1>1, <1>2, <1>4, <1>6, <1>8, Start
  <2> HIDE DEF o, c, v, sz, f, h
  <2>3. SetsBut(k, {}, c, sz, v, InitialLoc, h, f)
    BY <1>1, <1>2, <2>1, <2>2, LoadGives
  <2>4. PICK l2 : /\ Gives(k, InitialLoc, h, f, l2, h, f)
                  /\ Low(l2[c], sz) = v
                  /\ \A y \in Places \ ({} \cup {c}) : l2[y] = InitialLoc[y]
    BY <2>3 DEF SetsBut
  <2>5. \A y \in ir.through : l2[y] = InitialLoc[y]
    BY <1>1, <1>2, <2>4, RegPlaces DEF c
  <2>6. CanCompute(k, sz, v)
    BY <2>4, <2>5 DEF CanCompute, c, h, f
  <2> QED
    BY <1>1, <1>3, <2>6, Computes
<1>9. CASE ~IsMem(address) /\ ~IsReg(res)
  <2>1. PICK t \in Prepare(FALSE, {}) : k = Around(t, Through(address, Loc(t.c, sz)))
    BY <1>2, <1>5, <1>9 DEF TranslateLoad
  <2>2. /\ t = [c |-> t.c, saved |-> t.saved] /\ t.saved \in BOOLEAN
        /\ t.c \in Regs /\ t.c # Res
        /\ ~t.saved => t.c \notin ir.through
    BY <1>1, <1>2, Temporary
  <2> DEFINE o == Displacement(address)
             c == Res
             f == <<>>
             h == H0
             x == t.c
             b == <<Mov(Loc(x, sz), Heap(o, sz)), Mov(Loc(c, sz), Loc(x, sz))>>
  <2>3. k = Save(t) \o b \o Restore(t)
    BY <2>1, AtIs DEF Around
  <2>4. c \in Places /\ Place(InitialLoc, o) \in 0 .. 15 /\ v = Low(h[Place(InitialLoc, o)], sz) /\ h \in Heaps /\ sz \in Sizes
        /\ x \in Places /\ x < NumRegs /\ x # c
    BY <1>1, <1>2, <1>6, <1>9, <2>2, Start, RegPlaces DEF Regs, RegistersAssumption
  <2> HIDE DEF o, c, v, sz, f, h, x
  <2>5. SetsBut(b, {x}, c, sz, v, InitialLoc, h, f)
    BY <1>1, <1>2, <2>4, LoadThroughGives
  <2>6. PICK l2 : /\ Gives(b, InitialLoc, h, f, l2, h, f)
                  /\ Low(l2[c], sz) = v
                  /\ \A y \in Places \ ({x} \cup {c}) : l2[y] = InitialLoc[y]
    BY <2>5 DEF SetsBut
  <2> HIDE DEF b
  <2> DEFINE saved == t.saved
             l3 == IF saved THEN [l2 EXCEPT ![x] = InitialLoc[x]] ELSE l2
  <2>7. t = [c |-> x, saved |-> saved] /\ saved \in BOOLEAN
    BY <2>2 DEF x
  <2>8. l2 \in Locs
    BY <2>6 DEF Gives
  <2>9. \A y \in Places : l3[y] = IF saved /\ y = x THEN InitialLoc[y] ELSE l2[y]
    BY <2>4, <2>8 DEF Locs
  <2> HIDE DEF saved
  <2>10. Gives(Save(t) \o b \o Restore(t), InitialLoc, h, f, l3, h, f)
    BY <1>2, <2>4, <2>6, <2>7, GivesTmp
  <2> HIDE DEF l3
  <2>11. \A y \in ir.through : l3[y] = InitialLoc[y]
    BY <1>1, <1>2, <2>2, <2>6, <2>9, RegPlaces DEF c, x, saved
  <2>12. Low(l3[c], sz) = v
    BY <2>4, <2>6, <2>9
  <2>13. CanCompute(k, sz, v)
    BY <2>3, <2>10, <2>11, <2>12 DEF CanCompute, c, h, f
  <2> QED
    BY <1>1, <1>3, <2>13, Computes
<1> QED
  BY <1>7, <1>8, <1>9

(* Stores are translated right, with up to two temporaries.                 *)
LEMMA StoreTranslates ==
  ASSUME ir \in Cases, ~KnownDefect, ir.op = "store", NEW k \in TranslateStore
  PROVE  Translates(k)
<1> DEFINE sz == ir.sz
           address == Pointer(ir.a)
           value == Unnarrowed(ir.b)
           n == IsWideImm(value) \/ IsMem(value)
           na == IsMem(address)
           h == H0
           f == <<>>
           none == {}
<1>1. /\ sz \in Sizes /\ RegistersAssumption /\ InitialLoc \in Locs /\ h \in Heaps /\ ir.op \in {"load", "store"}
      /\ ir.va \in 0 .. 15 /\ ir.vb \in Words(sz) /\ Low(ir.vb, sz) = ir.vb
      /\ FALSE \in BOOLEAN /\ n \in BOOLEAN /\ na \in BOOLEAN
  <2>1. n \in BOOLEAN /\ na \in BOOLEAN
    BY DEF IsMem
  <2> HIDE DEF n, na
  <2>2. sz \in Sizes /\ ir.vb \in Words(sz)
    BY InstrIs, Start
  <2>3. Low(ir.vb, sz) = ir.vb
    BY <2>2, LowOfWord
  <2> QED
    BY <2>1, <2>2, <2>3, InstrIs, Start
<1>2. ResultsOf = {} /\ ir.through \subseteq Colors /\ ResultsOf \subseteq Colors
  <2>1. HasPlaces(ir)
    BY InstrIs
  <2>2. ir.results \in Seq(Colors) /\ Len(ir.results) = 0
    BY <2>1 DEF HasPlaces, NumResults
  <2> QED
    BY <2>2, InstrIs DEF ResultsOf, ToSet
<1>3. /\ IsPlain(value) /\ value.sz = sz /\ SizesMatch(Loc(0, sz), value)
      /\ Value(InitialLoc, value, sz) = ir.vb
      /\ ir.b \in Computed => value = Loc(ir.b.v, sz) /\ ~IsImm(value) /\ ir.b.k = "val" /\ ir.b.v \in Colors \cap OperandColors
      /\ ir.b \notin Computed => IsImm(value) /\ ~IsMem(value)
  <2>1. value = TranslateValue(ir.b, ir.sz, ir.signed, FALSE) /\ ir.b \in Values(ir.sz)
    BY OperandsAre DEF Unnarrowed
  <2>2. Value(InitialLoc, value, sz) = ir.vb
    <3> DEFINE narrowing == FALSE
    <3>1. value = TranslateValue(ir.b, ir.sz, ir.signed, narrowing) /\ narrowing \in BOOLEAN /\ (narrowing => ~NarrowsWrongly(ir.b))
      BY <2>1
    <3> HIDE DEF narrowing, value
    <3>2. Value(InitialLoc, TranslateValue(ir.b, ir.sz, ir.signed, narrowing), ir.sz) = ir.vb
      BY <3>1, OperandB
    <3> QED
      BY <3>1, <3>2
  <2>3. /\ IsPlain(value) /\ \A c : SizesMatch(Loc(c, sz), value)
        /\ ir.b \in Computed => value = Loc(ir.b.v, sz) /\ ~IsImm(value) /\ value.sz = sz
        /\ ir.b \notin Computed => IsImm(value) /\ value.sz = sz
    <3> DEFINE narrowing == FALSE
    <3>1. value = TranslateValue(ir.b, ir.sz, ir.signed, narrowing) /\ narrowing \in BOOLEAN /\ ~narrowing
      BY <2>1
    <3> HIDE DEF narrowing, value
    <3> QED
      BY <2>1, <3>1, Translated
  <2>4. IsImm(value) => ~IsMem(value)
    BY DEF IsImm, IsMem
  <2> QED
    BY <2>2, <2>3, <2>4, Start
<1>4. /\ IsPlain(address)
      /\ ir.a \in Computed => /\ address = Loc(ir.a.v, 64) /\ ir.a.v \in Colors \cap OperandColors
                              /\ ir.a.k = "val" /\ InitialLoc[ir.a.v] = ir.va /\ Displacement(address) = address
      /\ ir.a \notin Computed => /\ IsImm(address) /\ ~IsMem(address) /\ IsImm(Displacement(address))
                                 /\ \A l : Place(l, Displacement(address)) = ir.va
  BY <1>1, AddressIs
<1>5. PICK v \in InTmp(n, value, FALSE, none) :
        \E a \in InTmp(na, address, FALSE, IF n THEN {v.o.at} ELSE {}) :
          k = v.before \o (a.before \o <<Mov(At(a.o), v.o)>> \o a.after) \o v.after
  BY DEF TranslateStore
<1> DEFINE taken == IF n THEN {v.o.at} ELSE {}
           x == v.o.at
<1>6. PICK a \in InTmp(na, address, FALSE, taken) :
        k = v.before \o (a.before \o <<Mov(At(a.o), v.o)>> \o a.after) \o v.after
  BY <1>5
<1> DEFINE y == a.o.at
<1>7. Prepare(FALSE, none) # {} /\ Prepare(FALSE, taken) # {}
  <2>1. ResultsOf \subseteq {0} /\ none \subseteq {v.o.at} /\ taken \subseteq {v.o.at}
    BY <1>2
  <2> HIDE DEF none, taken
  <2> QED
    BY <1>1, <2>1, SomeTemporary
<1>8. n => (OperandInMem(ir.b) \/ IsWideImm(value))
  <2>1. SUFFICES ASSUME n, ~IsWideImm(value) PROVE OperandInMem(ir.b)
    OBVIOUS
  <2>2. IsMem(value)
    BY <2>1
  <2>3. ir.b \in Computed /\ value = Loc(ir.b.v, sz)
    BY <1>3, <2>2
  <2>4. ~(ir.b.v < NumRegs)
    BY <2>2, <2>3, LocIs
  <2> QED
    BY <1>1, <1>3, <2>3, <2>4 DEF OperandInMem, InMem, Colors, RegistersAssumption
<1>9. n /\ ir.a \in Computed => ir.a.v \notin SavedOf(FALSE, none)
  <2>1. SUFFICES ASSUME n, ir.a \in Computed, ir.a.v \in SavedOf(FALSE, none) PROVE FALSE
    OBVIOUS
  <2>2. IsIn(ir.a, SavedTmp(FALSE))
    BY <1>4, <2>1 DEF IsIn, SavedTmp, SavedOf
  <2> QED
    BY <1>8, <2>1, <2>2 DEF KnownDefect, TmpHoldsOperand
<1>10. na /\ ~n /\ ir.b \in Computed => ir.b.v \notin SavedOf(FALSE, none)
  <2>1. SUFFICES ASSUME na, ir.b \in Computed, ir.b.v \in SavedOf(FALSE, none) PROVE FALSE
    OBVIOUS
  <2>2. IsIn(ir.b, SavedTmp(FALSE))
    BY <1>3, <2>1 DEF IsIn, SavedTmp, SavedOf
  <2>3. OperandInMem(ir.a)
    <3>1. ir.a \in Computed /\ address = Loc(ir.a.v, 64)
      BY <1>4, <2>1
    <3>2. ~(ir.a.v < NumRegs)
      BY <2>1, <3>1, LocIs
    <3> QED
      BY <1>1, <1>4, <3>1, <3>2 DEF OperandInMem, InMem, Colors, RegistersAssumption
  <2> QED
    BY <2>2, <2>3 DEF KnownDefect, TmpHoldsOperand
<1>11. ~n => ~IsWideImm(value) /\ ~IsMem(value)
  OBVIOUS
<1>12. ~na => ~IsMem(address)
  OBVIOUS
<1>13. (~n => taken = none) /\ (n => x \in taken)
  OBVIOUS
<1> HIDE DEF n, na, none, taken, value, address, h, f, sz
<1>14. PICK l1 \in Locs : Holding(v, n, value, FALSE, none, InitialLoc, l1, h, f)
  BY <1>1, <1>2, <1>3, <1>5, <1>7, OperandInTmp
<1>15. PICK l2 \in Locs : Holding(a, na, address, FALSE, taken, l1, l2, h, f)
  BY <1>1, <1>2, <1>4, <1>6, <1>7, OperandInTmp
<1>16. ir.a \in Computed => l1[ir.a.v] = ir.va
  <2>1. SUFFICES ASSUME ir.a \in Computed PROVE l1[ir.a.v] = InitialLoc[ir.a.v]
    BY <1>4
  <2>2. ir.a.v \in Places /\ ir.a.v \in OperandColors
    BY <1>1, <1>4, <2>1, RegPlaces
  <2>3. n => x # ir.a.v
    BY <1>9, <1>14, <2>1, <2>2 DEF Holding
  <2> QED
    BY <1>14, <2>2, <2>3 DEF Holding
<1>17. Place(l2, Displacement(a.o)) = ir.va
  <2>1. CASE na
    <3>1. IsMem(address) /\ ir.a \in Computed /\ address = Loc(ir.a.v, 64) /\ address.sz = 64
      BY <1>4, <2>1, LocIs DEF na
    <3>2. y \in Regs /\ a.o = Loc(y, 64) /\ l2[y] = Value(l1, address, 64)
      BY <1>15, <2>1, <3>1 DEF Holding
    <3>3. Value(l1, address, 64) = ir.va
      <4>1. Low(ir.va, 64) = ir.va
        BY <1>1, AddressIs
      <4> QED
        BY <1>16, <3>1, <4>1, LocIs DEF Value
    <3> HIDE DEF y
    <3>4. Displacement(a.o) = a.o /\ Place(l2, a.o) = l2[y]
      BY <3>2, LocIs DEF Displacement, Place
    <3> QED
      BY <3>2, <3>3, <3>4
  <2>2. CASE ~na
    <3>1. a.o = address /\ l2 = l1
      BY <1>15, <2>2 DEF Holding
    <3>2. CASE ir.a \in Computed
      <4>1. Displacement(a.o) = Loc(ir.a.v, 64)
        BY <1>4, <3>1, <3>2
      <4> QED
        BY <1>16, <3>1, <3>2, <4>1, LocIs DEF Place
    <3>3. CASE ir.a \notin Computed
      BY <1>4, <3>1, <3>3
    <3> QED
      BY <3>2, <3>3
  <2> QED
    BY <2>1, <2>2
<1>18. IsPlain(v.o) /\ v.o.sz = sz /\ ~IsMem(v.o) /\ ~IsWideImm(v.o)
  <2>1. CASE n
    <3>1. x \in Regs /\ v.o = Loc(x, sz)
      BY <1>3, <1>14, <2>1 DEF Holding
    <3>2. x < NumRegs
      BY <1>1, <3>1 DEF Regs, RegistersAssumption
    <3> HIDE DEF x
    <3>3. ~IsMem(v.o) /\ ~IsWideImm(v.o)
      BY <3>1, <3>2, LocIs
    <3> QED
      BY <1>3, <1>14, <3>3 DEF Holding
  <2>2. CASE ~n
    BY <1>3, <1>11, <1>14, <2>2 DEF Holding
  <2> QED
    BY <2>1, <2>2
<1>19. Value(l2, v.o, sz) = ir.vb
  <2>1. Value(l1, v.o, sz) = ir.vb
    BY <1>3, <1>14 DEF Holding
  <2>2. CASE IsImm(v.o)
    BY <2>1, <2>2 DEF Value
  <2>3. CASE ~IsImm(v.o)
    <3>1. x \in Places
      BY <1>18, <2>3, PlainIs
    <3>2. na => y # x
      <4>1. SUFFICES ASSUME na PROVE y # x
        OBVIOUS
      <4>2. y \notin taken /\ (y \in OperandColors => y \in SavedOf(FALSE, taken))
        BY <1>15, <4>1 DEF Holding
      <4>3. CASE n
        BY <1>13, <4>2, <4>3
      <4>4. CASE ~n
        <5>1. v.o = value /\ taken = none
          BY <1>13, <1>14, <4>4 DEF Holding
        <5>2. ir.b \in Computed /\ value = Loc(ir.b.v, sz) /\ ir.b.v \in OperandColors
          BY <1>3, <2>3, <5>1
        <5>3. x = ir.b.v
          BY <5>1, <5>2, LocIs
        <5> QED
          BY <1>10, <4>1, <4>2, <4>4, <5>1, <5>2, <5>3
      <4> QED
        BY <4>3, <4>4
    <3>3. l2[x] = l1[x]
      BY <1>15, <3>1, <3>2 DEF Holding
    <3> QED
      BY <2>1, <2>3, <3>3 DEF Value
  <2> QED
    BY <2>2, <2>3
<1> DEFINE g == [h EXCEPT ![ir.va] = ir.vb]
           i == Mov(At(a.o), v.o)
<1>20. Gives(<<i>>, l2, h, f, l2, g, f)
  <2> DEFINE o == Displacement(a.o)
  <2>1. At(a.o) = Heap(o, sz)
    BY AtIs DEF sz
  <2>2. Constructible(Mov(Heap(o, sz), v.o))
    <3>1. SizesMatch(Heap(o, sz), v.o)
      BY <1>18 DEF SizesMatch, Heap
    <3> QED
      BY <1>18, <3>1 DEF Constructible, Mov, I
  <2>3. Place(l2, o) = ir.va /\ Place(l2, o) \in 0 .. 15
    BY <1>1, <1>17
  <2> HIDE DEF o
  <2>4. Gives(<<Mov(Heap(o, sz), v.o)>>, l2, h, f, l2, [h EXCEPT ![Place(l2, o)] = Value(l2, v.o, sz)], f)
    BY <1>1, <1>15, <1>18, <2>2, <2>3, GivesStore
  <2> QED
    BY <1>19, <2>1, <2>3, <2>4
<1> HIDE DEF i, g
<1>21. PICK l3 : /\ Gives(a.before \o <<i>> \o a.after, l1, h, f, l3, g, f)
                 /\ \A c \in ir.through \ ResultsOf : (na /\ c = y) \/ l2[c] = l2[c] => l3[c] = l1[c]
  BY <1>15, <1>20 DEF Holding, Wraps
<1>22. PICK l4 : /\ Gives(v.before \o (a.before \o <<i>> \o a.after) \o v.after, InitialLoc, h, f, l4, g, f)
                 /\ \A c \in ir.through \ ResultsOf : (n /\ c = x) \/ l3[c] = l1[c] => l4[c] = InitialLoc[c]
  BY <1>14, <1>21 DEF Holding, Wraps
<1>23. \A c \in ir.through : l4[c] = InitialLoc[c]
  BY <1>2, <1>21, <1>22
<1> DEFINE z == Core(l4, g, f, <<>>)
<1>24. Runs(k, InitialMachine, z)
  <2>1. <<>> \in Seq(Nat)
    OBVIOUS
  <2>2. k = v.before \o (a.before \o <<i>> \o a.after) \o v.after
    BY <1>6 DEF i
  <2> QED
    BY <1>22, <2>1, <2>2, Start DEF Gives, h, f
<1>25. z.loc = l4 /\ z.stack = <<>> /\ z.heap = g
  BY DEF Core
<1> HIDE DEF z
<1>26. g = [c \in 0 .. 15 |-> IF c = ir.va THEN Low(ir.vb, ir.sz) ELSE (c + 7) % 16]
  <2>1. Low(ir.vb, ir.sz) = ir.vb
    BY <1>1 DEF sz
  <2> QED
    BY <2>1 DEF g, h, H0
<1>27. Right(z)
  BY <1>23, <1>25, <1>26 DEF Right, Effect
<1> QED
  BY <1>24, <1>27 DEF Translates

(* A sequence of one instruction and one of two joined.                     *)
LEMMA OneAndTwo ==
  ASSUME NEW a, NEW b, NEW c
  PROVE  <<a>> \o <<b, c>> = <<a, b, c>>
<1> DEFINE d == <<a>> \o <<b, c>>
           e == <<a, b, c>>
<1>1. d \in Seq({a, b, c}) /\ e \in Seq({a, b, c}) /\ Len(d) = 3 /\ Len(e) = 3
  OBVIOUS
<1>2. d[1] = a /\ d[2] = b /\ d[3] = c /\ e[1] = a /\ e[2] = b /\ e[3] = c
  OBVIOUS
<1> HIDE DEF d, e
<1>3. \A i \in 1 .. Len(d) : d[i] = e[i]
  BY <1>1, <1>2
<1>4. d = e
  BY <1>1, <1>3, SeqEqual
<1> QED
  BY <1>4 DEF d, e

(* Three instructions that can be built take the machine three steps.       *)
LEMMA ThreeSteps ==
  ASSUME NEW i, NEW j, NEW k, Ok(i), Ok(j), Ok(k), NEW x
  PROVE  Runs(<<i, j, k>>, x, After(After(After(x, i), j), k))
<1>1. Runs(<<i>> \o (<<j>> \o <<k>>), x, After(After(After(x, i), j), k))
  BY OneStep, ThenRuns
<1>2. <<i>> \o (<<j>> \o <<k>>) = <<i, j, k>>
  BY OneAndOne, OneAndTwo
<1> QED
  BY <1>1, <1>2

(* The machine after the value a conditional jump depends on was tested.    *)
Jumped(l, f, j) ==
  [loc |-> l, heap |-> H0, stack |-> <<>>, flags |-> f, jump |-> j, called |-> <<>>]

(* The first jump that is taken is the one that counts.                     *)
LEMMA AfterJmp ==
  ASSUME NEW l, NEW f, NEW j, NEW to \in BOOLEAN
  PROVE  /\ Ok(Jmp(to))
         /\ After(Jumped(l, f, j), Jmp(to)) = Jumped(l, f, IF j = "no" THEN IF to THEN "true" ELSE "false" ELSE j)
<1>1. Ok(Jmp(to))
  BY DEF Ok, Constructible, Jmp
<1>2. After(Jumped(l, f, j), Jmp(to))
        = IF Jumped(l, f, j).jump = "no" THEN [Jumped(l, f, j) EXCEPT !.jump = IF to THEN "true" ELSE "false"]
          ELSE Jumped(l, f, j)
  BY DEF After, Jmp
<1>3. Jumped(l, f, j).jump = j
  BY DEF Jumped
<1>4. \A q : [Jumped(l, f, j) EXCEPT !.jump = q] = Jumped(l, f, q)
  BY DEF Jumped
<1> QED
  BY <1>1, <1>2, <1>3, <1>4

(* Conditional jumps are translated right.                                  *)
LEMMA JumpCondTranslates ==
  ASSUME ir \in Cases, ir.op = "jumpcond", NEW k \in TranslateJumpCond
  PROVE  Translates(k)
<1> DEFINE l == InitialLoc
           to == IF ir.va = 1 THEN "true" ELSE "false"
<1>1. /\ InitialMachine = Jumped(l, <<>>, "no") /\ l \in Locs
      /\ ir.va \in 0 .. 1
      /\ ir.a \in Computed => ir.a.v \in Colors /\ l[ir.a.v] = ir.va /\ ir.a.k = "val"
      /\ ir.a \notin Computed => ir.va = ir.a.v /\ ir.a.k = "const"
  <2>1. HasValues(ir)
    BY InstrIs
  <2>2. ir.va \in 0 .. 1
    BY <2>1 DEF HasValues
  <2>3. InitialMachine = Jumped(l, <<>>, "no")
    BY DEF InitialMachine, Jumped, H0
  <2> QED
    BY <2>2, <2>3, Start
<1>2. ASSUME NEW f, Runs(k, InitialMachine, Jumped(l, f, to)) PROVE Translates(k)
  <2> DEFINE y == Jumped(l, f, to)
  <2>1. y.loc = l /\ y.jump = to /\ y.stack = <<>>
    BY DEF Jumped
  <2> HIDE DEF y
  <2>2. Effect(y)
    BY <2>1 DEF Effect
  <2>3. Right(y)
    BY <2>1, <2>2 DEF Right
  <2> QED
    BY <1>2, <2>3 DEF Translates, y
<1>3. CASE ir.a \notin Computed
  <2> DEFINE b == ir.a.v = 1
  <2>1. k = <<Jmp(b)>>
    BY <1>1, <1>3 DEF TranslateJumpCond
  <2>2. b \in BOOLEAN /\ to = IF b THEN "true" ELSE "false"
    BY <1>1, <1>3
  <2> HIDE DEF b, to
  <2>3. Ok(Jmp(b)) /\ After(Jumped(l, <<>>, "no"), Jmp(b)) = Jumped(l, <<>>, to)
    <3> DEFINE f == <<>>
               j == "no"
    <3>1. j = "no"
      OBVIOUS
    <3> HIDE DEF f, j
    <3>2. Ok(Jmp(b)) /\ After(Jumped(l, f, j), Jmp(b)) = Jumped(l, f, IF j = "no" THEN IF b THEN "true" ELSE "false" ELSE j)
      BY <2>2, AfterJmp
    <3> QED
      BY <2>2, <3>1, <3>2 DEF f, j
  <2>4. Runs(<<Jmp(b)>>, Jumped(l, <<>>, "no"), Jumped(l, <<>>, to))
    BY <2>3, OneStep
  <2> QED
    BY <1>1, <1>2, <2>1, <2>4
<1>4. CASE ir.a \in Computed
  <2> DEFINE c == ir.a.v
             i == I("test", Loc(c, 8), Imm(3, 8))
             j == I("jz", None, None)
             f == <<ir.va, 0, 8>>
             then == IF ir.va = 0 THEN "false" ELSE "no"
             b == TRUE
  <2>1. k = <<i, j, Jmp(b)>>
    BY <1>1, <1>4 DEF TranslateJumpCond
  <2>2. Ok(i)
    BY DEF Ok, Constructible, I, Loc, Imm, SizesMatch, IsWideImm, IsImm, IsMem
  <2>3. Ok(j)
    BY DEF Ok, Constructible, I
  <2>4. After(Jumped(l, <<>>, "no"), i) = Jumped(l, f, "no")
    <3> DEFINE x == Jumped(l, <<>>, "no")
    <3>1. After(x, i) = [x EXCEPT !.flags = <<Read(x, Loc(c, 8), 8), 0, 8>>]
      BY DEF After, I
    <3>2. Read(x, Loc(c, 8), 8) = Value(l, Loc(c, 8), 8)
      <4>1. x.loc = l /\ 8 \in Sizes /\ c \in Places
        BY <1>1, <1>4, RegPlaces, InstrIs DEF Jumped, Sizes
      <4>2. IsPlain(Loc(c, 8))
        BY <4>1 DEF IsPlain
      <4> HIDE DEF x, c
      <4> QED
        BY <4>1, <4>2, ReadPlain
    <3>3. Value(l, Loc(c, 8), 8) = ir.va
      <4>1. Low(ir.va, 8) = ir.va % 4
        BY <1>1, LowIs DEF Sizes
      <4>2. Low(ir.va, 8) = ir.va
        BY <1>1, <4>1
      <4> QED
        BY <1>1, <1>4, <4>2, LocIs DEF Value
    <3>4. \A q : [x EXCEPT !.flags = q] = Jumped(l, q, "no")
      BY DEF Jumped
    <3> HIDE DEF x, i
    <3> QED
      BY <3>1, <3>2, <3>3, <3>4 DEF x
  <2>5. After(Jumped(l, f, "no"), j) = Jumped(l, f, then)
    <3> DEFINE x == Jumped(l, f, "no")
    <3>1. After(x, j) = IF x.flags[1] = 0 /\ x.jump = "no" THEN [x EXCEPT !.jump = "false"] ELSE x
      BY DEF After, I
    <3>2. x.flags[1] = ir.va /\ x.jump = "no"
      BY DEF Jumped
    <3>3. [x EXCEPT !.jump = "false"] = Jumped(l, f, "false")
      BY DEF Jumped
    <3> HIDE DEF x, j, f
    <3> QED
      BY <3>1, <3>2, <3>3 DEF x
  <2>6. Ok(Jmp(b)) /\ After(Jumped(l, f, then), Jmp(b)) = Jumped(l, f, to)
    <3>1. b \in BOOLEAN /\ b
      OBVIOUS
    <3>2. to = IF then = "no" THEN IF b THEN "true" ELSE "false" ELSE then
      BY <1>1
    <3> HIDE DEF b, then, f, to
    <3> QED
      BY <3>1, <3>2, AfterJmp
  <2> HIDE DEF i, j, b, then, f, to
  <2>7. Runs(<<i, j, Jmp(b)>>, Jumped(l, <<>>, "no"), Jumped(l, f, to))
    <3> DEFINE x == Jumped(l, <<>>, "no")
    <3>1. After(After(After(x, i), j), Jmp(b)) = Jumped(l, f, to)
      BY <2>4, <2>5, <2>6
    <3> HIDE DEF x
    <3>2. Runs(<<i, j, Jmp(b)>>, x, Jumped(l, f, to))
      BY <2>2, <2>3, <2>6, <3>1, ThreeSteps
    <3> QED
      BY <3>2 DEF x
  <2> QED
    BY <1>1, <1>2, <2>1, <2>7
<1> QED
  BY <1>3, <1>4

-----------------------------------------------------------------------------
(* Saving and restoring registers around code that may call a function.     *)

(* The machine with these locations and this stack once v was called.       *)
CallState(l, s, v) ==
  [loc |-> l, heap |-> H0, stack |-> s, flags |-> <<>>, jump |-> "no", called |-> v]

(* A push between calls.                                                    *)
LEMMA CallStatePush ==
  ASSUME NEW l, NEW s, NEW v, NEW c
  PROVE  Ok(Push(c)) /\ After(CallState(l, s, v), Push(c)) = CallState(l, Append(s, l[c]), v)
<1>1. Ok(Push(c))
  BY DEF Ok, Constructible, Push, I
<1>2. After(CallState(l, s, v), Push(c)) = AfterStackOp(CallState(l, s, v), Push(c))
  BY DEF After, Push, I
<1>3. AfterStackOp(CallState(l, s, v), Push(c)) = [CallState(l, s, v) EXCEPT !.stack = Append(s, l[c])]
  BY DEF AfterStackOp, Push, I, CallState, Loc
<1>4. \A w : [CallState(l, s, v) EXCEPT !.stack = w] = CallState(l, w, v)
  BY DEF CallState
<1> QED
  BY <1>1, <1>2, <1>3, <1>4

(* A pop between calls.                                                     *)
LEMMA CallStatePop ==
  ASSUME NEW l \in Locs, NEW s, NEW v, NEW c \in Places
  PROVE  Ok(Pop(c)) /\ After(CallState(l, s, v), Pop(c)) = CallState([l EXCEPT ![c] = s[Len(s)]], Front(s), v)
<1>1. Ok(Pop(c))
  BY DEF Ok, Constructible, Pop, I
<1>2. After(CallState(l, s, v), Pop(c)) = CallState([l EXCEPT ![c] = s[Len(s)]], Front(s), v)
  BY DEF Pop, I, After, AfterStackOp, CallState, Loc
<1> QED
  BY <1>1, <1>2

(* The stack s with the first n registers of q pushed, as l has them.       *)
Stacked(s, q, l, n) == [j \in 1 .. (Len(s) + n) |-> IF j <= Len(s) THEN s[j] ELSE l[q[j - Len(s)]]]

(* The stack after n pushes: one more push appends to it, a pop takes the   *)
(* last one off.                                                            *)
LEMMA StackedIs ==
  ASSUME NEW s \in Seq(Nat), NEW q \in Seq(Places), NEW l \in Locs, NEW n \in 0 .. Len(q)
  PROVE  /\ Stacked(s, q, l, n) \in Seq(Nat) /\ Len(Stacked(s, q, l, n)) = Len(s) + n
         /\ n = 0 => Stacked(s, q, l, n) = s
         /\ n < Len(q) => Append(Stacked(s, q, l, n), l[q[n + 1]]) = Stacked(s, q, l, n + 1)
         /\ n > 0 => /\ Front(Stacked(s, q, l, n)) = Stacked(s, q, l, n - 1)
                     /\ Stacked(s, q, l, n)[Len(Stacked(s, q, l, n))] = l[q[n]]
<1>1. Len(s) \in Nat /\ Len(q) \in Nat /\ (\A j \in 1 .. Len(q) : l[q[j]] \in Nat) /\ (\A j \in 1 .. Len(s) : s[j] \in Nat)
  BY DEF Locs
<1>2. ASSUME NEW k \in 0 .. Len(q)
      PROVE  /\ Stacked(s, q, l, k) \in Seq(Nat) /\ Len(Stacked(s, q, l, k)) = Len(s) + k
             /\ \A j \in 1 .. (Len(s) + k) : Stacked(s, q, l, k)[j] = IF j <= Len(s) THEN s[j] ELSE l[q[j - Len(s)]]
  <2> DEFINE E(j) == IF j <= Len(s) THEN s[j] ELSE l[q[j - Len(s)]]
             w == Stacked(s, q, l, k)
  <2>1. ASSUME NEW j \in 1 .. (Len(s) + k) PROVE E(j) \in Nat
    <3>1. CASE j <= Len(s)
      <4>1. j \in 1 .. Len(s)
        BY <1>1, <3>1
      <4> QED
        BY <1>1, <3>1, <4>1
    <3>2. CASE ~(j <= Len(s))
      <4>1. j - Len(s) \in 1 .. Len(q)
        BY <1>1, <3>2
      <4> QED
        BY <1>1, <3>2, <4>1
    <3> QED
      BY <3>1, <3>2
  <2>2. w = [j \in 1 .. (Len(s) + k) |-> E(j)] /\ Len(s) + k \in Nat
    BY <1>1 DEF Stacked
  <2> HIDE DEF E, w
  <2>3. w \in [1 .. (Len(s) + k) -> Nat]
    BY <2>1, <2>2
  <2>4. w \in Seq(Nat) /\ Len(w) = Len(s) + k
    BY <2>2, <2>3
  <2>5. \A j \in 1 .. (Len(s) + k) : w[j] = E(j)
    BY <2>2
  <2> QED
    BY <2>4, <2>5 DEF w, E
<1>3. Stacked(s, q, l, n) \in Seq(Nat) /\ Len(Stacked(s, q, l, n)) = Len(s) + n
  BY <1>2
<1>4. ASSUME n = 0 PROVE Stacked(s, q, l, n) = s
  <2>1. \A j \in 1 .. Len(s) : Stacked(s, q, l, n)[j] = s[j]
    BY <1>1, <1>2, <1>4
  <2> QED
    BY <1>1, <1>3, <1>4, <2>1, SeqEqual
<1> DEFINE Item(j) == IF j <= Len(s) THEN s[j] ELSE l[q[j - Len(s)]]
<1>5. ASSUME n < Len(q) PROVE Append(Stacked(s, q, l, n), l[q[n + 1]]) = Stacked(s, q, l, n + 1)
  <2> DEFINE t == Stacked(s, q, l, n)
             u == Stacked(s, q, l, n + 1)
             w == l[q[n + 1]]
             a == Append(t, w)
             k == Len(s) + n
  <2>1. n + 1 \in 0 .. Len(q) /\ n + 1 \in 1 .. Len(q) /\ w \in Nat /\ k \in Nat
    BY <1>1, <1>5
  <2>2. u \in Seq(Nat) /\ Len(u) = k + 1 /\ \A j \in 1 .. (k + 1) : u[j] = Item(j)
    <3>1. Len(s) + (n + 1) = k + 1
      BY <1>1
    <3> QED
      BY <1>2, <2>1, <3>1
  <2>3. t \in Seq(Nat) /\ Len(t) = k /\ \A j \in 1 .. k : t[j] = Item(j)
    BY <1>2
  <2>4. Item(k + 1) = w
    BY <1>1
  <2> HIDE DEF t, u, Item, w, k
  <2>5. a \in Seq(Nat) /\ Len(a) = k + 1 /\ a[k + 1] = w /\ \A j \in 1 .. k : a[j] = t[j]
    BY <2>1, <2>3, AppendProperties
  <2> HIDE DEF a
  <2>6. ASSUME NEW j \in 1 .. (k + 1) PROVE a[j] = u[j]
    <3>1. CASE j = k + 1
      BY <2>2, <2>4, <2>5, <3>1
    <3>2. CASE j # k + 1
      <4>1. j \in 1 .. k
        BY <2>1, <3>2
      <4> QED
        BY <2>2, <2>3, <2>5, <4>1
    <3> QED
      BY <3>1, <3>2
  <2>7. a = u
    BY <2>2, <2>5, <2>6, SeqEqual
  <2> QED
    BY <2>7 DEF a, t, u, w
<1>6. ASSUME n > 0 PROVE /\ Front(Stacked(s, q, l, n)) = Stacked(s, q, l, n - 1)
                        /\ Stacked(s, q, l, n)[Len(Stacked(s, q, l, n))] = l[q[n]]
  <2> DEFINE t == Stacked(s, q, l, n)
             u == Stacked(s, q, l, n - 1)
             a == Front(t)
             k == Len(s) + n
  <2>1. n - 1 \in 0 .. Len(q) /\ n \in 1 .. Len(q) /\ k \in Nat /\ k - 1 \in Nat
    BY <1>1, <1>6
  <2>2. u \in Seq(Nat) /\ Len(u) = k - 1 /\ \A j \in 1 .. (k - 1) : u[j] = Item(j)
    <3>1. Len(s) + (n - 1) = k - 1
      BY <1>1
    <3> QED
      BY <1>2, <2>1, <3>1
  <2>3. t \in Seq(Nat) /\ Len(t) = k /\ \A j \in 1 .. k : t[j] = Item(j)
    BY <1>2
  <2>4. Item(k) = l[q[n]] /\ k \in 1 .. k
    BY <1>1, <2>1
  <2> HIDE DEF t, u, Item, k
  <2>5. a \in Seq(Nat) /\ Len(a) = k - 1 /\ \A j \in 1 .. (k - 1) : a[j] = t[j]
    BY <2>1, <2>3 DEF Front
  <2> HIDE DEF a
  <2>6. ASSUME NEW j \in 1 .. (k - 1) PROVE a[j] = u[j]
    <3>1. j \in 1 .. k
      BY <2>1
    <3> QED
      BY <2>2, <2>3, <2>5, <3>1
  <2>7. a = u
    BY <2>2, <2>5, <2>6, SeqEqual
  <2>8. t[Len(t)] = l[q[n]]
    BY <2>3, <2>4
  <2> QED
    BY <2>7, <2>8 DEF a, t, u
<1> QED
  BY <1>3, <1>4, <1>5, <1>6

(* Pushing a list of registers stacks what they hold.                       *)
LEMMA PushAllRuns ==
  ASSUME NEW q \in Seq(Places), NEW l \in Locs, NEW s \in Seq(Nat), NEW v
  PROVE  Runs(PushAll(q), CallState(l, s, v), CallState(l, Stacked(s, q, l, Len(q)), v))
<1> DEFINE tr == [n \in 0 .. Len(q) |-> CallState(l, Stacked(s, q, l, n), v)]
<1>1. Len(q) \in Nat /\ PushAll(q) \in Seq({Push(c) : c \in Places}) /\ Len(PushAll(q)) = Len(q)
      /\ \A i \in 1 .. Len(q) : PushAll(q)[i] = Push(q[i])
  BY DEF PushAll
<1>2. tr[0] = CallState(l, s, v)
  BY <1>1, StackedIs
<1>3. tr[Len(q)] = CallState(l, Stacked(s, q, l, Len(q)), v)
  BY <1>1
<1>4. \A n \in 0 .. Len(q) : tr[n] = CallState(l, Stacked(s, q, l, n), v)
  OBVIOUS
<1> HIDE DEF tr
<1>5. ASSUME NEW i \in 0 .. (Len(PushAll(q)) - 1)
      PROVE  Ok(PushAll(q)[i + 1]) /\ tr[i + 1] = After(tr[i], PushAll(q)[i + 1])
  <2>1. i \in 0 .. Len(q) /\ i < Len(q) /\ i + 1 \in 0 .. Len(q) /\ i + 1 \in 1 .. Len(q)
    BY <1>1
  <2>2. Append(Stacked(s, q, l, i), l[q[i + 1]]) = Stacked(s, q, l, i + 1)
    BY <2>1, StackedIs
  <2>3. tr[i] = CallState(l, Stacked(s, q, l, i), v) /\ tr[i + 1] = CallState(l, Stacked(s, q, l, i + 1), v)
    BY <1>4, <2>1
  <2>4. PushAll(q)[i + 1] = Push(q[i + 1])
    BY <1>1, <2>1
  <2> QED
    <3> DEFINE c == q[i + 1]
               t == Stacked(s, q, l, i)
    <3>1. Ok(Push(c)) /\ After(CallState(l, t, v), Push(c)) = CallState(l, Append(t, l[c]), v)
      <4> HIDE DEF c, t
      <4> QED
        BY CallStatePush
    <3> QED
      BY <2>2, <2>3, <2>4, <3>1, Zenon
<1> QED
  BY <1>1, <1>2, <1>3, <1>5, Zenon DEF Runs, IsCode

(* The locations once the registers of q after its n-th have been restored. *)
Restored(q, l, l1, n) == [c \in Places |-> IF \E j \in (n + 1) .. Len(q) : q[j] = c THEN l[c] ELSE l1[c]]

(* Popping the list in reverse restores its registers and the stack.        *)
LEMMA PopAllRuns ==
  ASSUME NEW q \in Seq(Places), NEW l \in Locs, NEW l1 \in Locs, NEW s \in Seq(Nat), NEW v
  PROVE  /\ Runs(PopAll(Reverse(q)), CallState(l1, Stacked(s, q, l, Len(q)), v), CallState(Restored(q, l, l1, 0), s, v))
         /\ Restored(q, l, l1, 0) \in Locs
<1> DEFINE p == PopAll(Reverse(q))
           tr == [i \in 0 .. Len(q) |-> CallState(Restored(q, l, l1, Len(q) - i), Stacked(s, q, l, Len(q) - i), v)]
<1>1. Len(q) \in Nat
  OBVIOUS
<1>2. Reverse(q) \in Seq(Places) /\ Len(Reverse(q)) = Len(q) /\ \A i \in 1 .. Len(q) : Reverse(q)[i] = q[(Len(q) - i) + 1]
  BY <1>1 DEF Reverse
<1>3. /\ p \in Seq({Pop(c) : c \in Places}) /\ Len(p) = Len(q)
      /\ \A i \in 1 .. Len(q) : p[i] = Pop(q[(Len(q) - i) + 1])
  BY <1>1, <1>2 DEF PopAll
<1>4. \A n \in 0 .. Len(q) : Restored(q, l, l1, n) \in Locs
  BY DEF Restored, Locs
<1>5. \A i \in 0 .. Len(q) : tr[i] = CallState(Restored(q, l, l1, Len(q) - i), Stacked(s, q, l, Len(q) - i), v)
  OBVIOUS
<1> HIDE DEF p, tr
<1>6. tr[0] = CallState(l1, Stacked(s, q, l, Len(q)), v)
  <2>1. Len(q) - 0 = Len(q) /\ 0 \in 0 .. Len(q) /\ \A j \in (Len(q) + 1) .. Len(q) : FALSE
    BY <1>1
  <2>2. Restored(q, l, l1, Len(q)) = l1
    BY <2>1 DEF Restored, Locs
  <2> QED
    BY <1>5, <2>1, <2>2
<1>7. tr[Len(p)] = CallState(Restored(q, l, l1, 0), s, v)
  <2>1. Len(q) - Len(q) = 0 /\ Len(q) \in 0 .. Len(q) /\ 0 \in 0 .. Len(q)
    BY <1>1
  <2>2. Stacked(s, q, l, 0) = s
    BY <2>1, StackedIs
  <2> QED
    BY <1>3, <1>5, <2>1, <2>2
<1>8. ASSUME NEW i \in 0 .. (Len(p) - 1)
      PROVE  Ok(p[i + 1]) /\ tr[i + 1] = After(tr[i], p[i + 1])
  <2> DEFINE n == Len(q) - i
  <2>1. i \in 0 .. Len(q) /\ i + 1 \in 0 .. Len(q) /\ i + 1 \in 1 .. Len(q) /\ n \in 1 .. Len(q) /\ n \in 0 .. Len(q) /\ n > 0
        /\ Len(q) - (i + 1) = n - 1 /\ (Len(q) - (i + 1)) + 1 = n /\ n - 1 \in 0 .. Len(q) /\ (n - 1) + 1 = n
    BY <1>1, <1>3
  <2>2. p[i + 1] = Pop(q[n]) /\ q[n] \in Places
    BY <1>3, <2>1
  <2>3. tr[i] = CallState(Restored(q, l, l1, n), Stacked(s, q, l, n), v)
        /\ tr[i + 1] = CallState(Restored(q, l, l1, n - 1), Stacked(s, q, l, n - 1), v)
    BY <1>5, <2>1
  <2> HIDE DEF n
  <2>4. Front(Stacked(s, q, l, n)) = Stacked(s, q, l, n - 1) /\ Stacked(s, q, l, n)[Len(Stacked(s, q, l, n))] = l[q[n]]
    <3>1. n \in 0 .. Len(q) /\ n > 0
      BY <2>1
    <3> QED
      BY <3>1, StackedIs
  <2>5. [Restored(q, l, l1, n) EXCEPT ![q[n]] = l[q[n]]] = Restored(q, l, l1, n - 1)
    <3>1. \A c \in Places : (\E j \in n .. Len(q) : q[j] = c) <=> (c = q[n] \/ \E j \in (n + 1) .. Len(q) : q[j] = c)
      BY <1>1, <2>1
    <3> QED
      BY <2>1, <3>1 DEF Restored
  <2>6. Ok(Pop(q[n])) /\ After(tr[i], Pop(q[n])) = tr[i + 1]
    BY <1>4, <2>1, <2>2, <2>3, <2>4, <2>5, CallStatePop
  <2> QED
    BY <2>2, <2>6
<1>9. Runs(p, CallState(l1, Stacked(s, q, l, Len(q)), v), CallState(Restored(q, l, l1, 0), s, v))
  BY <1>3, <1>6, <1>7, <1>8, Zenon DEF Runs, IsCode
<1> QED
  BY <1>1, <1>4, <1>9 DEF p

(* A set of colors listed once.                                             *)
LEMMA Listed ==
  ASSUME RegistersAssumption, NEW S \in SUBSET Colors, NEW q \in Listings(S)
  PROVE  q \in Seq(S) /\ q \in Seq(Places) /\ ToSet(q) = S /\ Len(q) = Cardinality(S) /\ S \subseteq Places
<1>1. IsFiniteSet(S) /\ Cardinality(S) \in Nat
  <2>1. IsFiniteSet(Colors)
    BY FS_Interval DEF Colors, RegistersAssumption
  <2> QED
    BY <2>1, FS_Subset, FS_CardinalityType
<1>2. q \in [1 .. Cardinality(S) -> S] /\ ToSet(q) = S
  BY DEF Listings
<1>3. q \in Seq(S) /\ Len(q) = Cardinality(S)
  BY <1>1, <1>2
<1> QED
  BY <1>2, <1>3, RegPlaces

(* Moves at once into the first n places of q.                              *)
MovesTo(n, q, S, sz, l, l1) ==
  /\ l1 \in Locs
  /\ \A k \in 1 .. n : l1[q[k]] = Value(l, S[k], sz)
  /\ \A c \in Places : (\A k \in 1 .. n : q[k] # c) => l1[c] = l[c]

\* The moves D from S change the state l like this, whatever the stack.
MovesDone(D, S, n, q, sz, l, s, v) ==
  /\ Ok(Moves(D, S))
  /\ \E l1 : MovesTo(n, q, S, sz, l, l1) /\ After(CallState(l, s, v), Moves(D, S)) = CallState(l1, s, v)

(* Moves to distinct places from operands outside the heap can be built and *)
(* do that.                                                                 *)
LEMMA AfterMovesIs ==
  ASSUME NEW q \in Seq(Places), IsInjection(q), NEW n \in 0 .. Len(q), NEW sz \in Sizes,
         NEW S, \A k \in 1 .. n : IsPlain(S[k]),
         NEW D, D = [k \in 1 .. n |-> Loc(q[k], sz)],
         NEW l \in Locs, NEW s, NEW v
  PROVE  MovesDone(D, S, n, q, sz, l, s, v)
<1> DEFINE x == CallState(l, s, v)
           i == Moves(D, S)
           At1(c) == {k \in DOMAIN D : D[k].at = c}
           l1 == [c \in Places |-> IF At1(c) = {} THEN l[c] ELSE Value(l, S[Min(At1(c))], sz)]
<1>1. Ok(i)
  BY DEF Ok, Constructible, Moves
<1>2. DOMAIN D = 1 .. n /\ \A k \in 1 .. n : D[k].at = q[k] /\ D[k].sz = sz
  BY LocIs
<1>3. 1 .. n \subseteq Nat /\ 1 .. n \subseteq DOMAIN q
  OBVIOUS
<1>4. ASSUME NEW c, At1(c) # {} PROVE Min(At1(c)) \in 1 .. n /\ q[Min(At1(c))] = c /\ D[Min(At1(c))].sz = sz
  <2>1. At1(c) \in SUBSET Nat
    BY <1>2, <1>3
  <2>2. Min(At1(c)) \in At1(c)
    BY <1>4, <2>1, SmallestElement
  <2> QED
    BY <1>2, <2>2
<1>5. After(x, i) = AfterMoves(x, i)
  BY DEF After, Moves
<1>6. x.loc = l /\ DOMAIN l = Places /\ i.d = D /\ i.s = S
  BY DEF CallState, Moves, Locs
<1>7. \A w : [x EXCEPT !.loc = w] = CallState(w, s, v)
  BY DEF CallState
<1>8. \A c \in Places : (LET ns == {k \in DOMAIN i.d : i.d[k].at = c}
                         IN IF ns = {} THEN x.loc[c] ELSE Read(x, i.s[Min(ns)], i.d[Min(ns)].sz)) = l1[c]
  <2> SUFFICES ASSUME NEW c \in Places
               PROVE  (LET ns == {k \in DOMAIN i.d : i.d[k].at = c}
                       IN IF ns = {} THEN x.loc[c] ELSE Read(x, i.s[Min(ns)], i.d[Min(ns)].sz)) = l1[c]
    OBVIOUS
  <2> DEFINE T == {k \in DOMAIN i.d : i.d[k].at = c}
             ns == At1(c)
  <2>1. T = ns
    BY <1>6
  <2>2. l1[c] = IF ns = {} THEN l[c] ELSE Value(l, S[Min(ns)], sz)
    OBVIOUS
  <2>3. ns # {} => Read(x, S[Min(ns)], D[Min(ns)].sz) = Value(l, S[Min(ns)], sz)
    <3>1. SUFFICES ASSUME ns # {} PROVE Read(x, S[Min(ns)], D[Min(ns)].sz) = Value(l, S[Min(ns)], sz)
      OBVIOUS
    <3>2. Min(ns) \in 1 .. n /\ D[Min(ns)].sz = sz
      BY <1>4, <3>1
    <3> HIDE DEF ns, x
    <3>3. IsPlain(S[Min(ns)])
      BY <3>2
    <3> QED
      BY <1>6, <3>2, <3>3, ReadPlain
  <2> SUFFICES (IF T = {} THEN x.loc[c] ELSE Read(x, i.s[Min(T)], i.d[Min(T)].sz)) = l1[c]
    OBVIOUS
  <2> HIDE DEF T, ns, x, i, l1
  <2> QED
    BY <1>6, <2>1, <2>2, <2>3
<1>9. AfterMoves(x, i) = CallState(l1, s, v)
  <2>1. AfterMoves(x, i) = [x EXCEPT !.loc =
          [c \in DOMAIN x.loc |-> LET ns == {k \in DOMAIN i.d : i.d[k].at = c}
                                  IN IF ns = {} THEN x.loc[c] ELSE Read(x, i.s[Min(ns)], i.d[Min(ns)].sz)]]
    BY DEF AfterMoves
  <2>2. [c \in DOMAIN x.loc |-> LET ns == {k \in DOMAIN i.d : i.d[k].at = c}
                               IN IF ns = {} THEN x.loc[c] ELSE Read(x, i.s[Min(ns)], i.d[Min(ns)].sz)] = l1
    <3>1. DOMAIN x.loc = Places
      BY <1>6
    <3>2. l1 = [c \in Places |-> l1[c]]
      OBVIOUS
    <3> HIDE DEF x, i, l1
    <3> QED
      BY <1>8, <3>1, <3>2
  <2> HIDE DEF x, i, l1
  <2> QED
    BY <1>7, <2>1, <2>2
<1>10. MovesTo(n, q, S, sz, l, l1)
  <2>1. \A c \in Places : At1(c) # {} => Value(l, S[Min(At1(c))], sz) \in Nat
    <3> SUFFICES ASSUME NEW c \in Places, At1(c) # {} PROVE Value(l, S[Min(At1(c))], sz) \in Nat
      OBVIOUS
    <3>1. Min(At1(c)) \in 1 .. n
      BY <1>4
    <3> HIDE DEF At1
    <3>2. IsPlain(S[Min(At1(c))])
      BY <3>1
    <3> QED
      BY <3>2, ValueType
  <2>2. \A c \in Places : l1[c] = IF At1(c) = {} THEN l[c] ELSE Value(l, S[Min(At1(c))], sz)
    OBVIOUS
  <2>3. l1 \in Locs
    <3> HIDE DEF At1
    <3> QED
      BY <2>1 DEF Locs
  <2>4. ASSUME NEW k \in 1 .. n PROVE l1[q[k]] = Value(l, S[k], sz)
    <3>1. k \in At1(q[k]) /\ q[k] \in Places
      BY <1>2, <1>3
    <3>2. Min(At1(q[k])) \in 1 .. n /\ q[Min(At1(q[k]))] = q[k]
      BY <1>4, <3>1
    <3>3. Min(At1(q[k])) = k
      BY <1>3, <3>2 DEF IsInjection
    <3> HIDE DEF At1, l1
    <3> QED
      BY <2>2, <3>1, <3>3
  <2>5. ASSUME NEW c \in Places, \A k \in 1 .. n : q[k] # c PROVE l1[c] = l[c]
    <3>1. At1(c) = {}
      BY <1>2, <2>5
    <3> QED
      BY <2>2, <3>1
  <2> HIDE DEF l1
  <2> QED
    BY <2>3, <2>4, <2>5 DEF MovesTo
<1> QED
  BY <1>1, <1>5, <1>9, <1>10 DEF MovesDone

(* An argument before it is moved.                                          *)
LEMMA ArgIs ==
  ASSUME ir \in Cases, NEW x \in Values(ir.sz)
  PROVE  /\ IsPlain(Unnarrowed(x)) /\ Unnarrowed(x).sz = ir.sz
         /\ Value(InitialLoc, Unnarrowed(x), ir.sz) = ValueOf(x)
         /\ ValueOf(x) \in Nat /\ Low(ValueOf(x), ir.sz) = ValueOf(x)
         /\ x \in Computed => /\ Unnarrowed(x) = Loc(x.v, ir.sz) /\ x.v \in Colors /\ x.k = "val" /\ x = Val(x.v)
                              /\ ValueOf(x) = Low(InitialLoc[x.v], ir.sz)
         /\ x \notin Computed => IsImm(Unnarrowed(x)) /\ \A l : Value(l, Unnarrowed(x), ir.sz) = ValueOf(x)
<1> DEFINE o == Unnarrowed(x)
           sz == ir.sz
           narrowing == FALSE
<1>1. sz \in Sizes /\ InitialLoc \in Locs /\ RegistersAssumption
  BY InstrIs, Start
<1>2. o = TranslateValue(x, ir.sz, ir.signed, narrowing) /\ narrowing \in BOOLEAN /\ ~narrowing
  BY DEF Unnarrowed
<1> HIDE DEF o, narrowing
<1>3. /\ IsPlain(o) /\ \A c : SizesMatch(Loc(c, ir.sz), o)
      /\ x \in Computed => x.v \in Colors /\ o = Loc(x.v, ir.sz) /\ o.sz = ir.sz /\ ~IsImm(o) /\ o.at = x.v
      /\ x \notin Computed => IsImm(o) /\ o.sz = ir.sz /\ \A l : Value(l, o, ir.sz) = x.v
  BY <1>2, Translated
<1>4. CASE x \in Computed
  <2>1. x.k = "val" /\ x.v \in Colors /\ x = Val(x.v)
    BY <1>1, <1>4, ValueIsConstOrComputed
  <2>2. ValueOf(x) = Low(InitialLoc[x.v], sz)
    BY <2>1 DEF ValueOf
  <2>3. Value(InitialLoc, o, sz) = ValueOf(x)
    BY <1>3, <1>4, <2>2 DEF Value
  <2>4. Value(InitialLoc, o, sz) \in Words(sz)
    BY <1>1, <1>3, ValueType
  <2>5. ValueOf(x) \in Nat /\ Low(ValueOf(x), sz) = ValueOf(x)
    BY <1>1, <2>3, <2>4, LowOfWord
  <2> QED
    BY <1>3, <1>4, <2>1, <2>2, <2>3, <2>5 DEF o
<1>5. CASE x \notin Computed
  <2>1. x.k = "const" /\ x.v \in Words(sz)
    BY <1>1, <1>5, ValueIsConstOrComputed
  <2>2. Low(x.v, sz) = x.v /\ x.v \in Nat
    BY <1>1, <2>1, LowOfWord
  <2>3. ValueOf(x) = x.v
    BY <2>1, <2>2 DEF ValueOf
  <2> QED
    BY <1>3, <1>5, <2>2, <2>3 DEF o
<1> QED
  BY <1>4, <1>5

(* The call of a function that changes every register it may.               *)
CallsTo(l, l1) ==
  /\ l1 \in Locs
  /\ \A n \in DOMAIN ResultColors : l1[ResultColors[n]] = Low(4 + 5 * n, ir.sz)
  /\ \A c \in Places : c >= NumRegs \/ c \in CalleeSaved => l1[c] = l[c]

(* The call takes the locations to such locations.                          *)
CallDone(l, s, v, called) ==
  Ok(Call) /\ \E l1 : CallsTo(l, l1) /\ After(CallState(l, s, v), Call) = CallState(l1, s, called)

(* The call can be built and does that; what it was called with is noted.   *)
LEMMA AfterCallIs ==
  ASSUME ir \in Cases, NEW l \in Locs, NEW s, NEW v,
         NEW called, called = <<Value(l, Callee, 64), [n \in 1 .. Len(ir.args) |-> Low(l[ArgColors[n]], ir.sz)]>>,
         IsPlain(Callee)
  PROVE  CallDone(l, s, v, called)
<1> DEFINE x == CallState(l, s, v)
           i == Call
           sz == ir.sz
           ns(c) == {n \in DOMAIN ResultColors : ResultColors[n] = c}
           l1 == [c \in Places |-> IF c >= NumRegs \/ c \in CalleeSaved THEN l[c]
                                   ELSE IF ns(c) = {} THEN 0 ELSE Low(4 + 5 * Min(ns(c)), sz)]
<1>1. sz \in Sizes /\ RegistersAssumption
  BY InstrIs
<1>2. /\ ResultColors \in Seq(Regs \ CalleeSaved) /\ IsInjection(ResultColors)
  BY <1>1 DEF RegistersAssumption
<1>3. DOMAIN ResultColors \subseteq Nat
  BY <1>2
<1>4. ASSUME NEW c, ns(c) # {} PROVE Min(ns(c)) \in DOMAIN ResultColors /\ ResultColors[Min(ns(c))] = c
  <2>1. ns(c) \in SUBSET Nat
    BY <1>3
  <2>2. Min(ns(c)) \in ns(c)
    BY <1>4, <2>1, SmallestElement
  <2> QED
    BY <2>2
<1>5. Ok(i)
  BY DEF Ok, Constructible, Call
<1>6. x.loc = l /\ DOMAIN l = Places /\ i.sz = sz /\ i.s = Callee /\ i.n = Len(ir.args) /\ i.op = "call"
  BY DEF CallState, Call, Locs
<1>7. Read(x, Callee, 64) = Value(l, Callee, 64)
  <2>1. x.loc = l
    BY <1>6
  <2> HIDE DEF x
  <2> QED
    BY <2>1, ReadPlain
<1>8. \A c : Read(x, Loc(c, sz), sz) = Low(l[c], sz)
  BY <1>6, LocIs DEF Read
<1>9. <<Read(x, i.s, 64), [n \in 1 .. i.n |-> Read(x, Loc(ArgColors[n], i.sz), i.sz)]>> = called
  <2> HIDE DEF x, i
  <2> QED
    BY <1>6, <1>7, <1>8
<1>10. [c \in DOMAIN x.loc |-> IF c >= NumRegs \/ c \in CalleeSaved THEN x.loc[c]
                              ELSE IF ns(c) = {} THEN 0 ELSE Low(4 + 5 * Min(ns(c)), i.sz)] = l1
  <2> HIDE DEF x, i, ns
  <2> QED
    BY <1>6
<1>11. After(x, i) = CallState(l1, s, called)
  <2>1. After(x, i) = AfterCall(x, i)
    BY <1>6 DEF After
  <2>2. AfterCall(x, i) = [x EXCEPT
          !.called = <<Read(x, i.s, 64), [n \in 1 .. i.n |-> Read(x, Loc(ArgColors[n], i.sz), i.sz)]>>,
          !.loc = [c \in DOMAIN x.loc |-> IF c >= NumRegs \/ c \in CalleeSaved THEN x.loc[c]
                              ELSE IF ns(c) = {} THEN 0 ELSE Low(4 + 5 * Min(ns(c)), i.sz)]]
    BY DEF AfterCall
  <2>3. \A w, z : [x EXCEPT !.called = w, !.loc = z] = CallState(z, s, w)
    <3> SUFFICES ASSUME NEW w, NEW z PROVE [x EXCEPT !.called = w, !.loc = z] = CallState(z, s, w)
      OBVIOUS
    <3>1. [x EXCEPT !.called = w] = CallState(l, s, w)
      BY DEF CallState
    <3>2. [CallState(l, s, w) EXCEPT !.loc = z] = CallState(z, s, w)
      BY DEF CallState
    <3> QED
      BY <3>1, <3>2
  <2> HIDE DEF x, i, l1, ns
  <2> QED
    BY <1>9, <1>10, <2>1, <2>2, <2>3
<1>12. \A k \in Nat : Low(4 + 5 * k, sz) \in Nat
  <2> SUFFICES ASSUME NEW k \in Nat PROVE Low(4 + 5 * k, sz) \in Nat
    OBVIOUS
  <2>1. 4 + 5 * k \in Int
    OBVIOUS
  <2> QED
    BY <1>1, <2>1, LowIs
<1>13. \A c \in Places : l1[c] = IF c >= NumRegs \/ c \in CalleeSaved THEN l[c]
                                ELSE IF ns(c) = {} THEN 0 ELSE Low(4 + 5 * Min(ns(c)), sz)
  OBVIOUS
<1>14. l1 \in Locs
  <2>1. \A c \in Places : ns(c) # {} => Low(4 + 5 * Min(ns(c)), sz) \in Nat
    BY <1>3, <1>4, <1>12
  <2> HIDE DEF ns
  <2> QED
    BY <2>1 DEF Locs
<1>15. ASSUME NEW n \in DOMAIN ResultColors PROVE l1[ResultColors[n]] = Low(4 + 5 * n, sz)
  <2>1. ResultColors[n] \in Regs \ CalleeSaved
    BY <1>2
  <2>2. ResultColors[n] \in Places /\ ~(ResultColors[n] >= NumRegs)
    BY <1>1, <2>1, RegPlaces DEF Regs, RegistersAssumption
  <2>3. n \in ns(ResultColors[n])
    OBVIOUS
  <2>4. Min(ns(ResultColors[n])) = n
    BY <1>2, <1>4, <2>3 DEF IsInjection
  <2>5. ns(ResultColors[n]) # {}
    BY <2>3
  <2> HIDE DEF l1, ns
  <2> QED
    BY <1>13, <2>1, <2>2, <2>4, <2>5
<1> HIDE DEF l1
<1>16. CallsTo(l, l1)
  BY <1>13, <1>14, <1>15 DEF CallsTo
<1> QED
  BY <1>5, <1>11, <1>16 DEF CallDone

(* Calls are translated right: the arguments and the callee arrive, the     *)
(* results leave, and what lives on is kept by the caller or the callee.    *)
LEMMA CallTranslates ==
  ASSUME ir \in Cases, ~KnownDefect, ir.op = "call", NEW k \in TranslateCall
  PROVE  Translates(k)
<1> DEFINE sz == ir.sz
           l0 == InitialLoc
           na == Len(ir.args)
           nr == Len(ir.results)
           empty == <<>>
<1>1. /\ sz \in Sizes /\ RegistersAssumption /\ l0 \in Locs /\ InitialMachine = CallState(l0, empty, empty)
      /\ ir.through \subseteq Colors /\ ir.va \in 0 .. 15 /\ 64 \in Sizes /\ Low(ir.va, 64) = ir.va
      /\ empty \in Seq(Nat)
  <2>1. InitialMachine = CallState(l0, empty, empty)
    BY DEF InitialMachine, CallState, H0
  <2>2. SizeOfA(ir) = 64 /\ 64 \in Sizes
    BY DEF SizeOfA, Sizes
  <2>3. Low(ir.va, 64) = ir.va
    BY <2>2, Start, LowOfWord
  <2> QED
    BY <2>1, <2>2, <2>3, InstrIs, Start
<1>2. /\ ir.args \in Seq(Values(sz)) /\ na \in Nat /\ DOMAIN ir.args = 1 .. na
      /\ na \in 0 .. Len(ArgColors)
      /\ ArgColors \in Seq(Regs \ CalleeSaved) /\ ArgColors \in Seq(Places) /\ IsInjection(ArgColors)
      /\ \A n \in 1 .. na : ir.args[n] \in Values(sz) /\ n \in DOMAIN ArgColors
  <2>1. HasPlaces(ir)
    BY InstrIs
  <2>2. ir.args \in Seq(Values(sz)) /\ na <= Len(ArgColors)
    BY <2>1 DEF HasPlaces
  <2>3. ArgColors \in Seq(Regs \ CalleeSaved) /\ IsInjection(ArgColors)
    BY <1>1 DEF RegistersAssumption
  <2>4. ArgColors \in Seq(Places)
    BY <1>1, <2>3, RegPlaces
  <2> QED
    BY <2>2, <2>3, <2>4
<1>3. /\ ir.results \in Seq(Colors) /\ ir.results \in Seq(Places) /\ nr \in Nat /\ DOMAIN ir.results = 1 .. nr /\ nr \in 0 .. Len(ir.results)
      /\ IsInjection(ir.results)
      /\ ResultColors \in Seq(Regs \ CalleeSaved) /\ IsInjection(ResultColors)
      /\ \A n \in 1 .. nr : /\ n \in DOMAIN ResultColors /\ ResultColors[n] \in Places /\ ir.results[n] \in Places
                           /\ ir.results[n] \notin ir.through
  <2>1. HasPlaces(ir)
    BY InstrIs
  <2>2. ir.results \in Seq(Colors) /\ nr <= Len(ResultColors) /\ IsInjection(ir.results) /\ ir.through \in SUBSET (Colors \ ToSet(ir.results))
    BY <2>1 DEF HasPlaces
  <2>3. ResultColors \in Seq(Regs \ CalleeSaved) /\ IsInjection(ResultColors)
    BY <1>1 DEF RegistersAssumption
  <2>4. ir.results \in Seq(Places)
    BY <1>1, <2>2, RegPlaces
  <2>5. \A n \in 1 .. nr : n \in DOMAIN ResultColors /\ ResultColors[n] \in Places
    BY <1>1, <2>2, <2>3, RegPlaces
  <2>6. \A n \in 1 .. nr : ir.results[n] \in ToSet(ir.results)
    BY <2>2 DEF ToSet
  <2> QED
    BY <2>2, <2>3, <2>4, <2>5, <2>6
<1>4. PICK q \in Ascending(CallerSaved) : k = PushAll(q) \o <<ArgMoves, Call, ResultMoves>> \o PopAll(Reverse(q))
  BY DEF TranslateCall
<1>5. q \in Seq(Places) /\ ToSet(q) = CallerSaved /\ DOMAIN q = 1 .. Len(q) /\ Len(q) \in Nat
  <2>1. CallerSaved \in SUBSET Colors /\ q \in Listings(CallerSaved)
    BY <1>1 DEF CallerSaved, Ascending
  <2> QED
    BY <1>1, <2>1, Listed
<1> DEFINE s1 == Stacked(empty, q, l0, Len(q))
           S == [i \in DOMAIN ir.args |-> Unnarrowed(ir.args[i])]
           D == [i \in DOMAIN ir.args |-> Loc(ArgColors[i], ir.sz)]
           T == [i \in DOMAIN ir.results |-> Loc(ResultColors[i], ir.sz)]
           E == [i \in DOMAIN ir.results |-> Loc(ir.results[i], ir.sz)]
<1>6. Runs(PushAll(q), CallState(l0, empty, empty), CallState(l0, s1, empty))
  <2> HIDE DEF empty, l0
  <2> QED
    BY <1>1, <1>5, PushAllRuns
<1>7. PICK l1 : MovesTo(na, ArgColors, S, sz, l0, l1) /\ Ok(ArgMoves) /\ After(CallState(l0, s1, empty), ArgMoves) = CallState(l1, s1, empty)
  <2>1. ArgMoves = Moves(D, S)
    BY DEF ArgMoves
  <2>2. \A n \in 1 .. na : IsPlain(S[n])
    BY <1>2, ArgIs
  <2>3. D = [n \in 1 .. na |-> Loc(ArgColors[n], sz)]
    BY <1>2
  <2>4. sz \in Sizes /\ l0 \in Locs
    BY <1>1
  <2> HIDE DEF D, S, empty, l0, na, sz, s1
  <2>5. Ok(Moves(D, S)) /\ \E l1 : MovesTo(na, ArgColors, S, sz, l0, l1) /\ After(CallState(l0, s1, empty), Moves(D, S)) = CallState(l1, s1, empty)
    <3>1. MovesDone(D, S, na, ArgColors, sz, l0, s1, empty)
      BY <1>2, <2>2, <2>3, <2>4, AfterMovesIs
    <3> QED
      BY <3>1 DEF MovesDone
  <2> QED
    BY <2>1, <2>5
<1>8. /\ l1 \in Locs
      /\ \A n \in 1 .. na : l1[ArgColors[n]] = ValueOf(ir.args[n])
      /\ \A c \in Places : (\A n \in 1 .. na : ArgColors[n] # c) => l1[c] = l0[c]
  <2>1. \A n \in 1 .. na : Value(l0, S[n], sz) = ValueOf(ir.args[n])
    BY <1>2, ArgIs
  <2> QED
    BY <1>7, <2>1 DEF MovesTo
<1>9. \A n \in 1 .. na : Low(l1[ArgColors[n]], sz) = ValueOf(ir.args[n])
  BY <1>2, <1>8, ArgIs
<1>10. IsPlain(Callee) /\ Value(l1, Callee, 64) = ir.va
  <2>1. CASE ir.a \notin Computed
    <3>1. ir.a.k = "const" /\ ir.va = ir.a.v
      BY <2>1, Start
    <3>2. Callee = Imm(ir.va, 64)
      BY <3>1 DEF Callee
    <3>3. IsPlain(Callee) /\ IsImm(Callee) /\ Callee.at = ir.va /\ Callee.sz = 64
      BY <1>1, <3>2 DEF IsPlain, Imm, IsImm
    <3>4. Low(Signed(ir.va, 64), 64) = ir.va
      <4>1. Signed(ir.va, 64) = (IF ir.va >= 8 THEN ir.va - 16 ELSE ir.va) /\ Signed(ir.va, 64) \in Int
        BY <1>1, SignedIs
      <4>2. Low(Signed(ir.va, 64), 64) = Signed(ir.va, 64) % 16
        BY <1>1, <4>1, LowIs
      <4>3. ASSUME NEW w \in 0 .. 15 PROVE (IF w >= 8 THEN w - 16 ELSE w) % 16 = w
        OBVIOUS
      <4>4. ir.va \in 0 .. 15
        BY <1>1
      <4> QED
        BY <4>1, <4>2, <4>3, <4>4
    <3> QED
      BY <3>3, <3>4 DEF Value
  <2>2. CASE ir.a \in Computed
    <3> DEFINE c == ir.a.v
    <3>1. ir.a.k = "val" /\ c \in Colors /\ c \in Places /\ l0[c] = ir.va /\ Callee = Loc(c, 64)
      BY <1>1, <2>2, Start, RegPlaces DEF Callee
    <3>2. l1[c] = ir.va
      <4>1. CASE \A n \in 1 .. na : ArgColors[n] # c
        BY <1>8, <3>1, <4>1
      <4>2. CASE \E n \in 1 .. na : ArgColors[n] = c
        <5>1. PICK n \in 1 .. na : ArgColors[n] = c
          BY <4>2
        <5>2. n \in DOMAIN ir.args /\ IsVal(ir.a, ArgColors[n])
          BY <1>2, <3>1, <5>1 DEF IsVal
        <5>3. ir.args[n] = ir.a
          BY <5>2 DEF KnownDefect, Overwritten
        <5>4. sz = 64
          <6>1. ir.a \in Computed \cap ToSet(ir.args)
            BY <2>2, <5>2, <5>3 DEF ToSet
          <6>2. HasPlaces(ir)
            BY InstrIs
          <6> QED
            BY <6>1, <6>2 DEF HasPlaces
        <5>5. ValueOf(ir.a) = Low(l0[c], sz)
          BY <3>1 DEF ValueOf
        <5> QED
          BY <1>1, <1>8, <3>1, <5>1, <5>3, <5>4, <5>5
      <4> QED
        BY <4>1, <4>2
    <3> HIDE DEF c
    <3>3. IsPlain(Callee)
      BY <1>1, <3>1 DEF IsPlain
    <3> QED
      BY <1>1, <3>1, <3>2, <3>3, LocIs DEF Value
  <2> QED
    BY <2>1, <2>2
<1> DEFINE called == <<ir.va, ArgValues>>
<1>11. PICK l2 : CallsTo(l1, l2) /\ Ok(Call) /\ After(CallState(l1, s1, empty), Call) = CallState(l2, s1, called)
  <2>1. [n \in 1 .. Len(ir.args) |-> Low(l1[ArgColors[n]], ir.sz)] = ArgValues
    BY <1>2, <1>9 DEF ArgValues
  <2>2. called = <<Value(l1, Callee, 64), [n \in 1 .. Len(ir.args) |-> Low(l1[ArgColors[n]], ir.sz)]>>
    BY <1>10, <2>1
  <2>3. l1 \in Locs /\ IsPlain(Callee) /\ ir \in Cases
    BY <1>8, <1>10
  <2> HIDE DEF called, empty, s1
  <2>4. Ok(Call) /\ \E l4 : CallsTo(l1, l4) /\ After(CallState(l1, s1, empty), Call) = CallState(l4, s1, called)
    <3>1. CallDone(l1, s1, empty, called)
      BY <2>2, <2>3, AfterCallIs
    <3> QED
      BY <3>1 DEF CallDone
  <2> QED
    BY <2>4
<1>12. l2 \in Locs
  BY <1>11 DEF CallsTo
<1> HIDE DEF called
<1>13. PICK l3 : MovesTo(nr, ir.results, T, sz, l2, l3) /\ Ok(ResultMoves)
                 /\ After(CallState(l2, s1, called), ResultMoves) = CallState(l3, s1, called)
  <2>1. ResultMoves = Moves(E, T)
    BY DEF ResultMoves
  <2>2. \A n \in 1 .. nr : IsPlain(T[n])
    BY <1>1, <1>3 DEF IsPlain
  <2>3. E = [n \in 1 .. nr |-> Loc(ir.results[n], sz)]
    BY <1>3
  <2> DEFINE p == ir.results
  <2>4. p \in Seq(Places) /\ IsInjection(p) /\ nr \in 0 .. Len(p) /\ E = [n \in 1 .. nr |-> Loc(p[n], sz)]
    BY <1>3, <2>3
  <2>0. sz \in Sizes /\ l2 \in Locs
    BY <1>1, <1>12
  <2> HIDE DEF E, T, empty, l0, nr, sz, s1, p
  <2>5. Ok(Moves(E, T)) /\ \E l4 : MovesTo(nr, p, T, sz, l2, l4) /\ After(CallState(l2, s1, called), Moves(E, T)) = CallState(l4, s1, called)
    <3>1. MovesDone(E, T, nr, p, sz, l2, s1, called)
      BY <2>0, <2>2, <2>4, AfterMovesIs
    <3> QED
      BY <3>1 DEF MovesDone
  <2> QED
    BY <2>1, <2>5 DEF p
<1>14. l3 \in Locs /\ \A n \in 1 .. nr : l3[ir.results[n]] = Low(Low(4 + 5 * n, sz), sz)
  <2>1. \A n \in 1 .. nr : Value(l2, T[n], sz) = Low(Low(4 + 5 * n, sz), sz)
    <3> SUFFICES ASSUME NEW n \in 1 .. nr PROVE Value(l2, T[n], sz) = Low(Low(4 + 5 * n, sz), sz)
      OBVIOUS
    <3>1. T[n] = Loc(ResultColors[n], sz)
      BY <1>3
    <3>2. l2[ResultColors[n]] = Low(4 + 5 * n, sz)
      BY <1>3, <1>11 DEF CallsTo
    <3> QED
      BY <3>1, <3>2, LocIs DEF Value
  <2> QED
    BY <1>13, <2>1 DEF MovesTo
<1>15. \A n \in 1 .. nr : Low(l3[ir.results[n]], sz) = Low(4 + 5 * n, sz)
  <2> SUFFICES ASSUME NEW n \in 1 .. nr PROVE Low(l3[ir.results[n]], sz) = Low(4 + 5 * n, sz)
    OBVIOUS
  <2>1. 4 + 5 * n \in Int
    OBVIOUS
  <2> DEFINE w == Low(4 + 5 * n, sz)
  <2>2. w \in Words(sz)
    BY <1>1, <2>1, LowIs
  <2>3. l3[ir.results[n]] = Low(w, sz)
    BY <1>14
  <2> HIDE DEF w
  <2>4. Low(w, sz) = w
    BY <1>1, <2>2, LowOfWord
  <2> QED
    BY <2>3, <2>4 DEF w
<1> DEFINE l4 == Restored(q, l0, l3, 0)
           y == CallState(l4, empty, called)
<1>16. Runs(PopAll(Reverse(q)), CallState(l3, s1, called), y)
  <2> HIDE DEF empty, l0
  <2> QED
    BY <1>1, <1>5, <1>14, PopAllRuns
<1>17. Runs(<<ArgMoves, Call, ResultMoves>>, CallState(l0, s1, empty), CallState(l3, s1, called))
  <2> DEFINE x == CallState(l0, s1, empty)
             z == CallState(l3, s1, called)
             i == ArgMoves
             j == Call
             p == ResultMoves
  <2>1. Ok(i) /\ Ok(j) /\ Ok(p) /\ After(After(After(x, i), j), p) = z
    BY <1>7, <1>11, <1>13
  <2> HIDE DEF x, z, i, j, p
  <2>2. Runs(<<i, j, p>>, x, z)
    BY <2>1, ThreeSteps
  <2> QED
    BY <2>2 DEF x, z, i, j, p
<1> HIDE DEF y
<1>18. Runs(k, InitialMachine, y)
  <2> DEFINE x == CallState(l0, empty, empty)
             x1 == CallState(l0, s1, empty)
             x2 == CallState(l3, s1, called)
             p == PushAll(q)
             b == <<ArgMoves, Call, ResultMoves>>
             r == PopAll(Reverse(q))
  <2>1. Runs(p, x, x1) /\ Runs(b, x1, x2) /\ Runs(r, x2, y) /\ k = p \o b \o r /\ InitialMachine = x
    BY <1>1, <1>4, <1>6, <1>16, <1>17
  <2> HIDE DEF x, x1, x2, p, b, r
  <2>2. Runs(p \o b, x, x2)
    BY <2>1, ThenRuns
  <2>3. Runs((p \o b) \o r, x, y)
    BY <2>1, <2>2, ThenRuns
  <2> QED
    BY <2>1, <2>3
<1>19. y.loc = l4 /\ y.stack = <<>> /\ y.called = called
  BY DEF y, CallState
<1>20. \A c \in Places : l4[c] = IF c \in CallerSaved THEN l0[c] ELSE l3[c]
  <2>1. \A c : (\E j \in (0 + 1) .. Len(q) : q[j] = c) <=> c \in CallerSaved
    <3>1. CallerSaved = {q[j] : j \in 1 .. Len(q)}
      BY <1>5 DEF ToSet
    <3> QED
      BY <3>1
  <2> QED
    BY <2>1 DEF Restored
<1> HIDE DEF l4
<1>21. ASSUME NEW n \in DOMAIN ir.results PROVE Low(y.loc[ir.results[n]], ir.sz) = Low(4 + 5 * n, ir.sz)
  <2>1. n \in 1 .. nr /\ ir.results[n] \in Places /\ ir.results[n] \notin CallerSaved
    BY <1>3 DEF CallerSaved
  <2> QED
    BY <1>15, <1>19, <1>20, <2>1
<1>22. ASSUME NEW c \in ir.through PROVE y.loc[c] = InitialLoc[c]
  <2>1. c \in Places /\ c \in Colors
    BY <1>1, RegPlaces
  <2>2. CASE c \in CallerSaved
    BY <1>19, <1>20, <2>1, <2>2
  <2>3. CASE c \notin CallerSaved
    <3>1. c >= NumRegs \/ c \in CalleeSaved
      BY <1>1, <2>1, <2>3 DEF CallerSaved, Colors, RegistersAssumption
    <3>2. l3[c] = l2[c]
      <4>1. \A n \in 1 .. nr : ir.results[n] # c
        BY <1>3
      <4> QED
        BY <1>13, <2>1, <4>1 DEF MovesTo
    <3>3. l2[c] = l1[c]
      BY <1>11, <2>1, <3>1 DEF CallsTo
    <3>4. l1[c] = l0[c]
      <4>1. \A n \in 1 .. na : ArgColors[n] \in Regs \ CalleeSaved
        BY <1>2
      <4>2. \A n \in 1 .. na : ArgColors[n] # c
        BY <1>1, <2>1, <3>1, <4>1 DEF Regs, Colors, RegistersAssumption
      <4> QED
        BY <1>8, <2>1, <4>2
    <3> QED
      BY <1>19, <1>20, <2>1, <2>3, <3>2, <3>3, <3>4
  <2> QED
    BY <2>2, <2>3
<1>23. Effect(y)
  BY <1>19, <1>21 DEF Effect, called
<1>24. Right(y)
  BY <1>19, <1>22, <1>23 DEF Right
<1> QED
  BY <1>18, <1>24 DEF Translates

(* The results are moved into their registers, one after the other, each    *)
(* before its own register is written.                                      *)
LEMMA ReturnTranslates ==
  ASSUME ir \in Cases, ~KnownDefect, ir.op = "return", NEW k \in TranslateReturn
  PROVE  Translates(k)
<1> DEFINE sz == ir.sz
           na == Len(ir.args)
           l0 == InitialLoc
           S == {i \in DOMAIN ir.args : ReturnMov(i).d # ReturnMov(i).s}
<1>1. /\ sz \in Sizes /\ RegistersAssumption /\ l0 \in Locs /\ InitialMachine = CallState(l0, <<>>, <<>>)
      /\ ir.through = {}
      /\ ir.args \in Seq(Values(sz)) /\ na \in Nat /\ DOMAIN ir.args = 1 .. na
      /\ IsInjection(ResultColors)
      /\ \A n \in 1 .. na : /\ ir.args[n] \in Values(sz) /\ n \in DOMAIN ResultColors
                           /\ ResultColors[n] \in Places /\ ResultColors[n] < NumRegs
  <2>1. InitialMachine = CallState(l0, <<>>, <<>>)
    BY DEF InitialMachine, CallState, H0
  <2>2. HasPlaces(ir) /\ RegistersAssumption
    BY InstrIs
  <2>3. ir.args \in Seq(Values(sz)) /\ na <= Len(ResultColors) /\ ir.through = {}
    BY <2>2 DEF HasPlaces
  <2>4. ResultColors \in Seq(Regs \ CalleeSaved) /\ IsInjection(ResultColors)
    BY <2>2 DEF RegistersAssumption
  <2>5. \A n \in 1 .. na : n \in DOMAIN ResultColors /\ ResultColors[n] \in Regs
    BY <2>3, <2>4
  <2>6. \A c \in Regs : c \in Places /\ c < NumRegs
    BY <2>2, RegPlaces DEF Regs, RegistersAssumption
  <2> QED
    BY <2>1, <2>2, <2>3, <2>4, <2>5, <2>6, InstrIs, Start
<1>2. \A n \in 1 .. na : /\ IsPlain(Unnarrowed(ir.args[n])) /\ Unnarrowed(ir.args[n]).sz = sz
                        /\ Value(l0, Unnarrowed(ir.args[n]), sz) = ValueOf(ir.args[n])
                        /\ ValueOf(ir.args[n]) \in Nat /\ Low(ValueOf(ir.args[n]), sz) = ValueOf(ir.args[n])
  BY <1>1, ArgIs
<1>3. \A n : ReturnMov(n).d = Loc(ResultColors[n], sz) /\ ReturnMov(n).s = Unnarrowed(ir.args[n])
             /\ ReturnMov(n) = Mov(Loc(ResultColors[n], sz), Unnarrowed(ir.args[n]))
  BY DEF ReturnMov, Mov, I
<1>4. PICK q \in Ascending(S) : k = [i \in DOMAIN q |-> ReturnMov(q[i])]
  BY DEF TranslateReturn
<1>5. /\ q \in Seq(S) /\ Len(q) \in Nat /\ ToSet(q) = S /\ \A i, j \in DOMAIN q : i < j => q[i] < q[j]
      /\ S \subseteq 1 .. na
  <2>1. S \subseteq 1 .. na
    BY <1>1
  <2>2. IsFiniteSet(1 .. na)
    BY <1>1, FS_Interval
  <2>3. Cardinality(S) \in Nat
    BY <2>1, <2>2, FS_Subset, FS_CardinalityType
  <2>4. q \in [1 .. Cardinality(S) -> S] /\ ToSet(q) = S /\ \A i, j \in DOMAIN q : i < j => q[i] < q[j]
    BY DEF Ascending, Listings
  <2> HIDE DEF S
  <2>5. q \in Seq(S) /\ Len(q) \in Nat
    BY <2>3, <2>4
  <2> QED
    BY <2>1, <2>4, <2>5
<1> DEFINE Written(n, c) == \E j \in 1 .. n : ResultColors[q[j]] = c
           Arg(c) == CHOOSE i \in 1 .. na : ResultColors[i] = c
           L(n) == [c \in Places |-> IF Written(n, c) THEN ValueOf(ir.args[Arg(c)]) ELSE l0[c]]
           tr == [n \in 0 .. Len(q) |-> CallState(L(n), <<>>, <<>>)]
<1>6. \A i \in 1 .. na : Arg(ResultColors[i]) = i
  BY <1>1 DEF IsInjection
<1>7. \A j \in 1 .. Len(q) : q[j] \in S /\ q[j] \in 1 .. na
  BY <1>5
<1>8. \A n \in 0 .. Len(q) : L(n) \in Locs
  <2> SUFFICES ASSUME NEW n \in 0 .. Len(q) PROVE L(n) \in Locs
    OBVIOUS
  <2>1. ASSUME NEW c \in Places, Written(n, c) PROVE ValueOf(ir.args[Arg(c)]) \in Nat
    <3>1. PICK j \in 1 .. n : ResultColors[q[j]] = c
      BY <2>1
    <3>2. j \in 1 .. Len(q)
      BY <1>5
    <3> QED
      BY <1>2, <1>6, <1>7, <3>1, <3>2
  <2>2. \A c \in Places : l0[c] \in Nat
    BY <1>1 DEF Locs
  <2> HIDE DEF Written, Arg
  <2> QED
    BY <2>1, <2>2 DEF Locs
<1>9. Len(k) = Len(q) /\ (\A i \in 1 .. Len(q) : k[i] = ReturnMov(q[i])) /\ IsCode(k)
  <2>1. k \in Seq({ReturnMov(i) : i \in 1 .. na})
    BY <1>4, <1>5
  <2> QED
    BY <1>4, <1>5, <2>1 DEF IsCode
<1>11. \A n \in 0 .. Len(q) : tr[n] = CallState(L(n), <<>>, <<>>)
  OBVIOUS
<1> HIDE DEF tr
<1>10. tr[0] = InitialMachine
  <2>1. \A c : ~Written(0, c)
    OBVIOUS
  <2>2. L(0) = l0
    <3> HIDE DEF Written
    <3> QED
      BY <1>1, <2>1 DEF Locs
  <2>3. tr[0] = CallState(L(0), <<>>, <<>>)
    <3>1. 0 \in 0 .. Len(q)
      BY <1>5
    <3> HIDE DEF L
    <3> QED
      BY <1>11, <3>1
  <2> QED
    BY <1>1, <2>2, <2>3
<1>12. ASSUME NEW n \in 0 .. (Len(k) - 1) PROVE Ok(k[n + 1]) /\ tr[n + 1] = After(tr[n], k[n + 1])
  <2> DEFINE i == q[n + 1]
             o == Unnarrowed(ir.args[i])
             c == ResultColors[i]
  <2>1. n + 1 \in 1 .. Len(q) /\ n \in 0 .. Len(q) /\ n + 1 \in 0 .. Len(q) /\ n \in Nat
    BY <1>5, <1>9
  <2>2. k[n + 1] = Mov(Loc(c, sz), o) /\ i \in 1 .. na /\ c \in Places /\ c < NumRegs /\ i \in S
    BY <1>1, <1>3, <1>7, <1>9, <2>1
  <2>3. IsPlain(o) /\ o.sz = sz
    BY <1>2, <2>2
  <2>4. Value(L(n), o, sz) = ValueOf(ir.args[i])
    <3>1. CASE ir.args[i] \notin Computed
      BY <1>1, <2>2, <3>1, ArgIs
    <3>2. CASE ir.args[i] \in Computed
      <4> DEFINE d == ir.args[i].v
      <4>1. o = Loc(d, sz) /\ d \in Colors /\ d \in Places /\ ir.args[i].k = "val" /\ ir.args[i] = Val(d)
            /\ ValueOf(ir.args[i]) = Low(l0[d], sz)
        BY <1>1, <2>2, <3>2, ArgIs, RegPlaces
      <4>2. ~Written(n, d)
        <5>1. SUFFICES ASSUME NEW j \in 1 .. n, ResultColors[q[j]] = d PROVE FALSE
          OBVIOUS
        <5>2. j \in 1 .. Len(q) /\ j < n + 1 /\ j \in DOMAIN q /\ n + 1 \in DOMAIN q
          BY <1>5, <2>1
        <5>3. q[j] < i /\ q[j] \in 1 .. na /\ q[j] \in S
          BY <1>5, <1>7, <5>2
        <5>4. IsVal(ir.args[i], ResultColors[q[j]])
          BY <4>1, <5>1 DEF IsVal
        <5>5. ir.args[q[j]] = ir.args[i]
          <6>1. ~Overwritten
            BY DEF KnownDefect
          <6>2. q[j] \in DOMAIN ir.args /\ i \in DOMAIN ir.args
            BY <1>1, <2>2, <5>3
          <6> HIDE DEF i
          <6> QED
            BY <5>3, <5>4, <6>1, <6>2 DEF Overwritten
        <5>6. ReturnMov(q[j]).d = ReturnMov(q[j]).s
          BY <1>3, <4>1, <5>1, <5>5
        <5> QED
          BY <5>3, <5>6
      <4>3. L(n)[d] = l0[d]
        <5> HIDE DEF Written, d
        <5> QED
          BY <4>1, <4>2
      <4> DEFINE l == L(n)
                 w == ValueOf(ir.args[i])
      <4>4. o = Loc(d, sz) /\ l[d] = l0[d] /\ w = Low(l0[d], sz)
        BY <4>1, <4>3
      <4> HIDE DEF d, l, w, o
      <4>5. Value(l, o, sz) = w
        BY <4>4, LocIs DEF Value
      <4> QED
        BY <4>5 DEF l, w
    <3> QED
      BY <3>1, <3>2
  <2>5. [L(n) EXCEPT ![c] = ValueOf(ir.args[i])] = L(n + 1)
    <3>1. \A e : Written(n + 1, e) <=> (Written(n, e) \/ e = c)
      <4>1. 1 .. (n + 1) = (1 .. n) \cup {n + 1}
        BY <2>1
      <4> QED
        BY <4>1
    <3>2. Arg(c) = i
      BY <1>6, <2>2
    <3> HIDE DEF Written, Arg, i, c
    <3> QED
      BY <2>2, <3>1, <3>2
  <2> DEFINE l == L(n)
             empty == <<>>
  <2>6. CallState(L(n), empty, empty) = Core(L(n), H0, empty, empty) /\ CallState(L(n + 1), empty, empty) = Core(L(n + 1), H0, empty, empty)
    BY DEF CallState, Core
  <2>7. l \in Locs /\ tr[n] = Core(l, H0, empty, empty) /\ tr[n + 1] = Core([l EXCEPT ![c] = Value(l, o, sz)], H0, empty, empty)
    BY <1>8, <1>11, <2>1, <2>4, <2>5, <2>6
  <2>8. Ok(k[n + 1])
    <3>1. IsReg(Loc(c, sz)) /\ ~IsMem(Loc(c, sz)) /\ SizesMatch(Loc(c, sz), o)
      BY <2>2, <2>3, LocIs DEF SizesMatch
    <3> QED
      BY <2>2, <3>1 DEF Ok, Constructible, Mov, I
  <2> HIDE DEF l, empty, c, o, i
  <2>9. After(Core(l, H0, empty, empty), Mov(Loc(c, sz), o)) = Core([l EXCEPT ![c] = Value(l, o, sz)], H0, empty, empty)
    BY <1>1, <2>2, <2>3, <2>7, AfterMov
  <2> QED
    BY <2>2, <2>7, <2>8, <2>9
<1> DEFINE y == CallState(L(Len(q)), <<>>, <<>>)
<1>13. tr[Len(k)] = y
  <2>1. Len(q) \in 0 .. Len(q)
    BY <1>5
  <2> HIDE DEF L
  <2> QED
    BY <1>9, <1>11, <2>1
<1> HIDE DEF y
<1>14. Runs(k, InitialMachine, y)
  BY <1>9, <1>10, <1>12, <1>13, Zenon DEF Runs
<1>15. y.loc = L(Len(q)) /\ y.stack = <<>>
  BY DEF y, CallState
<1>16. ASSUME NEW i \in DOMAIN ir.args PROVE Low(y.loc[ResultColors[i]], sz) = ValueOf(ir.args[i])
  <2> DEFINE c == ResultColors[i]
  <2>1. i \in 1 .. na /\ c \in Places
    BY <1>1
  <2>2. CASE Written(Len(q), c)
    <3>1. y.loc[c] = ValueOf(ir.args[i])
      <4> HIDE DEF Written, Arg
      <4> QED
        BY <1>6, <1>15, <2>1, <2>2
    <3> QED
      BY <1>2, <2>1, <3>1
  <2>3. CASE ~Written(Len(q), c)
    <3>1. i \notin S
      <4>1. SUFFICES ASSUME i \in S PROVE FALSE
        OBVIOUS
      <4>2. \E j \in 1 .. Len(q) : q[j] = i
        BY <1>5, <4>1 DEF ToSet
      <4> QED
        BY <2>3, <4>2
    <3>2. Unnarrowed(ir.args[i]) = Loc(c, sz)
      BY <1>3, <3>1
    <3>3. Low(l0[c], sz) = ValueOf(ir.args[i])
      BY <1>2, <2>1, <3>2, LocIs DEF Value
    <3>4. y.loc[c] = l0[c]
      <4> HIDE DEF Written, Arg
      <4> QED
        BY <1>15, <2>1, <2>3
    <3> QED
      BY <3>3, <3>4
  <2> QED
    BY <2>2, <2>3
<1>17. Effect(y)
  <2>1. \A i \in DOMAIN ir.args : ArgValues[i] = ValueOf(ir.args[i])
    BY DEF ArgValues
  <2> QED
    BY <1>16, <2>1 DEF Effect
<1>18. Right(y)
  BY <1>1, <1>15, <1>17 DEF Right
<1> QED
  BY <1>14, <1>18 DEF Translates

(* The body's move to the only register pushed, if one is.                  *)
LEMMA BodyRuns ==
  ASSUME NEW q \in Seq(Places), Len(q) <= 1, \A i \in 1 .. Len(q) : q[i] < NumRegs,
         NEW l \in Locs, NEW s
  PROVE  \E l1 \in Locs :
           /\ Runs([i \in DOMAIN q |-> Mov(Loc(q[i], 64), Imm(15, 64))], CallState(l, s, <<>>), CallState(l1, s, <<>>))
           /\ \A c \in Places : (\A i \in 1 .. Len(q) : q[i] # c) => l1[c] = l[c]
<1> DEFINE k == [i \in DOMAIN q |-> Mov(Loc(q[i], 64), Imm(15, 64))]
           empty == <<>>
<1>1. Len(q) \in {0, 1} /\ k \in Seq({Mov(Loc(c, 64), Imm(15, 64)) : c \in Places}) /\ Len(k) = Len(q)
  <2> DEFINE M(c) == Mov(Loc(c, 64), Imm(15, 64))
             n == Len(q)
  <2>0. n \in Nat /\ n <= 1
    OBVIOUS
  <2>1. k = [i \in DOMAIN q |-> M(q[i])] /\ n \in {0, 1}
    <3> HIDE DEF n
    <3> QED
      BY <2>0
  <2> HIDE DEF M, k
  <2>2. k \in Seq({M(c) : c \in Places}) /\ Len(k) = Len(q)
    BY <2>1
  <2> QED
    BY <2>1, <2>2 DEF M
<1>2. CASE Len(q) = 0
  <2>1. k = <<>>
    BY <1>1, <1>2
  <2>2. Runs(k, CallState(l, s, empty), CallState(l, s, empty))
    <3> HIDE DEF k, empty
    <3> QED
      BY <2>1, NoCode
  <2> QED
    BY <2>2
<1>3. CASE Len(q) = 1
  <2> DEFINE c == q[1]
             o == Imm(15, 64)
             sz == 64
             i == Mov(Loc(c, sz), o)
             l1 == [l EXCEPT ![c] = Value(l, o, sz)]
  <2>1. c \in Places /\ c < NumRegs
    BY <1>3
  <2>2. k = <<i>>
    <3>1. k[1] = i
      BY <1>3
    <3> QED
      BY <1>1, <1>3, <3>1
  <2>3. IsPlain(o) /\ o.sz = sz /\ sz \in Sizes
    BY DEF IsPlain, Sizes, Imm
  <2>4. Ok(i)
    <3>1. IsReg(Loc(c, sz)) /\ ~IsMem(Loc(c, sz)) /\ SizesMatch(Loc(c, sz), o)
      BY <2>1, <2>3, LocIs DEF SizesMatch
    <3> HIDE DEF c, o, sz
    <3> QED
      BY <3>1 DEF Ok, Constructible, Mov, I
  <2>5. \A w : CallState(w, s, empty) = Core(w, H0, empty, s)
    BY DEF CallState, Core
  <2>6. After(CallState(l, s, empty), i) = CallState(l1, s, empty)
    <3> HIDE DEF c, o, sz, empty
    <3>1. After(Core(l, H0, empty, s), i) = Core(l1, H0, empty, s)
      BY <2>1, <2>3, AfterMov
    <3> QED
      BY <2>5, <3>1
  <2>7. l1 \in Locs
    <3>1. Value(l, o, sz) \in Nat
      BY <2>3, ValueType
    <3> HIDE DEF c, o, sz
    <3> QED
      BY <2>1, <3>1 DEF Locs
  <2>8. \A d \in Places : (\A n \in 1 .. Len(q) : q[n] # d) => l1[d] = l[d]
    <3>1. \A d \in Places : c # d => l1[d] = l[d]
      BY DEF Locs
    <3> QED
      BY <1>3, <3>1
  <2> DEFINE x == CallState(l, s, empty)
             z == CallState(l1, s, empty)
  <2>9. Runs(k, x, z)
    <3>1. After(x, i) = z
      BY <2>6
    <3> HIDE DEF k, i, x, z
    <3> QED
      BY <2>2, <2>4, <3>1, OneStep
  <2>10. Runs(k, CallState(l, s, empty), CallState(l1, s, empty))
    BY <2>9
  <2> HIDE DEF l1
  <2> QED
    BY <2>7, <2>8, <2>10
<1> QED
  BY <1>1, <1>2, <1>3

(* Prologue and epilogue with at most one register to save keep it and the  *)
(* frame pointer.                                                           *)
LEMMA FrameTranslates ==
  ASSUME ir \in Cases, ~KnownDefect, ir.op = "frame", NEW k \in FrameCode
  PROVE  Translates(k)
<1> DEFINE l0 == InitialLoc
           r == l0[rbp]
           empty == <<>>
           l1 == [l0 EXCEPT ![rbp] = 1]
           s1 == <<r>>
<1>1. /\ RegistersAssumption /\ l0 \in Locs /\ InitialMachine = CallState(l0, empty, empty)
      /\ ir.through = {} /\ ir.extra \subseteq CalleeSaved /\ ir.extra \subseteq Regs /\ ir.extra \in SUBSET Colors
      /\ ir.results \in Seq(Colors) /\ Len(ir.results) \in 0 .. 1
  <2>1. InitialMachine = CallState(l0, empty, empty)
    BY DEF InitialMachine, CallState, H0
  <2>2. HasPlaces(ir) /\ RegistersAssumption
    BY InstrIs
  <2>3. ir.results \in Seq(Colors) /\ Len(ir.results) <= 1 /\ ir.extra \subseteq CalleeSaved /\ ir.through = {}
    BY <2>2 DEF HasPlaces
  <2>4. CalleeSaved \subseteq Regs
    BY <2>2 DEF RegistersAssumption
  <2>5. Regs \subseteq Colors /\ l0 \in Locs
    BY <2>2, Start, RegPlaces
  <2> DEFINE n == Len(ir.results)
  <2>6. n \in 0 .. 1
    <3>1. n \in Nat /\ n <= 1
      BY <2>3
    <3> HIDE DEF n
    <3> QED
      BY <3>1
  <2> HIDE DEF l0, empty
  <2> QED
    BY <2>1, <2>2, <2>3, <2>4, <2>5, <2>6
<1>2. rbp \in Places /\ rbp \notin ir.extra /\ r \in Nat /\ l1 \in Locs /\ l1[rbp] = 1
      /\ (\A c \in Places : c # rbp => l1[c] = l0[c]) /\ s1 \in Seq(Nat) /\ Len(s1) = 1 /\ s1[1] = r
  <2>1. rbp \in Places /\ rbp \notin Regs
    BY <1>1, RegPlaces DEF rbp
  <2> QED
    BY <1>1, <2>1 DEF Locs
<1>3. Cardinality(ir.extra) <= 1 /\ \A i \in DOMAIN ir.results : ~(ir.results[i] - NumRegs <= Cardinality(ir.extra))
  <2>1. Cardinality(ir.extra) \in Nat
    <3>1. IsFiniteSet(Colors)
      BY <1>1, FS_Interval DEF Colors, RegistersAssumption
    <3>2. ir.extra \subseteq Colors
      BY <1>1
    <3> QED
      BY <3>1, <3>2, FS_Subset, FS_CardinalityType
  <2> QED
    BY <2>1 DEF KnownDefect, FrameDefect
<1> DEFINE A == <<Push(rbp), I("enter", None, None)>>
           D == IF ir.results = <<>> THEN <<>> ELSE <<I("spill", Loc(ir.results[1], 64), None)>>
<1>4. PICK q \in Listings(ir.extra) :
        k = A \o PushAll(q) \o [i \in DOMAIN q |-> Mov(Loc(q[i], 64), Imm(15, 64))] \o D \o PopAll(q) \o <<Pop(rbp)>>
  BY DEF FrameCode
<1>5. /\ q \in Seq(Places) /\ Len(q) = Cardinality(ir.extra) /\ Len(q) \in 0 .. 1
      /\ \A c : c \in ir.extra <=> \E i \in 1 .. Len(q) : q[i] = c
  <2>1. q \in Seq(Places) /\ ToSet(q) = ir.extra /\ Len(q) = Cardinality(ir.extra)
    BY <1>1, Listed
  <2>2. DOMAIN q = 1 .. Len(q)
    BY <2>1
  <2> QED
    BY <1>3, <2>1, <2>2 DEF ToSet
<1>6. \A i \in 1 .. Len(q) : q[i] < NumRegs
  <2>1. \A c \in Regs : c < NumRegs
    BY <1>1 DEF Regs, RegistersAssumption
  <2> QED
    BY <1>1, <1>5, <2>1
<1>7. Reverse(q) = q
  <2>1. Reverse(q) \in Seq(Places) /\ Len(Reverse(q)) = Len(q) /\ \A i \in 1 .. Len(q) : Reverse(q)[i] = q[(Len(q) - i) + 1]
    BY <1>5 DEF Reverse
  <2>2. \A i \in 1 .. Len(q) : (Len(q) - i) + 1 = i
    BY <1>5
  <2> QED
    BY <1>5, <2>1, <2>2
<1> DEFINE B == PushAll(q)
           C == [i \in DOMAIN q |-> Mov(Loc(q[i], 64), Imm(15, 64))]
           E == PopAll(q)
           F == <<Pop(rbp)>>
           s2 == Stacked(s1, q, l1, Len(q))
           x0 == CallState(l0, empty, empty)
           x1 == CallState(l1, s1, empty)
           x2 == CallState(l1, s2, empty)
<1>8. Runs(A, x0, x1)
  <2>1. Ok(Push(rbp)) /\ After(x0, Push(rbp)) = CallState(l0, s1, empty)
    <3>1. Append(empty, r) = s1
      OBVIOUS
    <3>2. Ok(Push(rbp)) /\ After(CallState(l0, empty, empty), Push(rbp)) = CallState(l0, Append(empty, l0[rbp]), empty)
      <4> HIDE DEF l0, empty
      <4> QED
        BY CallStatePush
    <3> HIDE DEF s1, empty, l0
    <3> QED
      BY <3>1, <3>2
  <2> DEFINE i == I("enter", None, None)
             w == CallState(l0, s1, empty)
  <2>2. Ok(i)
    BY DEF Ok, Constructible, I
  <2>3. After(w, i) = AfterStackOp(w, i) /\ AfterStackOp(w, i) = [w EXCEPT !.loc[rbp] = Len(w.stack)]
    BY DEF After, AfterStackOp, I
  <2>4. w.stack = s1 /\ w.loc = l0
    BY DEF CallState
  <2>5. [w EXCEPT !.loc[rbp] = Len(w.stack)] = [w EXCEPT !.loc = l1]
    <3> HIDE DEF w, s1, l0
    <3> QED
      BY <1>2, <2>4
  <2>6. [w EXCEPT !.loc = l1] = x1
    <3> HIDE DEF l0, s1, empty, l1
    <3> QED
      BY DEF CallState
  <2>7. Ok(Push(rbp)) /\ Ok(i) /\ After(After(x0, Push(rbp)), i) = x1
    BY <2>1, <2>2, <2>3, <2>5, <2>6
  <2> DEFINE j == Push(rbp)
  <2> HIDE DEF i, j, x0, x1
  <2>8. Runs(<<j, i>>, x0, x1)
    <3>1. Ok(j) /\ Ok(i) /\ After(After(x0, j), i) = x1
      BY <2>7 DEF j
    <3>2. Runs(<<j>>, x0, After(x0, j)) /\ Runs(<<i>>, After(x0, j), x1)
      BY <3>1, OneStep
    <3>3. Runs(<<j>> \o <<i>>, x0, x1)
      BY <3>2, ThenRuns
    <3>4. <<j>> \o <<i>> = <<j, i>>
      BY OneAndOne
    <3> QED
      BY <3>3, <3>4
  <2> QED
    BY <2>8 DEF i, j
<1>9. Runs(B, x1, x2) /\ Len(s2) = 1 + Len(q)
  <2>1. Len(q) \in 0 .. Len(q)
    BY <1>5
  <2>2. l1 \in Locs /\ s1 \in Seq(Nat) /\ Len(s1) = 1 /\ q \in Seq(Places)
    BY <1>2, <1>5
  <2> HIDE DEF l1, s1, empty
  <2>3. Runs(B, x1, x2)
    BY <2>2, PushAllRuns
  <2>4. Len(s2) = Len(s1) + Len(q)
    BY <2>1, <2>2, StackedIs
  <2> QED
    BY <2>2, <2>3, <2>4
<1>10. PICK l2 \in Locs : /\ Runs(C, x2, CallState(l2, s2, empty))
                         /\ \A c \in Places : (\A i \in 1 .. Len(q) : q[i] # c) => l2[c] = l1[c]
  <2>1. l1 \in Locs /\ q \in Seq(Places) /\ Len(q) <= 1 /\ \A i \in 1 .. Len(q) : q[i] < NumRegs
    BY <1>2, <1>5, <1>6
  <2> HIDE DEF l1, s2
  <2> QED
    BY <2>1, BodyRuns
<1> DEFINE x3 == CallState(l2, s2, empty)
<1>11. Runs(D, x3, x3)
  <2>1. CASE ir.results = <<>>
    <3>1. D = <<>>
      BY <2>1
    <3> HIDE DEF D, x3
    <3> QED
      BY <3>1, NoCode
  <2>2. CASE ir.results # <<>>
    <3> DEFINE c == ir.results[1]
               i == I("spill", Loc(c, 64), None)
    <3>1. Len(ir.results) = 1 /\ 1 \in DOMAIN ir.results /\ c \in Colors
      BY <1>1, <2>2
    <3>2. c - NumRegs > Len(q) /\ c - NumRegs \in Int
      BY <1>1, <1>3, <1>5, <3>1 DEF Colors, RegistersAssumption
    <3>3. l2[rbp] = 1
      BY <1>2, <1>5, <1>10
    <3>4. x3.loc = l2 /\ x3.stack = s2
      BY DEF CallState
    <3>5. D = <<i>> /\ i.op = "spill" /\ i.d.at = c
      BY <2>2, LocIs DEF I
    <3>6. Ok(i) /\ After(x3, i) = AfterStackOp(x3, i)
      <4> HIDE DEF x3
      <4> QED
        BY DEF Ok, Constructible, After, I
    <3> HIDE DEF x3, i, c, D, s2
    <3>7. ~(x3.loc[rbp] + (i.d.at - NumRegs) <= Len(x3.stack))
      BY <1>5, <1>9, <3>2, <3>3, <3>4, <3>5
    <3>8. AfterStackOp(x3, i) = x3
      BY <3>5, <3>7 DEF AfterStackOp
    <3> QED
      BY <3>5, <3>6, <3>8, OneStep
  <2> QED
    BY <2>1, <2>2
<1> DEFINE l3 == Restored(q, l1, l2, 0)
           x4 == CallState(l3, s1, empty)
<1>12. Runs(E, x3, x4) /\ l3 \in Locs
  <2> HIDE DEF l1, s1, empty
  <2>1. Runs(PopAll(Reverse(q)), CallState(l2, Stacked(s1, q, l1, Len(q)), empty), CallState(Restored(q, l1, l2, 0), s1, empty))
        /\ Restored(q, l1, l2, 0) \in Locs
    BY <1>2, <1>5, PopAllRuns
  <2> QED
    BY <1>7, <2>1
<1> DEFINE y == CallState([l3 EXCEPT ![rbp] = r], empty, empty)
<1>13. Runs(F, x4, y)
  <2>1. Front(s1) = empty /\ s1[Len(s1)] = r
    BY <1>2 DEF Front
  <2>0. l3 \in Locs /\ rbp \in Places
    BY <1>2, <1>12
  <2> HIDE DEF l3, s1, empty, r
  <2>2. Ok(Pop(rbp)) /\ After(CallState(l3, s1, empty), Pop(rbp)) = CallState([l3 EXCEPT ![rbp] = s1[Len(s1)]], Front(s1), empty)
    BY <2>0, CallStatePop
  <2> DEFINE i == Pop(rbp)
  <2>3. Ok(i) /\ After(x4, i) = y
    BY <2>1, <2>2
  <2> HIDE DEF x4, y, i
  <2>4. Runs(<<i>>, x4, y)
    BY <2>3, OneStep
  <2> QED
    BY <2>4 DEF i
<1>14. Runs(k, InitialMachine, y)
  <2>1. k = A \o B \o C \o D \o E \o F /\ InitialMachine = x0
    BY <1>1, <1>4
  <2> HIDE DEF A, B, C, D, E, F, x0, x1, x2, x3, x4, y
  <2>2. Runs(A \o B, x0, x2)
    BY <1>8, <1>9, ThenRuns
  <2>3. Runs(A \o B \o C, x0, x3)
    BY <1>10, <2>2, ThenRuns DEF x3
  <2>4. Runs(A \o B \o C \o D, x0, x3)
    BY <1>11, <2>3, ThenRuns
  <2>5. Runs(A \o B \o C \o D \o E, x0, x4)
    BY <1>12, <2>4, ThenRuns
  <2>6. Runs(A \o B \o C \o D \o E \o F, x0, y)
    BY <1>13, <2>5, ThenRuns
  <2> QED
    BY <2>1, <2>6
<1>15. y.loc = [l3 EXCEPT ![rbp] = r] /\ y.stack = <<>>
  BY DEF y, CallState
<1>16. ASSUME NEW c \in ir.extra PROVE y.loc[c] = InitialLoc[c]
  <2>1. c \in Places /\ c # rbp
    BY <1>1, <1>2, RegPlaces
  <2>2. \E j \in (0 + 1) .. Len(q) : q[j] = c
    BY <1>5
  <2>3. l3[c] = l1[c]
    BY <2>1, <2>2 DEF Restored
  <2> HIDE DEF l3, l1
  <2> QED
    BY <1>2, <1>12, <1>15, <2>1, <2>3 DEF Locs
<1>17. y.loc[rbp] = InitialLoc[rbp]
  <2> HIDE DEF l3
  <2> QED
    BY <1>2, <1>12, <1>15 DEF Locs
<1>18. Right(y)
  <2>1. Effect(y)
    BY <1>16, <1>17 DEF Effect
  <2> QED
    BY <1>1, <1>15, <2>1 DEF Right
<1> QED
  BY <1>14, <1>18 DEF Translates

(* Every code the translator may emit for an instruction is right.          *)
LEMMA AllTranslate ==
  ASSUME ir \in Cases, ~KnownDefect, NEW c \in TranslateInstr
  PROVE  Translates(c)
<1>1. ir.op \in {"mov", "bool_not", "not", "neg", "offset", "niltest", "load", "store", "jumpcond", "call", "return",
                 "frame"} \cup BoolBinaryOps \cup CompareOps \cup IntBinaryOps
  BY InstrIs DEF IsInstr
<1>2. ir.op # "bool_not"
  BY DEF KnownDefect, NotIsBitwise
<1>3. CASE ir.op = "mov"
  BY <1>3, MovTranslates DEF TranslateInstr, CompareOps
<1>4. CASE ir.op = "bool_eq"
  <2> DEFINE cond == "eq"
  <2>1. cond \in {"eq", "neq"} /\ ir.op = (IF cond = "eq" THEN "bool_eq" ELSE "bool_neq") /\ c \in TranslateBoolCompare(cond)
    BY <1>4 DEF TranslateInstr, CompareOps
  <2> HIDE DEF cond
  <2> QED
    BY <2>1, BoolCompareTranslates
<1>5. CASE ir.op = "bool_neq"
  <2> DEFINE cond == "neq"
  <2>1. cond \in {"eq", "neq"} /\ ir.op = (IF cond = "eq" THEN "bool_eq" ELSE "bool_neq") /\ c \in TranslateBoolCompare(cond)
    BY <1>5 DEF TranslateInstr, CompareOps
  <2> HIDE DEF cond
  <2> QED
    BY <2>1, BoolCompareTranslates
<1>6. CASE ir.op = "bool_and"
  <2> DEFINE op == "and"
  <2>1. op \in {"and", "or"} /\ ir.op = (IF op = "and" THEN "bool_and" ELSE "bool_or") /\ c \in TranslateBoolLogic(op)
    BY <1>6 DEF TranslateInstr, CompareOps
  <2> HIDE DEF op
  <2> QED
    BY <2>1, BoolLogicTranslates
<1>7. CASE ir.op = "bool_or"
  <2> DEFINE op == "or"
  <2>1. op \in {"and", "or"} /\ ir.op = (IF op = "and" THEN "bool_and" ELSE "bool_or") /\ c \in TranslateBoolLogic(op)
    BY <1>7 DEF TranslateInstr, CompareOps
  <2> HIDE DEF op
  <2> QED
    BY <2>1, BoolLogicTranslates
<1>8. CASE ir.op \in {"not", "neg"}
  <2>1. c \in TranslateIntUnary(ir.op)
    BY <1>8 DEF TranslateInstr, CompareOps
  <2> QED
    BY <1>8, <2>1, IntUnaryTranslates
<1>9. CASE ir.op \in CompareOps
  <2>1. c \in TranslateIntCompare(ir.op)
    BY <1>9 DEF TranslateInstr, CompareOps
  <2> QED
    BY <1>9, <2>1, IntCompareTranslates
<1>10. CASE ir.op \in {"add", "and", "or", "xor"}
  <2>1. c \in TranslateIntCommutativeAL(ir.op)
    BY <1>10 DEF TranslateInstr, CompareOps
  <2> QED
    BY <1>10, <2>1, IntCommutativeALTranslates
<1>11. CASE ir.op = "sub"
  BY <1>11, IntSubTranslates DEF TranslateInstr, CompareOps
<1>12. CASE ir.op = "mul"
  BY <1>12, IntMulTranslates DEF TranslateInstr, CompareOps
<1>13. CASE ir.op = "offset"
  BY <1>13, PointerOffsetTranslates DEF TranslateInstr, CompareOps
<1>14. CASE ir.op = "niltest"
  BY <1>14, NilTestTranslates DEF TranslateInstr, CompareOps
<1>15. CASE ir.op = "load"
  BY <1>15, LoadTranslates DEF TranslateInstr, CompareOps
<1>16. CASE ir.op = "store"
  BY <1>16, StoreTranslates DEF TranslateInstr, CompareOps
<1>17. CASE ir.op = "jumpcond"
  BY <1>17, JumpCondTranslates DEF TranslateInstr, CompareOps
<1>18. CASE ir.op = "call"
  BY <1>18, CallTranslates DEF TranslateInstr, CompareOps
<1>19. CASE ir.op = "return"
  BY <1>19, ReturnTranslates DEF TranslateInstr, CompareOps
<1>20. CASE ir.op = "frame"
  BY <1>20, FrameTranslates DEF TranslateInstr, CompareOps
<1> QED
  BY <1>1, <1>2, <1>3, <1>4, <1>5, <1>6, <1>7, <1>8, <1>9, <1>10, <1>11, <1>12, <1>13, <1>14, <1>15, <1>16, <1>17,
     <1>18, <1>19, <1>20 DEF BoolBinaryOps, IntBinaryOps

-----------------------------------------------------------------------------
(* The instruction stays the same while it is translated and its code runs, *)
(* and so does what it means and whether it is known to be wrong.           *)

(* What makes a state right depends on the instruction alone.               *)
LEMMA SameMeaning ==
  ASSUME ir' = ir, NEW y
  PROVE  Right(y)' <=> Right(y)
<1>1. InitialLoc' = InitialLoc
  BY DEF InitialLoc
<1>2. \A o : ValueOf(o)' = ValueOf(o)
  BY <1>1 DEF ValueOf
<1>3. ArgValues' = ArgValues
  BY <1>2 DEF ArgValues
<1>4. IRBool' <=> IRBool
  BY DEF IRBool
<1>5. IRValue' = IRValue
  BY <1>4 DEF IRValue
<1>6. ResultSize' = ResultSize
  BY DEF ResultSize
<1>7. Effect(y)' <=> Effect(y)
  BY <1>1, <1>3, <1>5, <1>6 DEF Effect
<1> QED
  BY <1>1, <1>7 DEF Right

(* Whether the translation of an instruction is known to be wrong depends   *)
(* on the instruction alone.                                                *)
LEMMA SameDefects ==
  ASSUME ir' = ir
  PROVE  KnownDefect' <=> KnownDefect
<1>1. ASSUME NEW s, NEW t, NEW u \in BOOLEAN, NEW v \in BOOLEAN, NEW w
      PROVE  TranslateValue(w, s, u, v)' = TranslateValue(w, s, u, v)
  OBVIOUS
<1>2. \A o : Narrowed(o)' = Narrowed(o) /\ Unnarrowed(o)' = Unnarrowed(o)
  BY DEF Narrowed, Unnarrowed
<1>3. OperandColors' = OperandColors /\ ResultsOf' = ResultsOf /\ LiveColors' = LiveColors /\ UsedColors' = UsedColors
      /\ InvolvedColors' = InvolvedColors
  BY DEF OperandColors, ResultsOf, LiveColors, UsedColors, InvolvedColors
<1>4. \A u \in BOOLEAN : Prepare(u, {})' = Prepare(u, {})
  BY <1>3 DEF Prepare
<1>5. SavedTmp(TRUE)' = SavedTmp(TRUE) /\ SavedTmp(FALSE)' = SavedTmp(FALSE)
  BY <1>4 DEF SavedTmp
<1>6. Res' = Res
  BY DEF Res
<1>7. MulDefect' <=> MulDefect
  BY <1>2, <1>6 DEF MulDefect
<1>8. (NotIsBitwise' <=> NotIsBitwise) /\ (UnaryOnOperand' <=> UnaryOnOperand)
  BY <1>6 DEF NotIsBitwise, UnaryOnOperand
<1>9. (TwoMemOperands' <=> TwoMemOperands) /\ (TmpOfOtherSize' <=> TmpOfOtherSize)
  BY <1>2, <1>6 DEF TwoMemOperands, TmpOfOtherSize
<1>10. TmpHoldsOperand' <=> TmpHoldsOperand
  BY <1>2, <1>5 DEF TmpHoldsOperand
<1>11. (NarrowedUnsigned' <=> NarrowedUnsigned) /\ (Overwritten' <=> Overwritten)
       /\ (TruncatedAddress' <=> TruncatedAddress) /\ (FrameDefect' <=> FrameDefect)
  BY DEF NarrowedUnsigned, Overwritten, TruncatedAddress, FrameDefect
<1> QED
  BY <1>7, <1>8, <1>9, <1>10, <1>11 DEF KnownDefect

-----------------------------------------------------------------------------
(* The inductive invariant: the code that is left takes the machine to a    *)
(* state that is right.                                                     *)
OnTheWay ==
  /\ ir \in Cases
  /\ \/ stage = "translate" /\ m = InitialMachine
     \/ stage = "run" /\ \E y : Runs(code, m, y) /\ Right(y)

(* Every step keeps the invariant: translating makes code that is right,    *)
(* executing leaves the rest of it.                                         *)
LEMMA StaysOnTheWay ==
  ASSUME ~KnownDefect, OnTheWay, [Next]_vars
  PROVE  OnTheWay' /\ ir' = ir
<1>1. CASE Translate
  <2>1. ir \in Cases /\ stage = "translate" /\ m = InitialMachine /\ stage' = "run" /\ ir' = ir /\ m' = m
        /\ code' \in TranslateInstr
    BY <1>1 DEF OnTheWay, Translate
  <2>2. Translates(code')
    BY <2>1, AllTranslate
  <2>3. PICK y : Runs(code', InitialMachine, y) /\ Right(y)
    BY <2>2 DEF Translates
  <2>4. Right(y)'
    BY <2>1, <2>3, SameMeaning
  <2> QED
    BY <2>1, <2>3, <2>4 DEF OnTheWay
<1>2. CASE Execute
  <2>1. ir \in Cases /\ stage = "run" /\ code # <<>> /\ ir' = ir
    BY <1>2 DEF OnTheWay, Execute
  <2>2. PICK y : Runs(code, m, y) /\ Right(y)
    BY <2>1 DEF OnTheWay
  <2>3. Ok(Head(code)) /\ Runs(Tail(code), After(m, Head(code)), y)
    BY <2>1, <2>2, RestRuns
  <2>4. m' = After(m, Head(code)) /\ code' = Tail(code) /\ stage' = stage
    BY <1>2, <2>3 DEF Execute, Ok
  <2>5. Right(y)'
    BY <2>1, <2>2, SameMeaning
  <2> QED
    BY <2>1, <2>3, <2>4, <2>5 DEF OnTheWay
<1>3. CASE UNCHANGED vars
  <2>1. ir' = ir /\ stage' = stage /\ code' = code /\ m' = m
    BY <1>3 DEF vars
  <2>2. CASE stage = "translate" /\ m = InitialMachine
    <3>1. InitialMachine' = InitialMachine
      BY <2>1 DEF InitialMachine, InitialLoc
    <3> QED
      BY <2>1, <2>2, <3>1 DEF OnTheWay
  <2>3. CASE stage = "run" /\ \E y : Runs(code, m, y) /\ Right(y)
    <3>1. PICK y : Runs(code, m, y) /\ Right(y)
      BY <2>3
    <3>2. Right(y)'
      BY <2>1, <3>1, SameMeaning
    <3> QED
      BY <2>1, <2>3, <3>1, <3>2 DEF OnTheWay
  <2> QED
    BY <2>2, <2>3 DEF OnTheWay
<1> QED
  BY <1>1, <1>2, <1>3 DEF Next

(* When nothing of the code is left the machine is right.                   *)
LEMMA EndsRight ==
  ASSUME OnTheWay PROVE TranslatedRight
<1>1. CASE stage = "run" /\ code = <<>>
  <2>1. PICK y : Runs(code, m, y) /\ Right(y)
    BY <1>1 DEF OnTheWay
  <2>2. m = y
    BY <1>1, <2>1, NoCode
  <2> QED
    BY <1>1, <2>1, <2>2 DEF TranslatedRight
<1>2. CASE ~(stage = "run" /\ code = <<>>)
  BY <1>2 DEF TranslatedRight, OnTheWay
<1> QED
  BY <1>1, <1>2

(* Wherever the register allocator puts the operands, whichever registers   *)
(* are live, and whichever temporary is taken, the emitted code computes    *)
(* what the IR instruction computes and keeps what lives on and the stack,  *)
(* outside the named defects: for every number of registers and colors and  *)
(* every set of instructions.                                               *)
THEOREM TranslationIsRight == Spec => []TranslatedRight
<1> DEFINE Inv == KnownDefect \/ OnTheWay
<1>1. Init => Inv
  BY DEF Init, OnTheWay
<1>2. Inv /\ [Next]_vars => Inv'
  <2>1. SUFFICES ASSUME Inv, [Next]_vars PROVE Inv'
    OBVIOUS
  <2>2. ir' = ir
    BY <2>1 DEF Next, Translate, Execute, vars
  <2>3. CASE KnownDefect
    BY <2>2, <2>3, SameDefects
  <2>4. CASE ~KnownDefect /\ OnTheWay
    BY <2>1, <2>4, StaysOnTheWay
  <2> QED
    BY <2>1, <2>3, <2>4
<1>3. Inv => TranslatedRight
  BY EndsRight DEF TranslatedRight
<1> QED
  BY <1>1, <1>2, <1>3, PTL DEF Spec
=============================================================================
