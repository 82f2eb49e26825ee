-------------------------- MODULE InstrTranslator --------------------------
(***************************************************************************)
(* How one IR instruction becomes x86-64 instructions                      *)
(* (x86_64/ir_translator/instr_translators, call_generator.cc,             *)
(* temporary_reg.cc, func_translator.cc), given where the register         *)
(* allocator put its operands: a color below NumRegs is a register, any    *)
(* other a slot of the frame.  The emitted code then runs on a small       *)
(* machine.  Sizes keep their names (64, 32 and 8 bits) and the relation   *)
(* that matters, values of 64 bits that do not fit into 32: a size 64      *)
(* stands for 4 bits here, 32 and 8 for 2.                                 *)
(*                                                                         *)
(* An IR instruction `ir` is a record of its operation, type, operands a   *)
(* and b (constants or colors), results and arguments (sequences), the     *)
(* values va and vb of a and b, the colors of the values that stay live    *)
(* through the instruction, and further colors used in its function.       *)
(* Parallel moves are one step here; ParallelMove shows how they are made. *)
(***************************************************************************)
EXTENDS Integers, Sequences, FiniteSets, SequencesExt, FiniteSetsExt

CONSTANTS NumRegs, NumColors, ArgColors, ResultColors, CalleeSaved, Cases

VARIABLES ir, stage, code, m

vars == <<ir, stage, code, m>>

Bits(sz) == IF sz = 64 THEN 4 ELSE 2
Low(v, sz) == v % 2^Bits(sz)
Signed(v, sz) == IF Low(v, sz) >= 2^(Bits(sz) - 1) THEN Low(v, sz) - 2^Bits(sz) ELSE Low(v, sz)
rbp == NumColors  \* the frame pointer's place among the locations

-----------------------------------------------------------------------------
(* Operands.                                                               *)

Const(v) == [k |-> "const", v |-> v]
Val(c) == [k |-> "val", v |-> c]
Loc(c, sz) == [k |-> IF c < NumRegs THEN "reg" ELSE "mem", at |-> c, sz |-> sz]
Imm(v, sz) == [k |-> "imm", at |-> v, sz |-> sz]
Heap(o, sz) == [k |-> "heap", at |-> o, sz |-> sz]  \* at: a register or an Imm

IsImm(o) == o.k = "imm"
IsReg(o) == o.k = "reg"
IsMem(o) == o.k \in {"mem", "heap"}
IsWideImm(o) == IsImm(o) /\ o.sz = 64

\* Int::CanConvertTo for the 32-bit type of the same signedness.
CanConvertTo32(v, signed) ==
  IF signed THEN Signed(v, 64) \in -2 .. 1 ELSE v \in 0 .. 3

TranslateValue(o, sz, signed, narrowing) ==
  IF o.k = "val" THEN Loc(o.v, sz)
  ELSE IF sz = 64 /\ narrowing /\ CanConvertTo32(o.v, signed) THEN Imm(Low(o.v, 32), 32)
  ELSE Imm(Low(o.v, sz), sz)

Narrowed(o) == TranslateValue(o, ir.sz, ir.signed, TRUE)
Unnarrowed(o) == TranslateValue(o, ir.sz, ir.signed, FALSE)

\* Nil is a 32-bit zero, any other pointer constant has 64 bits.
Pointer(o) ==
  IF o.k = "val" THEN Loc(o.v, 64) ELSE IF o.v = 0 THEN Imm(0, 32) ELSE Imm(o.v, 64)

-----------------------------------------------------------------------------
(* The instructions: what the IR checker and the register allocator see to, *)
(* and what the comments of the translators assume of constants.           *)

Regs == 0 .. (NumRegs - 1)
Colors == 0 .. (NumColors - 1)
Words(sz) == 0 .. (2^Bits(sz) - 1)

Computed == {Val(c) : c \in Colors}
Values(sz) == Computed \cup {Const(v) : v \in Words(sz)}
Unused == {Const(0)}

CompareOps == {"eq", "neq", "lss", "leq", "gtr", "geq"}
BoolBinaryOps == {"bool_eq", "bool_neq", "bool_and", "bool_or"}
IntBinaryOps == {"add", "and", "or", "xor", "sub", "mul"}

\* The sizes of the operands, and how many results there are.
SizeOfA(i) == IF i.op \in {"offset", "niltest", "load", "store", "call"} THEN 64 ELSE i.sz
NumResults(i) == IF i.op \in {"store", "jumpcond"} THEN {0} ELSE {1}

HasOperands(i) ==
  CASE i.op \in {"mov", "load"} -> i.a \in Values(SizeOfA(i)) /\ i.b \in Unused
    [] i.op \in {"bool_not", "not", "neg", "niltest"} -> i.a \in Computed /\ i.b \in Unused
    [] i.op \in BoolBinaryOps -> i.a \in Computed /\ i.b \in Computed
    [] i.op \in CompareOps \cup IntBinaryOps \cup {"offset"} ->
         /\ i.a \in Values(i.sz) /\ i.b \in Values(i.sz)
         /\ i.a \in Computed \/ i.b \in Computed
    [] i.op = "store" -> i.a \in Values(64) /\ i.b \in Values(i.sz)
    [] i.op = "jumpcond" -> i.a \in Values(8) /\ i.b \in Unused
    [] i.op = "call" -> i.a \in Values(64) \ {Const(0)} /\ i.b \in Unused
    [] i.op \in {"return", "frame"} -> i.a \in Unused /\ i.b \in Unused

\* Bool's values are 0 and 1; a value has one place, a constant one value.
HasValues(i) ==
  /\ i.va \in Words(SizeOfA(i)) /\ i.vb \in Words(i.sz)
  /\ i.op \in BoolBinaryOps \cup {"bool_not", "jumpcond"} => i.sz = 8 /\ {i.va, i.vb} \subseteq 0 .. 1
  /\ i.op \in {"offset", "niltest"} => i.sz = 64
  /\ i.a.k = "const" => i.va = i.a.v
  /\ i.b.k = "const" => i.vb = i.b.v
  /\ i.a \in Computed /\ i.a = i.b => i.va = i.vb /\ SizeOfA(i) = i.sz

IsInjection(q) == \A i, j \in DOMAIN q : q[i] = q[j] => i = j

\* No value that stays live shares a place with a result.
HasPlaces(i) ==
  /\ i.results \in Seq(Colors) /\ IsInjection(i.results)
  /\ i.args \in Seq(Values(i.sz))
  /\ i.through \in SUBSET (Colors \ ToSet(i.results)) /\ i.extra \in SUBSET Colors
  /\ CASE i.op = "call" -> /\ Len(i.args) <= Len(ArgColors) /\ Len(i.results) <= Len(ResultColors)
                           /\ i.a \in Computed \cap ToSet(i.args) => i.sz = 64
       [] i.op = "return" -> Len(i.args) <= Len(ResultColors) /\ i.results = <<>> /\ i.through = {}
       [] i.op = "frame" -> /\ i.args = <<>> /\ Len(i.results) <= 1 /\ i.through = {}
                            /\ ToSet(i.results) \cap Regs = {} /\ i.extra \subseteq CalleeSaved
       [] OTHER -> i.args = <<>> /\ Len(i.results) \in NumResults(i)

Fields == {"op", "sz", "signed", "a", "b", "args", "results", "va", "vb", "through", "extra"}

IsInstr(i) ==
  /\ DOMAIN i = Fields /\ i.sz \in {64, 32, 8} /\ i.signed \in BOOLEAN
  /\ i.op \in {"mov", "bool_not", "not", "neg", "offset", "niltest", "load", "store", "jumpcond",
               "call", "return", "frame"} \cup BoolBinaryOps \cup CompareOps \cup IntBinaryOps
  /\ HasOperands(i) /\ HasValues(i) /\ HasPlaces(i)

\* The processor has 14 registers to allocate; none of those that arguments
\* and results are passed in is saved by the callee.
RegistersAssumption ==
  /\ NumRegs \in Nat /\ NumRegs >= 3 /\ NumColors \in Nat /\ NumRegs <= NumColors
  /\ CalleeSaved \subseteq Regs
  /\ ArgColors \in Seq(Regs \ CalleeSaved) /\ IsInjection(ArgColors)
  /\ ResultColors \in Seq(Regs \ CalleeSaved) /\ IsInjection(ResultColors)

ASSUME InstrsAssumption == RegistersAssumption /\ \A i \in Cases : IsInstr(i)

-----------------------------------------------------------------------------
(* Emitted instructions and sequences of them.                             *)

I(op, d, s) == [op |-> op, d |-> d, s |-> s]
None == Imm(0, 8)
Fail == <<I("fail", None, None)>>
Undefined == <<I("undefined", None, None)>>
Push(c) == I("push", Loc(c, 64), None)
Pop(c) == I("pop", Loc(c, 64), None)
Mov(d, s) == I("mov", d, s)
Setcc(cond, d) == [op |-> "setcc", d |-> d, s |-> None, cond |-> cond, signed |-> ir.signed]

(* Temporary registers.                                                    *)

OperandColors ==
  {o.v : o \in {o \in {ir.a, ir.b} \cup ToSet(ir.args) : o.k = "val"}}
ResultsOf == ToSet(ir.results)
LiveColors == ir.through \cup OperandColors \cup ResultsOf
UsedColors == LiveColors \cup ir.extra

\* ValuesInvolvedInInstr looks at the defined values twice.
InvolvedColors == ResultsOf

\* TemporaryReg::Prepare: the colors it may return and whether it saves them.
Prepare(canUseResult, taken) ==
  LET regs == (0 .. (NumRegs - 1)) \ taken
      result == IF canUseResult THEN (regs \cap ResultsOf) \ OperandColors ELSE {}
      idle == (regs \cap UsedColors) \ LiveColors
      unused == regs \ UsedColors
      live == regs \ InvolvedColors
      Free(S) == {[c |-> c, saved |-> FALSE] : c \in S}
  IN IF result # {} THEN Free(result)
     ELSE IF idle # {} THEN Free(idle)
     ELSE IF unused # {} THEN Free({Min(unused)})
     ELSE IF live # {} THEN {[c |-> Min(live), saved |-> TRUE]}
     ELSE {}

Save(t) == IF t.saved THEN <<Push(t.c)>> ELSE <<>>
Restore(t) == IF t.saved THEN <<Pop(t.c)>> ELSE <<>>
Around(t, instrs) == Save(t) \o instrs \o Restore(t)

\* The operand as the code around it finds it: itself, or moved to a temporary.
InTmp(needed, o, canUseResult, taken) ==
  LET tmps == Prepare(canUseResult, taken)
  IN IF ~needed THEN {[o |-> o, before |-> <<>>, after |-> <<>>]}
     ELSE IF tmps = {} THEN {[o |-> o, before |-> Fail, after |-> <<>>]}
     ELSE {[o |-> Loc(t.c, o.sz), before |-> Save(t) \o <<Mov(Loc(t.c, o.sz), o)>>,
            after |-> Restore(t)] : t \in tmps}

MovNeedsTmpReg(d, s) == ~IsReg(d) /\ (IsWideImm(s) \/ IsMem(s))

\* The code of a single move and the temporary it took; no code for a move
\* of an operand to itself.
GenerateMov(d, s) ==
  IF d = s THEN {[code |-> <<>>, taken |-> {}]}
  ELSE IF ~MovNeedsTmpReg(d, s) THEN {[code |-> <<Mov(d, s)>>, taken |-> {}]}
  ELSE IF Prepare(FALSE, {}) = {} THEN {[code |-> Fail, taken |-> {}]}
  ELSE {[code |-> Around(t, <<Mov(Loc(t.c, s.sz), s), Mov(d, Loc(t.c, s.sz))>>),
         taken |-> {t.c}] : t \in Prepare(FALSE, {})}

\* The first operand moved to the result and the other one applied to it, or
\* only the latter if the result is the other operand's place already.
MovAndApply(op, res, moved, first, needed, other) ==
  UNION {{mv.code \o (t.before \o <<I(op, res, t.o)>> \o t.after) :
            t \in InTmp(needed, other, FALSE, mv.taken)} :
         mv \in IF moved THEN {[code |-> <<>>, taken |-> {}]} ELSE GenerateMov(res, first)}

-----------------------------------------------------------------------------
(* The translators: the set of codes the instruction may become.           *)

Result(sz) == Loc(ir.results[1], sz)

TranslateMov ==
  {mv.code : mv \in GenerateMov(Result(ir.sz), Narrowed(ir.a))}

TranslateBoolNot ==
  {mv.code \o <<I("not", Result(8), None)>> : mv \in GenerateMov(Result(8), Unnarrowed(ir.a))}

TranslateBoolCompare(cond) ==
  LET a == Unnarrowed(ir.a)  b == Unnarrowed(ir.b)
  IN {t.before \o <<I("cmp", a, t.o), Setcc(cond, Result(8))>> \o t.after :
        t \in InTmp(IsMem(a) /\ IsMem(b), b, TRUE, {})}

TranslateBoolLogic(op) ==
  LET res == Result(8)  a == Unnarrowed(ir.a)  b == Unnarrowed(ir.b)
      other == IF res = b THEN a ELSE b
  IN MovAndApply(op, res, res = b, a, IsMem(a) /\ IsMem(other), other)

TranslateIntUnary(op) ==
  {mv.code \o <<I(op, Narrowed(ir.a), None)>> : mv \in GenerateMov(Result(ir.sz), Narrowed(ir.a))}

Flipped == [eq |-> "eq", neq |-> "neq", lss |-> "gtr", gtr |-> "lss", leq |-> "geq", geq |-> "leq"]

TranslateIntCompare(cond) ==
  LET swap == ir.a.k = "const"
      a == Narrowed(IF swap THEN ir.b ELSE ir.a)
      b == Narrowed(IF swap THEN ir.a ELSE ir.b)
  IN {t.before \o <<I("cmp", a, t.o), Setcc(IF swap THEN Flipped[cond] ELSE cond, Result(8))>> \o t.after :
        t \in InTmp(IsWideImm(b) \/ (IsMem(a) /\ IsMem(b)), b, TRUE, {})}

TranslateIntCommutativeAL(op) ==
  LET res == Result(ir.sz)
      swap == IsImm(Narrowed(ir.a))
      a == Narrowed(IF swap THEN ir.b ELSE ir.a)
      b == Narrowed(IF swap THEN ir.a ELSE ir.b)
      other == IF res = b THEN a ELSE b
  IN MovAndApply(op, res, res = b, a, IsWideImm(other) \/ (IsMem(other) /\ IsMem(res)), other)

\* A mutant of LastUse for which every use is the last.
AnyUse(o) == o.k = "val"

\* A register operand that is not live after the instruction may be changed.
LastUse(o) == o.k = "val" /\ o.v \notin ir.through

TranslateIntSub ==
  LET res == Result(ir.sz)  a == Narrowed(ir.a)  b == Narrowed(ir.b)
  IN IF res = b
     THEN {t.before \o <<I("sub", t.o, b), Mov(res, t.o)>> \o t.after :
             t \in InTmp(~(IsReg(a) /\ LastUse(ir.a)), a, FALSE, {})}
     ELSE MovAndApply("sub", res, FALSE, a, IsWideImm(b) \/ (IsMem(b) /\ IsMem(res)), b)

\* The product of a and o, which is a temporary iff tmp says so.
MulCode(res, a, o, tmp) ==
  IF ~IsReg(res)
  THEN IF tmp THEN <<I("imul", o, a), Mov(res, o)>> ELSE Undefined
  ELSE IF IsImm(o) THEN <<[op |-> "imul3", d |-> res, s |-> a, imm |-> o]>>
  ELSE (IF res # o THEN <<Mov(res, o)>> ELSE <<>>) \o <<I("imul", res, a)>>

TranslateIntMul ==
  LET res == Result(ir.sz)
      swap == ir.a.k = "const"
      a == Narrowed(IF swap THEN ir.b ELSE ir.a)
      b == Narrowed(IF swap THEN ir.a ELSE ir.b)
      tmp == IsWideImm(b) \/ (IsMem(res) /\ IsMem(a) /\ IsMem(b))
  IN {t.before \o MulCode(res, a, t.o, tmp) \o t.after : t \in InTmp(tmp, b, TRUE, {})}

TranslatePointerOffset ==
  LET res == Result(64)  a == Pointer(ir.a)  b == Narrowed(ir.b)
      other == IF res = b THEN a ELSE b
  IN MovAndApply("add", res, res = b, a, IsWideImm(other) \/ (IsMem(a) /\ IsMem(res)), other)

TranslateNilTest == {<<I("cmp", Pointer(ir.a), Imm(0, 32)), Setcc("eq", Result(8))>>}

\* A constant address is the 32-bit displacement of a memory operand.
At(address) == Heap(IF IsImm(address) THEN Imm(Low(address.at, 32), 32) ELSE address, ir.sz)

\* A result in the frame goes through the address's temporary, or one of its own.
TranslateLoad ==
  LET res == Result(ir.sz)
      address == Pointer(ir.a)
      tmps == Prepare(FALSE, {})
      Through(o, t) == <<Mov(t, At(o)), Mov(res, t)>>
  IN IF IsMem(address)
     THEN {t.before \o (IF IsReg(res) THEN <<Mov(res, At(t.o))>> ELSE Through(t.o, t.o)) \o t.after :
             t \in InTmp(TRUE, address, TRUE, {})}
     ELSE IF IsReg(res) THEN {<<Mov(res, At(address))>>}
     ELSE IF tmps = {} THEN {Fail}
     ELSE {Around(t, Through(address, Loc(t.c, ir.sz))) : t \in tmps}

TranslateStore ==
  LET address == Pointer(ir.a)
      value == Unnarrowed(ir.b)
      needed == IsWideImm(value) \/ IsMem(value)
  IN UNION {{v.before \o (a.before \o <<Mov(At(a.o), v.o)>> \o a.after) \o v.after :
               a \in InTmp(IsMem(address), address, FALSE, IF needed THEN {v.o.at} ELSE {})} :
            v \in InTmp(needed, value, FALSE, {})}

Jmp(to) == [op |-> "jmp", d |-> None, s |-> None, to |-> to]

TranslateJumpCond ==
  IF ir.a.k = "const" THEN {<<Jmp(ir.a.v = 1)>>}
  ELSE {<<I("test", Loc(ir.a.v, 8), Imm(3, 8)), I("jz", None, None), Jmp(TRUE)>>}

\* GetCallerSavedRegisters: what is live here, neither defined nor last used.
CallerSaved == {c \in ir.through : c < NumRegs /\ c \notin CalleeSaved}

\* The sequences that list a set once, and among them the ascending one.
Listings(S) == {q \in [1 .. Cardinality(S) -> S] : ToSet(q) = S}
Ascending(S) == {q \in Listings(S) : \A i, j \in DOMAIN q : i < j => q[i] < q[j]}

PushAll(q) == [i \in DOMAIN q |-> Push(q[i])]
PopAll(q) == [i \in DOMAIN q |-> Pop(q[i])]

Moves(ds, ss) == [op |-> "movs", d |-> ds, s |-> ss]
Callee == IF ir.a.k = "const" THEN Imm(ir.a.v, 64) ELSE Loc(ir.a.v, 64)
Call == [op |-> "call", d |-> None, s |-> Callee, n |-> Len(ir.args), sz |-> ir.sz]
ArgMoves ==
  Moves([i \in DOMAIN ir.args |-> Loc(ArgColors[i], ir.sz)], [i \in DOMAIN ir.args |-> Unnarrowed(ir.args[i])])
ResultMoves ==
  Moves([i \in DOMAIN ir.results |-> Loc(ir.results[i], ir.sz)],
        [i \in DOMAIN ir.results |-> Loc(ResultColors[i], ir.sz)])

TranslateCall ==
  {PushAll(q) \o <<ArgMoves, Call, ResultMoves>> \o PopAll(Reverse(q)) : q \in Ascending(CallerSaved)}

\* The results are moved one after the other.
ReturnMov(i) == Mov(Loc(ResultColors[i], ir.sz), Unnarrowed(ir.args[i]))
TranslateReturn ==
  {[i \in DOMAIN q |-> ReturnMov(q[i])] :
     q \in Ascending({i \in DOMAIN ir.args : ReturnMov(i).d # ReturnMov(i).s})}

\* Prologue, a body that changes every register used, and epilogue.  The
\* used callee-saved registers are visited in the order of a hash set, the
\* same in both; a slot of the frame lies where the registers are pushed.
FrameCode ==
  {<<Push(rbp), I("enter", None, None)>> \o PushAll(q)
   \o [i \in DOMAIN q |-> Mov(Loc(q[i], 64), Imm(15, 64))]
   \o (IF ir.results = <<>> THEN <<>> ELSE <<I("spill", Loc(ir.results[1], 64), None)>>)
   \o PopAll(q) \o <<Pop(rbp)>> : q \in Listings(ir.extra)}

TranslateInstr ==
  CASE ir.op = "mov" -> TranslateMov
    [] ir.op = "bool_not" -> TranslateBoolNot
    [] ir.op = "bool_eq" -> TranslateBoolCompare("eq")
    [] ir.op = "bool_neq" -> TranslateBoolCompare("neq")
    [] ir.op = "bool_and" -> TranslateBoolLogic("and")
    [] ir.op = "bool_or" -> TranslateBoolLogic("or")
    [] ir.op \in {"not", "neg"} -> TranslateIntUnary(ir.op)
    [] ir.op \in CompareOps -> TranslateIntCompare(ir.op)
    [] ir.op \in {"add", "and", "or", "xor"} -> TranslateIntCommutativeAL(ir.op)
    [] ir.op = "sub" -> TranslateIntSub
    [] ir.op = "mul" -> TranslateIntMul
    [] ir.op = "offset" -> TranslatePointerOffset
    [] ir.op = "niltest" -> TranslateNilTest
    [] ir.op = "load" -> TranslateLoad
    [] ir.op = "store" -> TranslateStore
    [] ir.op = "jumpcond" -> TranslateJumpCond
    [] ir.op = "call" -> TranslateCall
    [] ir.op = "return" -> TranslateReturn
    [] ir.op = "frame" -> FrameCode

-----------------------------------------------------------------------------
(* The machine.                                                            *)

\* What the constructors of the instructions accept.
SizesMatch(d, s) == d.sz = s.sz \/ (IsImm(s) /\ d.sz = 64 /\ s.sz = 32)
Constructible(i) ==
  CASE i.op = "mov" -> /\ SizesMatch(i.d, i.s)
                       /\ ~(IsMem(i.d) /\ (IsMem(i.s) \/ IsWideImm(i.s)))
    [] i.op \in {"and", "or", "xor", "add", "sub", "cmp", "test"} ->
         /\ SizesMatch(i.d, i.s) /\ ~IsWideImm(i.s) /\ ~(IsMem(i.d) /\ IsMem(i.s))
    [] i.op = "imul" -> IsReg(i.d) /\ i.d.sz = i.s.sz /\ i.d.sz # 8
    [] i.op = "imul3" -> i.d.sz = i.s.sz /\ i.d.sz # 8 /\ ~IsWideImm(i.imm)
    [] OTHER -> i.op # "fail"

\* Steps of the machine x.
Address(x, o) == IF IsImm(o.at) THEN Signed(o.at.at, o.at.sz) % 16 ELSE x.loc[o.at.at]

Read(x, o, sz) ==
  CASE IsImm(o) -> Low(Signed(o.at, o.sz), sz)
    [] o.k = "heap" -> Low(x.heap[Address(x, o)], sz)
    [] OTHER -> Low(x.loc[o.at], sz)

Write(x, o, v) ==
  IF o.k = "heap" THEN [x EXCEPT !.heap[Address(x, o)] = Low(v, o.sz)]
  ELSE [x EXCEPT !.loc[o.at] = Low(v, o.sz)]

BitwiseOf(op, v, w) ==
  LET Bit(x, i) == (x \div 2^i) % 2
      Of(x, y) == CASE op = "and" -> x * y
                    [] op = "or" -> IF x + y > 0 THEN 1 ELSE 0
                    [] op = "xor" -> (x + y) % 2
  IN Of(Bit(v, 0), Bit(w, 0)) + 2 * Of(Bit(v, 1), Bit(w, 1))
     + 4 * Of(Bit(v, 2), Bit(w, 2)) + 8 * Of(Bit(v, 3), Bit(w, 3))

Holds(cond, v, w, sz, signed) ==
  LET x == IF signed THEN Signed(v, sz) ELSE v
      y == IF signed THEN Signed(w, sz) ELSE w
  IN CASE cond = "eq" -> x = y [] cond = "neq" -> x # y
       [] cond = "lss" -> x < y [] cond = "leq" -> x <= y
       [] cond = "gtr" -> x > y [] cond = "geq" -> x >= y

Compute(op, v, w) ==
  CASE op = "add" -> v + w [] op = "sub" -> v - w [] op \in {"imul", "mul"} -> v * w
    [] op = "not" -> -1 - v [] op = "neg" -> -v
    [] OTHER -> BitwiseOf(op, v, w)

\* Called functions may change every caller-saved register.
AfterCall(x, i) ==
  [x EXCEPT !.called = <<Read(x, i.s, 64), [n \in 1 .. i.n |-> Read(x, Loc(ArgColors[n], i.sz), i.sz)]>>,
            !.loc = [c \in DOMAIN x.loc |->
                       LET ns == {n \in DOMAIN ResultColors : ResultColors[n] = c}
                       IN IF c >= NumRegs \/ c \in CalleeSaved THEN x.loc[c]
                          ELSE IF ns = {} THEN 0 ELSE Low(4 + 5 * Min(ns), i.sz)]]

AfterMoves(x, i) ==
  [x EXCEPT !.loc = [c \in DOMAIN x.loc |->
     LET ns == {n \in DOMAIN i.d : i.d[n].at = c}
     IN IF ns = {} THEN x.loc[c] ELSE Read(x, i.s[Min(ns)], i.d[Min(ns)].sz)]]

\* The stack is a sequence; the frame starts at the saved frame pointer.
AfterStackOp(x, i) ==
  CASE i.op = "push" -> [x EXCEPT !.stack = Append(@, x.loc[i.d.at])]
    [] i.op = "pop" -> [x EXCEPT !.loc[i.d.at] = x.stack[Len(x.stack)], !.stack = Front(@)]
    [] i.op = "enter" -> [x EXCEPT !.loc[rbp] = Len(x.stack)]
    [] i.op = "spill" -> LET slot == x.loc[rbp] + (i.d.at - NumRegs)
                         IN IF slot <= Len(x.stack) THEN [x EXCEPT !.stack[slot] = 15] ELSE x

After(x, i) ==
  CASE i.op = "mov" -> Write(x, i.d, Read(x, i.s, i.d.sz))
    [] i.op \in {"not", "neg"} -> Write(x, i.d, Compute(i.op, Read(x, i.d, i.d.sz), 0))
    [] i.op \in {"and", "or", "xor", "add", "sub", "imul"} ->
         Write(x, i.d, Compute(i.op, Read(x, i.d, i.d.sz), Read(x, i.s, i.d.sz)))
    [] i.op = "imul3" -> Write(x, i.d, Read(x, i.s, i.d.sz) * Read(x, i.imm, i.d.sz))
    [] i.op = "cmp" -> [x EXCEPT !.flags = <<Read(x, i.d, i.d.sz), Read(x, i.s, i.d.sz), i.d.sz>>]
    [] i.op = "setcc" ->
         Write(x, i.d, IF Holds(i.cond, x.flags[1], x.flags[2], x.flags[3], i.signed) THEN 1 ELSE 0)
    [] i.op = "test" -> [x EXCEPT !.flags = <<Read(x, i.d, 8), 0, 8>>]
    [] i.op = "jz" -> IF x.flags[1] = 0 /\ x.jump = "no" THEN [x EXCEPT !.jump = "false"] ELSE x
    [] i.op = "jmp" -> IF x.jump = "no" THEN [x EXCEPT !.jump = IF i.to THEN "true" ELSE "false"] ELSE x
    [] i.op = "movs" -> AfterMoves(x, i)
    [] i.op = "call" -> AfterCall(x, i)
    [] OTHER -> AfterStackOp(x, i)

-----------------------------------------------------------------------------
\* Every location holds something; the operands hold their values.
InitialLoc ==
  [c \in 0 .. NumColors |->
     IF ir.a.k = "val" /\ ir.a.v = c THEN ir.va
     ELSE IF ir.b.k = "val" /\ ir.b.v = c THEN ir.vb
     ELSE (c + 8) % 16]

InitialMachine ==
  [loc |-> InitialLoc, heap |-> [x \in 0 .. 15 |-> (x + 7) % 16], stack |-> <<>>,
   flags |-> <<>>, jump |-> "no", called |-> <<>>]

Init ==
  /\ ir \in Cases
  /\ stage = "translate" /\ code = <<>>
  /\ m = InitialMachine

Translate ==
  /\ stage = "translate"
  /\ code' \in TranslateInstr
  /\ stage' = "run"
  /\ UNCHANGED <<ir, m>>

Execute ==
  /\ stage = "run" /\ code # <<>>
  /\ IF Constructible(Head(code)) /\ Head(code).op # "undefined"
       THEN m' = After(m, Head(code)) /\ code' = Tail(code) /\ UNCHANGED stage
       ELSE stage' = Head(code).op /\ UNCHANGED <<m, code>>
  /\ UNCHANGED ir

Next == Translate \/ Execute
Spec == Init /\ [][Next]_vars

-----------------------------------------------------------------------------
(* What the IR instruction means.                                          *)

IRBool ==
  CASE ir.op = "bool_not" -> ir.va = 0
    [] ir.op = "bool_eq" -> ir.va = ir.vb [] ir.op = "bool_neq" -> ir.va # ir.vb
    [] ir.op = "bool_and" -> ir.va = 1 /\ ir.vb = 1 [] ir.op = "bool_or" -> ir.va = 1 \/ ir.vb = 1
    [] ir.op = "niltest" -> ir.va = 0
    [] OTHER -> Holds(ir.op, ir.va, ir.vb, ir.sz, ir.signed)

BoolOps == {"bool_not", "bool_eq", "bool_neq", "bool_and", "bool_or", "niltest"} \cup CompareOps

IRValue ==
  CASE ir.op \in BoolOps -> IF IRBool THEN 1 ELSE 0
    [] ir.op = "mov" -> ir.va
    [] ir.op = "load" -> Low((ir.va + 7) % 16, ir.sz)
    [] ir.op = "offset" -> Low(ir.va + ir.vb, 64)
    [] OTHER -> Low(Compute(ir.op, ir.va, ir.vb), ir.sz)

ResultSize == IF ir.op \in BoolOps THEN 8 ELSE IF ir.op = "offset" THEN 64 ELSE ir.sz

ValueOf(o) == IF o.k = "const" THEN Low(o.v, ir.sz) ELSE Low(InitialLoc[o.v], ir.sz)
ArgValues == [i \in DOMAIN ir.args |-> ValueOf(ir.args[i])]

\* The effect the instruction is for.
Effect(x) ==
  CASE ir.op = "store" ->
         x.heap = [y \in 0 .. 15 |-> IF y = ir.va THEN Low(ir.vb, ir.sz) ELSE (y + 7) % 16]
    [] ir.op = "jumpcond" -> x.jump = IF ir.va = 1 THEN "true" ELSE "false"
    [] ir.op = "call" ->
         /\ x.called = <<ir.va, ArgValues>>
         /\ \A i \in DOMAIN ir.results : Low(x.loc[ir.results[i]], ir.sz) = Low(4 + 5 * i, ir.sz)
    [] ir.op = "return" ->
         \A i \in DOMAIN ir.args : Low(x.loc[ResultColors[i]], ir.sz) = ArgValues[i]
    [] ir.op = "frame" -> \A c \in ir.extra \cup {rbp} : x.loc[c] = InitialLoc[c]
    [] OTHER -> Low(x.loc[ir.results[1]], ResultSize) = IRValue

Right(x) == Effect(x) /\ x.stack = <<>> /\ \A c \in ir.through : x.loc[c] = InitialLoc[c]

-----------------------------------------------------------------------------
(* Instructions the code is known to translate wrongly; see the README.    *)

InMem(c) == c >= NumRegs
IsVal(o, c) == o.k = "val" /\ o.v = c
OperandInMem(o) == o.k = "val" /\ InMem(o.v)
Res == ir.results[1]

\* The bitwise complement of 1 is not 0.
NotIsBitwise == ir.op = "bool_not"

\* The operand is complemented or negated, not the result.
UnaryOnOperand == ir.op \in {"not", "neg"} /\ ~IsVal(ir.a, Res)

\* No 8-bit imul; a result in the frame without a temporary; the second
\* factor moved over the first.
MulDefect ==
  /\ ir.op = "mul"
  /\ LET swap == ir.a.k = "const"
         x == IF swap THEN ir.b ELSE ir.a
         y == IF swap THEN ir.a ELSE ir.b
     IN \/ ir.sz = 8
        \/ InMem(Res) /\ ~IsWideImm(Narrowed(y)) /\ ~(OperandInMem(x) /\ OperandInMem(y))
        \/ IsVal(x, Res) /\ ~IsVal(y, Res) /\ (y.k = "val" \/ IsWideImm(Narrowed(y)))

\* The test for two memory operands looks at the wrong operand.
TwoMemOperands ==
  /\ ir.op \in {"bool_and", "bool_or", "offset"} /\ InMem(Res) /\ ~IsVal(ir.b, Res)
  /\ IF ir.op = "offset" /\ OperandInMem(ir.a) THEN IsImm(Narrowed(ir.b)) /\ ~IsWideImm(Narrowed(ir.b))
     ELSE OperandInMem(ir.b) /\ ~OperandInMem(ir.a)

\* A temporary of the size of the constant or the address, not of the value.
TmpOfOtherSize ==
  \/ ir.op = "sub" /\ IsVal(ir.b, Res) /\ IsImm(Narrowed(ir.a)) /\ Narrowed(ir.a).sz # ir.sz
  \/ ir.op = "load" /\ InMem(Res) /\ OperandInMem(ir.a) /\ ir.sz # 64

\* Every register is live: the one to save and use holds an operand that is
\* read later.
SavedTmp(canUseResult) == {t.c : t \in {t \in Prepare(canUseResult, {}) : t.saved}}
IsIn(o, colors) == o.k = "val" /\ o.v \in colors
TmpHoldsOperand ==
  \/ /\ ir.op \in CompareOps \cup {"mul"}
     /\ \E x, y \in {ir.a, ir.b} : IsIn(x, SavedTmp(TRUE)) /\ IsWideImm(Narrowed(y))
  \/ /\ ir.op = "store"
     /\ \/ IsIn(ir.a, SavedTmp(FALSE)) /\ (OperandInMem(ir.b) \/ IsWideImm(Unnarrowed(ir.b)))
        \/ IsIn(ir.b, SavedTmp(FALSE)) /\ OperandInMem(ir.a)

\* A constant that fits into an unsigned 32-bit type is sign-extended.
NarrowedUnsigned ==
  ir.op \in {"mov"} \cup CompareOps \cup IntBinaryOps \cup {"offset"}
  /\ \E o \in {ir.a, ir.b} : o.k = "const" /\ ir.sz = 64 /\ ~ir.signed /\ o.v \in {2, 3}

\* The callee's register is an argument's; a result's register holds the next.
Overwritten ==
  \/ ir.op = "call" /\ \E i \in DOMAIN ir.args : IsVal(ir.a, ArgColors[i]) /\ ir.args[i] # ir.a
  \/ /\ ir.op = "return"
     /\ \E i, j \in DOMAIN ir.args :
          i < j /\ IsVal(ir.args[j], ResultColors[i]) /\ ir.args[i] # ir.args[j]

\* A constant address that is no 32-bit displacement.
TruncatedAddress ==
  ir.op \in {"load", "store"} /\ ir.a.k = "const" /\ ~CanConvertTo32(ir.a.v, TRUE)

\* Registers are popped in the order they were pushed in; no space is
\* reserved for the slots of the frame.
FrameDefect ==
  /\ ir.op = "frame"
  /\ Cardinality(ir.extra) > 1 \/ \E i \in DOMAIN ir.results : ir.results[i] - NumRegs <= Cardinality(ir.extra)

KnownDefect ==
  \/ NotIsBitwise \/ UnaryOnOperand \/ MulDefect \/ TwoMemOperands \/ TmpOfOtherSize
  \/ TmpHoldsOperand \/ NarrowedUnsigned \/ Overwritten \/ TruncatedAddress \/ FrameDefect

\* Wherever the register allocator put the operands, whatever stays live and
\* whichever temporary is taken, the code computes what the IR instruction
\* computes and leaves the values that live on and the stack alone, but for
\* the instructions named above.
TranslatedRight ==
  stage \notin {"translate", "run"} \/ (stage = "run" /\ code = <<>>) =>
    (stage = "run" /\ Right(m)) \/ KnownDefect
=============================================================================
