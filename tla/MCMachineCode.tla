---------------------------- MODULE MCMachineCode ----------------------------
(***************************************************************************)
(* Small programs for MachineCode: every instruction class by itself with  *)
(* operands at the corners of the encoding (accumulator, stack and base    *)
(* pointer, r8 to r15, displacements of no, one and four bytes,            *)
(* immediates of either sign), and programs with jumps and calls.          *)
(***************************************************************************)
EXTENDS MachineCode

I(name, a, b, c) == [name |-> name, a |-> a, b |-> b, c |-> c]
Cond(name, cond, a) == [name |-> name, a |-> a, b |-> None, c |-> None, cond |-> cond]
SizedInstr(name, size) == [name |-> name, a |-> None, b |-> None, c |-> None, size |-> size]

MCSizes == {1, 2, 4, 8}
MCRegs(size) == {Reg(size, r) : r \in {0, 4, 5, 8, 13}}
MCMems(size) ==
    {Mem(size, b, NoReg, 0, d) : b \in {NoReg, 0, 4, 5, 12, 13}, d \in {0, 127, -128, 128, -129}}
    \cup {Mem(size, b, x, 3, d) : b \in {NoReg, 3, 5, 13}, x \in {0, 5, 9, 12}, d \in {0, -1, 70000}}
SomeMems(size) == {Mem(size, 5, NoReg, 0, -8), Mem(size, 9, 12, 3, 1000)}
Imms == {Imm(<<1>>), Imm(<<255>>), Imm(<<0, 128>>), Imm(<<1, 0, 0, 0>>), Imm(<<254, 255, 255, 255>>),
         Imm(<<1, 2, 3, 4, 5, 6, 7, 128>>)}

\* Operands of any two kinds, not all of them constructible.
Pairs == UNION {(MCRegs(s) \cup SomeMems(s)) \X (MCRegs(s) \cup SomeMems(s) \cup Imms) : s \in MCSizes}
BinaryPairs == {p \in Pairs : BinaryConstructible(p[1], p[2])}
BinaryInstrs ==
    {I("add", p[1], p[2], None) : p \in ({Reg(1, 4)} \X MCMems(1)) \cup ({Reg(8, 9)} \X MCMems(8))}
    \cup {I(n, p[1], p[2], None) : n \in {"add", "cmp"}, p \in BinaryPairs}
    \cup {I(n, p[1], p[2], None) : n \in BinaryNames, p \in {q \in BinaryPairs : q[1].size \in {1, 8}
                                                                /\ (IsReg(q[1]) => q[1].reg \in {0, 13})}}
TestInstrs == {I("test", p[1], p[2], None) :
                  p \in {q \in Pairs : TestConstructible(q[1], q[2])}}
MovInstrs == {I("mov", p[1], p[2], None) :
                  p \in {q \in Pairs : MovConstructible(q[1], q[2])}}
    \cup {I("mov", a, FuncRef(0), None) : a \in MCRegs(8) \cup SomeMems(8)}
XchgInstrs == {I("xchg", p[1], p[2], None) :
                  p \in {q \in Pairs : IsReg(q[2]) /\ q[1].size = q[2].size}}
ImulInstrs ==
    LET all == {I("imul", p[1], p[2], c) : p \in {q \in Pairs : IsReg(q[1])},
                                         c \in Imms \cup {None}}
    IN {i \in all : ImulConstructible(i)}
UnaryInstrs == {I(n, a, None, None) : n \in UnaryNames, a \in UNION {MCRegs(s) \cup SomeMems(s) : s \in MCSizes}}
StackInstrs ==
    {I(n, a, None, None) : n \in {"push", "pop"}, a \in UNION {MCRegs(s) \cup SomeMems(s) : s \in {2, 8}}}
    \cup {I("push", a, None, None) : a \in {x \in Imms : x.size # 8}}
OtherInstrs ==
    {SizedInstr(n, s) : n \in {"sign_extend_a", "sign_extend_ad"}, s \in {2, 4, 8}}
    \cup {Cond("setcc", c, a) : c \in 0..15, a \in MCRegs(1) \cup SomeMems(1)}
    \cup {I(n, a, None, None) : n \in {"jmp", "call"}, a \in MCRegs(8) \cup SomeMems(8)}
    \cup {I(n, None, None, None) : n \in {"syscall", "ret"}}
AllInstrs == BinaryInstrs \cup TestInstrs \cup MovInstrs \cup XchgInstrs \cup ImulInstrs \cup UnaryInstrs
             \cup StackInstrs \cup OtherInstrs

Ret == I("ret", None, None, None)
Jmp(n) == I("jmp", BlockRef(n), None, None)
Call(n) == I("call", FuncRef(n), None, None)
Jcc(n) == Cond("jcc", 4, BlockRef(n))
Push == I("push", Reg(8, 12), None, None)
Neg == I("neg", Reg(8, 12), None, None)

Single(i) == [declared |-> <<1000>>, funcs |-> <<<<<<i>>>>>>]
\* Every program of two functions of two blocks out of these.
Blocks == {<<>>, <<Jcc(3), Jmp(0)>>, <<Push, Call(2), Call(0)>>, <<Jmp(1), Neg>>, <<Ret>>}
Layouts == {[declared |-> <<1000, -70000>>, funcs |-> <<<<b1, b2>>, <<b3, b4>>>>] :
               b1 \in Blocks, b2 \in Blocks, b3 \in Blocks, b4 \in Blocks}

MCInstrs == AllInstrs \cup UNION {ToSet(b) : b \in Blocks}
MCPrograms == {Single(i) : i \in AllInstrs} \cup Layouts
=============================================================================
