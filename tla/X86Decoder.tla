----------------------------- MODULE X86Decoder -----------------------------
(***************************************************************************)
(* How the processor reads machine code in 64-bit mode, for the opcodes    *)
(* that src/x86_64/instrs emits. This is the environment of the encoder,   *)
(* not a part of the repository: it is what an encoded instruction has to  *)
(* be read back as. Sizes are in bytes, code is a sequence of bytes, and   *)
(* an immediate is the little-endian sequence of its bytes, extended to    *)
(* the size of the operand it meets.                                       *)
(***************************************************************************)
EXTENDS Integers, Sequences

NoReg == 255                       \* 0xff in Mem: no base, no index
Reg(size, reg) == [kind |-> "reg", size |-> size, reg |-> reg]
Mem(size, base, index, scale, disp) ==
    [kind |-> "mem", size |-> size, base |-> base, index |-> index, scale |-> scale, disp |-> disp]
Value(bytes) == [kind |-> "imm", size |-> Len(bytes), bytes |-> bytes]
Target(at) == [kind |-> "target", at |-> at]

Byte(code, at) == IF at \in DOMAIN code THEN code[at] ELSE 0
Bytes(code, at, n) == [k \in 1..n |-> Byte(code, at + k - 1)]

\* The two's complement value of one or of four bytes.
Signed8(b) == IF b < 128 THEN b ELSE b - 256
Signed32(bs) == bs[1] + 256 * bs[2] + 65536 * bs[3] + 16777216 * Signed8(bs[4])

SignExtended(bytes, size) ==
    [k \in 1..size |-> IF k <= Len(bytes) THEN bytes[k]
                       ELSE IF bytes[Len(bytes)] < 128 THEN 0 ELSE 255]

\* Prefixes in front of the opcode at position at.
ReadPrefixes(code, at) ==
    LET narrow == Byte(code, at) = \h66
        rexAt == IF narrow THEN at + 1 ELSE at
        rex == Byte(code, rexAt)
        hasRex == rex \div 16 = 4
        bit(n) == IF hasRex /\ (rex \div n) % 2 = 1 THEN 1 ELSE 0
    IN [size |-> IF bit(8) = 1 THEN 8 ELSE IF narrow THEN 2 ELSE 4,
        rex |-> IF hasRex THEN 1 ELSE 0, r |-> 8 * bit(4), x |-> 8 * bit(2), b |-> 8 * bit(1),
        opcodeAt |-> IF hasRex THEN rexAt + 1 ELSE rexAt]

\* Without a REX prefix the byte registers 4 to 7 are ah, ch, dh and bh.
RegOf(p, size, n) == Reg(size, IF size = 1 /\ p.rex = 0 /\ n \in 4..7 THEN n + 12 ELSE n)

\* The fields of a ModRM or SIB byte.
High(b) == b \div 64
Middle(b) == (b \div 8) % 8
Low(b) == b % 8

\* The ModRM byte at position at with its SIB byte and displacement: the reg
\* field, the register or memory operand, and the position after them.
ModRM(code, p, at, size) ==
    LET modrm == Byte(code, at)
        mod == High(modrm)
        field == Middle(modrm)
        rm == Low(modrm)
        sib == Byte(code, at + 1)
        hasSib == mod # 3 /\ rm = 4
        dispAt == IF hasSib THEN at + 2 ELSE at + 1
        noBase == hasSib /\ Low(sib) = 5 /\ mod = 0
        dispSize == IF mod = 1 THEN 1 ELSE IF mod = 2 \/ noBase THEN 4 ELSE 0
        disp == CASE dispSize = 0 -> 0
                  [] dispSize = 1 -> Signed8(Byte(code, dispAt))
                  [] OTHER -> Signed32(Bytes(code, dispAt, 4))
        index == Middle(sib) + p.x
        base == IF noBase THEN NoReg ELSE (IF hasSib THEN Low(sib) ELSE rm) + p.b
        hasIndex == hasSib /\ index # 4
    IN [field |-> field, reg |-> RegOf(p, size, field + p.r), next |-> dispAt + dispSize,
        rm |-> IF mod = 3 THEN RegOf(p, size, rm + p.b)
               ELSE IF mod = 0 /\ rm = 5 THEN [kind |-> "rip relative"]
               ELSE Mem(size, base, IF hasIndex THEN index ELSE NoReg,
                        IF hasIndex THEN High(sib) ELSE 0, disp)]

ALNames == <<"add", "or", "adc", "sbb", "and", "sub", "xor", "cmp">>
Group3Names == <<"test", "bad", "not", "neg", "mul", "imul", "div", "idiv">>
Read(op, args, next) == [op |-> op, args |-> args, next |-> next]
Illegal(at) == Read("bad", <<>>, at + 1)

\* Opcodes 0x0f xx.
DecodeTwoByte(code, p, at) ==
    LET o == Byte(code, at)
        wide == ModRM(code, p, at + 1, p.size)
        narrow == ModRM(code, p, at + 1, 1)
        rel == Target(at + 5 + Signed32(Bytes(code, at + 1, 4)))
    IN CASE o = \h05 -> Read("syscall", <<>>, at + 1)
         [] o = \haf -> Read("imul", <<wide.reg, wide.rm>>, wide.next)
         [] o \in \h80..\h8f -> Read("jcc", <<o % 16, rel>>, at + 5)
         [] o \in \h90..\h9f -> Read("setcc", <<o % 16, narrow.rm>>, narrow.next)
         [] OTHER -> Illegal(at)

\* The size of an operand by the lowest bit of the opcode, that of its full
\* immediate, and an immediate of n bytes at position at.
SizeOf(p, o) == IF o % 2 = 0 THEN 1 ELSE p.size
Full(size) == IF size = 8 THEN 4 ELSE size
ImmAt(code, at, n, size) == Value(SignExtended(Bytes(code, at, n), size))
StackOf(p) == IF p.size = 2 THEN 2 ELSE 8

\* Opcodes below 0x40: eight operations in three forms each.
DecodeArithmetic(code, p, q, o) ==
    LET size == SizeOf(p, o)
        m == ModRM(code, p, q + 1, size)
        name == ALNames[o \div 8 + 1]
    IN CASE o % 8 \in {0, 1} -> Read(name, <<m.rm, m.reg>>, m.next)
         [] o % 8 \in {2, 3} -> Read(name, <<m.reg, m.rm>>, m.next)
         [] o % 8 \in {4, 5} ->
                Read(name, <<RegOf(p, size, 0), ImmAt(code, q + 1, Full(size), size)>>, q + 1 + Full(size))
         [] OTHER -> Illegal(q)

\* Opcodes with a register in their three low bits.
ShortForms == {\h50 \div 8, \h58 \div 8, \h90 \div 8, \hb0 \div 8, \hb8 \div 8}
DecodeShort(code, p, q, o) ==
    LET low == (o % 8) + p.b
        size == IF o < \hb8 THEN 1 ELSE p.size
    IN CASE o \div 8 = \h50 \div 8 -> Read("push", <<Reg(StackOf(p), low)>>, q + 1)
         [] o \div 8 = \h58 \div 8 -> Read("pop", <<Reg(StackOf(p), low)>>, q + 1)
         [] o \div 8 = \h90 \div 8 /\ low = 0 -> Read("nop", <<>>, q + 1)
         [] o \div 8 = \h90 \div 8 /\ low # 0 ->
                Read("xchg", <<Reg(p.size, low), Reg(p.size, 0)>>, q + 1)
         [] o \div 8 \in {\hb0 \div 8, \hb8 \div 8} ->
                Read("mov", <<RegOf(p, size, low), Value(Bytes(code, q + 1, size))>>, q + 1 + size)

\* The other opcodes of one byte.
DecodeOneByte(code, p, q, o) ==
    LET size == IF o \in {\h69, \h6b, \h83} THEN p.size ELSE SizeOf(p, o)
        m == ModRM(code, p, q + 1, size)
        full == Full(size)
        stack == StackOf(p)
        ms == ModRM(code, p, q + 1, stack)
        rel == Target(q + 5 + Signed32(Bytes(code, q + 1, 4)))
    IN CASE o \in {\h80, \h81} ->
                Read(ALNames[m.field + 1], <<m.rm, ImmAt(code, m.next, full, size)>>, m.next + full)
         [] o = \h83 -> Read(ALNames[m.field + 1], <<m.rm, ImmAt(code, m.next, 1, size)>>, m.next + 1)
         [] o \in {\hf6, \hf7} /\ m.field = 0 ->
                Read("test", <<m.rm, ImmAt(code, m.next, full, size)>>, m.next + full)
         [] o \in {\hf6, \hf7} /\ m.field # 0 -> Read(Group3Names[m.field + 1], <<m.rm>>, m.next)
         [] o = \h69 -> Read("imul", <<m.reg, m.rm, ImmAt(code, m.next, full, size)>>, m.next + full)
         [] o = \h6b -> Read("imul", <<m.reg, m.rm, ImmAt(code, m.next, 1, size)>>, m.next + 1)
         [] o \in {\ha8, \ha9} ->
                Read("test", <<RegOf(p, size, 0), ImmAt(code, q + 1, full, size)>>, q + 1 + full)
         [] o \in {\h84, \h85} -> Read("test", <<m.rm, m.reg>>, m.next)
         [] o = \h98 -> Read("sign_extend_a", <<p.size>>, q + 1)
         [] o = \h99 -> Read("sign_extend_ad", <<p.size>>, q + 1)
         [] o \in {\h88, \h89} -> Read("mov", <<m.rm, m.reg>>, m.next)
         [] o \in {\h8a, \h8b} -> Read("mov", <<m.reg, m.rm>>, m.next)
         [] o \in {\hc6, \hc7} -> Read("mov", <<m.rm, ImmAt(code, m.next, full, size)>>, m.next + full)
         [] o \in {\h86, \h87} -> Read("xchg", <<m.rm, m.reg>>, m.next)
         [] o = \h8f /\ ms.field = 0 -> Read("pop", <<ms.rm>>, ms.next)
         [] o = \h6a -> Read("push", <<ImmAt(code, q + 1, 1, stack)>>, q + 2)
         [] o = \h68 -> Read("push", <<ImmAt(code, q + 1, Full(stack), stack)>>, q + 1 + Full(stack))
         [] o = \hff /\ ms.field = 6 -> Read("push", <<ms.rm>>, ms.next)
         [] o = \hff /\ ms.field = 4 -> Read("jmp", <<ms.rm>>, ms.next)
         [] o = \hff /\ ms.field = 2 -> Read("call", <<ms.rm>>, ms.next)
         [] o = \he9 -> Read("jmp", <<rel>>, q + 5)
         [] o = \he8 -> Read("call", <<rel>>, q + 5)
         [] o = \hc3 -> Read("ret", <<>>, q + 1)
         [] OTHER -> Illegal(q)

\* The instruction at position at.
Decode(code, at) ==
    LET p == ReadPrefixes(code, at)
        q == p.opcodeAt
        o == Byte(code, q)
    IN IF o = \h0f THEN DecodeTwoByte(code, p, q + 1)
       ELSE IF o < \h40 THEN DecodeArithmetic(code, p, q, o)
       ELSE IF o \div 8 \in ShortForms THEN DecodeShort(code, p, q, o)
       ELSE DecodeOneByte(code, p, q, o)
=============================================================================
