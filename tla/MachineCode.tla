----------------------------- MODULE MachineCode -----------------------------
(***************************************************************************)
(* From x86_64 instructions to linked machine code: the operands and the   *)
(* encoder of src/x86_64 (ops.cc, instrs/), the layout of programs,        *)
(* functions and blocks (program.cc, func.cc, block.cc) and the linker     *)
(* (machine_code/linker.cc). Sizes are in bytes, an immediate is the       *)
(* little-endian sequence of its bytes, memory starts at position 1 and a  *)
(* declared function lives at a position outside of it.                    *)
(***************************************************************************)
EXTENDS X86Decoder, SequencesExt

CONSTANTS Capacity,      \* bytes of memory for the code
          Instrs,        \* the instructions of the programs
          Programs       \* [declared |-> sequence of positions, funcs |-> sequence of functions],
                         \* a function being a sequence of blocks, a block one of instructions

VARIABLES program, code, todo, funcAddrs, blockAddrs, patches, starts, stage
vars == <<program, code, todo, funcAddrs, blockAddrs, patches, starts, stage>>

\* ---------------------------------------------------------------- operands

Imm(bytes) == Value(bytes)
FuncRef(n) == [kind |-> "func", size |-> 8, num |-> n]
BlockRef(n) == [kind |-> "block", num |-> n]
None == [kind |-> "none"]
IsReg(o) == o.kind = "reg"
IsMem(o) == o.kind = "mem"
IsRM(o) == IsReg(o) \/ IsMem(o)
IsImm(o) == o.kind = "imm"

\* What the constructors of the operands accept; without an index there is no scale.
Sizes == {1, 2, 4, 8}
Int32 == {n \in Int : n >= -2147483647 - 1 /\ n <= 2147483647}
IsOperand(o) ==
    \/ /\ IsReg(o) /\ o = Reg(o.size, o.reg)
       /\ o.size \in Sizes /\ o.reg \in 0..15
    \/ /\ IsMem(o) /\ o = Mem(o.size, o.base, o.index, o.scale, o.disp)
       /\ o.size \in Sizes /\ o.disp \in Int32 /\ o.base \in 0..15 \cup {NoReg}
       /\ \/ o.index \in 0..15 \ {4} /\ o.scale \in 0..3
          \/ o.index = NoReg /\ o.scale = 0
    \/ /\ IsImm(o) /\ o = Value(o.bytes)
       /\ o.bytes \in Seq(0..255) /\ o.size \in Sizes

\* May be negative in two's complement: the last byte holds the sign.
Negative(o) == o.bytes[o.size] >= 128

RegRequiresREX(o) == IF o.size = 1 THEN o.reg >= 4 ELSE o.reg >= 8
Extended(r) == r # NoReg /\ r >= 8
MemRequiresREX(o) == Extended(o.base) \/ Extended(o.index)
RequiresREX(o) == \/ IsReg(o) /\ RegRequiresREX(o)
                  \/ IsMem(o) /\ MemRequiresREX(o)
                  \/ IsImm(o) /\ o.size = 8

\* Mutation: rsp as a base needs a SIB byte, r12 is forgotten.
RequiresSIBForStackPointerOnly(o) == IsMem(o) /\ (o.base = NoReg \/ o.index # NoReg \/ o.base = 4)

RequiresSIB(o) == IsMem(o) /\ (o.base = NoReg \/ o.index # NoReg \/ o.base \in {4, 12})
RequiredDispSize(o) ==
    IF ~IsMem(o) THEN 0
    ELSE IF o.base = NoReg THEN 4
    ELSE IF o.disp = 0 /\ o.base \notin {5, 13} THEN 0
    ELSE IF o.disp \in -128..127 THEN 1 ELSE 4

\* The n low bytes of a number, least significant first.
LowBytes(v, n) == [k \in 1..n |-> (v \div 256^(k - 1)) % 256]

\* ModRM and SIB bytes: fields of two, three and three bits.
Fields(high, mid, low) == 64 * high + 8 * mid + low

\* Mod and R/M of a register or memory operand, its SIB byte and displacement.
EncodeRM(o) ==
    LET mod == IF IsReg(o) THEN 3
               ELSE IF o.base = NoReg \/ RequiredDispSize(o) = 0 THEN 0
               ELSE IF RequiredDispSize(o) = 1 THEN 1 ELSE 2
        rm == IF IsReg(o) THEN o.reg % 8 ELSE IF RequiresSIB(o) THEN 4 ELSE o.base % 8
        index == IF o.index = NoReg THEN 4 ELSE o.index % 8
        base == IF o.base = NoReg THEN 5 ELSE o.base % 8
        scale == IF o.index = NoReg THEN 0 ELSE o.scale
    IN [mod |-> mod, rm |-> rm,
        sib |-> IF RequiresSIB(o) THEN <<Fields(scale, index, base)>> ELSE <<>>,
        disp |-> IF IsMem(o) THEN LowBytes(o.disp, RequiredDispSize(o)) ELSE <<>>,
        x |-> IF IsMem(o) /\ Extended(o.index) THEN 1 ELSE 0,
        b |-> IF Extended(IF IsReg(o) THEN o.reg ELSE o.base) THEN 1 ELSE 0]

\* ---------------------------------------------------------------- encoder

\* What an Encode() asks of the InstrEncoder: the operand size (0: none is
\* set), the operands asked whether they need REX, the opcode, a register in
\* its low bits, the reg field of ModRM (a register, an extension or nothing),
\* the register or memory operand, the immediate.
Form(size, rex, opcode, inOpcode, field, rm, imm) ==
    [size |-> size, rex |-> rex, opcode |-> opcode, inOpcode |-> inOpcode,
     field |-> field, rm |-> rm, imm |-> imm]
Ext(n) == [kind |-> "ext", n |-> n]

EncodeREX(f) ==
    LET w == IF f.size = 8 THEN 1 ELSE 0
        r == IF IsReg(f.field) /\ f.field.reg >= 8 THEN 1 ELSE 0
        x == IF f.rm # None THEN EncodeRM(f.rm).x ELSE 0
        b == IF f.rm # None THEN EncodeRM(f.rm).b
             ELSE IF f.inOpcode # None /\ f.inOpcode.reg >= 8 THEN 1 ELSE 0
    IN IF f.size = 8 \/ \E o \in f.rex : RequiresREX(o) 
       THEN <<\h40 + 8 * w + 4 * r + 2 * x + b>> ELSE <<>>

EncodeOperandSize(f) == IF f.size = 2 THEN <<\h66>> ELSE <<>>

\* InstrEncoder: prefixes, opcode, ModRM, SIB, displacement, immediate.
Assemble(f) ==
    LET opcode == IF f.inOpcode = None THEN f.opcode
                  ELSE <<f.opcode[1] + (f.inOpcode.reg % 8)>>
        field == IF IsReg(f.field) THEN f.field.reg % 8 ELSE IF f.field = None THEN 0 ELSE f.field.n
        rm == EncodeRM(f.rm)
        modrm == IF f.rm = None THEN <<>>
                 ELSE <<Fields(rm.mod, field, rm.rm)>> \o rm.sib \o rm.disp
    IN EncodeOperandSize(f) \o EncodeREX(f) \o opcode \o modrm
         \o (IF f.imm = None THEN <<>> ELSE f.imm.bytes)

\* ---------------------------------------------- arithmetic and logic instructions

\* The opcode of the form "r/m8, r8" of each class and its OpcodeExt().
ALBase == [add |-> \h00, or |-> \h08, adc |-> \h10, sbb |-> \h18,
           and |-> \h20, sub |-> \h28, xor |-> \h30, cmp |-> \h38]
ALExt == [add |-> 0, or |-> 1, adc |-> 2, sbb |-> 3, and |-> 4, sub |-> 5, xor |-> 6, cmp |-> 7]
BinaryNames == DOMAIN ALBase
UnaryExt == [not |-> 2, neg |-> 3, mul |-> 4, imul |-> 5, div |-> 6, idiv |-> 7]
UnaryNames == DOMAIN UnaryExt

\* A wide opcode is the byte opcode + 1.
Wide(opcode, o) == <<IF o.size = 1 THEN opcode ELSE opcode + 1>>
FullImm(a, b) == a.size = b.size \/ (a.size = 8 /\ b.size = 4)

OpEncoding(a, b) ==
    IF IsImm(b) THEN (IF FullImm(a, b) THEN "RM_IMM" ELSE "RM_IMM8")
    ELSE IF IsReg(a) THEN "REG_RM" ELSE "RM_REG"

BinaryConstructible(a, b) ==
    IF IsImm(b) THEN b.size # 8 /\ (FullImm(a, b) \/ b.size = 1)
    ELSE a.size = b.size /\ IsRM(b) /\ (IsReg(a) \/ IsReg(b))

\* The short form with the accumulator and a full immediate.
UsesRegA(a, b) == OpEncoding(a, b) = "RM_IMM" /\ IsReg(a) /\ a.reg = 0

EncodeUnary(i) == Form(i.a.size, {i.a}, Wide(\hf6, i.a), None, Ext(UnaryExt[i.name]), i.a, None)

EncodeBinary(i) ==
    LET a == i.a
        b == i.b
        base == ALBase[i.name]
        form(opcode, field, rm, imm) == Form(a.size, {a, b}, opcode, None, field, rm, imm)
    IN CASE UsesRegA(a, b) -> form(Wide(base + 4, a), None, None, b)
         [] OpEncoding(a, b) = "RM_IMM" /\ ~UsesRegA(a, b) ->
                form(Wide(\h80, a), Ext(ALExt[i.name]), a, b)
         [] OpEncoding(a, b) = "RM_IMM8" -> form(<<\h83>>, Ext(ALExt[i.name]), a, b)
         [] OpEncoding(a, b) = "RM_REG" -> form(Wide(base, a), b, a, None)
         [] OpEncoding(a, b) = "REG_RM" -> form(Wide(base + 2, a), a, b, None)

\* Multiplying by one "needs no immediate".
IsOne(o) == o.bytes[1] = 1 /\ \A k \in 2..o.size : o.bytes[k] = 0
CanSkipImm(i) == i.c = None \/ IsOne(i.c)
ImulConstructible(i) ==
    /\ i.a.size = i.b.size /\ i.a.size # 1 /\ IsReg(i.a) /\ IsRM(i.b)
    /\ i.c # None => i.c.size # 8 /\ (FullImm(i.a, i.c) \/ i.c.size = 1)

EncodeImul(i) ==
    LET opcode == IF CanSkipImm(i) THEN <<\h0f, \haf>>
                  ELSE IF FullImm(i.a, i.c) THEN <<\h69>> ELSE <<\h6b>>
    IN Form(i.b.size, {i.a, i.b} \cup (IF CanSkipImm(i) THEN {} ELSE {i.c}),
            opcode, None, i.a, i.b, IF CanSkipImm(i) THEN None ELSE i.c)

EncodeSignExtend(i) ==
    Form(i.size, {}, IF i.name = "sign_extend_a" THEN <<\h98>> ELSE <<\h99>>,
         None, None, None, None)

TestConstructible(a, b) ==
    /\ IsRM(a) /\ (IsImm(b) \/ IsReg(b))
    /\ IF IsImm(b) THEN b.size # 8 /\ FullImm(a, b) ELSE a.size = b.size
EncodeTest(i) ==
    LET form(opcode, field, rm, imm) == Form(i.a.size, {i.a, i.b}, opcode, None, field, rm, imm)
    IN IF ~IsImm(i.b) THEN form(Wide(\h84, i.a), i.b, i.a, None)
       ELSE IF UsesRegA(i.a, i.b) THEN form(Wide(\ha8, i.a), None, None, i.b)
       ELSE form(Wide(\hf6, i.a), Ext(0), i.a, i.b)

\* ------------------------------------------------------------ data instructions

MovConstructible(a, b) ==
    /\ IsRM(a)
    /\ CASE IsImm(b) -> FullImm(a, b) /\ (IsMem(a) => b.size # 8)
         [] b.kind = "func" -> a.size = 8
         [] OTHER -> IsRM(b) /\ a.size = b.size /\ ~(IsMem(a) /\ IsMem(b))

\* The operand size is the source's.
EncodeMov(i) ==
    LET a == i.a
        b == i.b
        imm == IF b.kind = "func" THEN Imm(<<0, 0, 0, 0>>) ELSE b
        form(opcode, inOpcode, field, rm, value) ==
            Form(b.size, {a, b}, opcode, inOpcode, field, rm, value)
    IN CASE IsReg(b) /\ IsMem(a) -> form(Wide(\h88, b), None, b, a, None)
         [] IsRM(b) /\ IsReg(a) -> form(Wide(\h8a, b), None, a, b, None)
         [] ~IsRM(b) /\ IsReg(a) ->
                form(<<IF b.size = 1 THEN \hb0 ELSE \hb8>>, a, None, None, imm)
         [] ~IsRM(b) /\ IsMem(a) -> form(Wide(\hc6, b), None, Ext(0), a, imm)

XchgUsesRegA(i) == i.a.size # 1 /\ IsReg(i.a) /\ (i.a.reg = 0 \/ i.b.reg = 0)
EncodeXchg(i) ==
    LET form(opcode, field, rm) == Form(i.a.size, {i.a, i.b}, opcode, None, field, rm, None)
    IN IF XchgUsesRegA(i) THEN form(<<\h90 + ((i.a.reg + i.b.reg) % 8)>>, None, None)
       ELSE form(Wide(\h86, i.a), i.b, i.a)

StackSize(o) == IF o.size = 8 THEN 0 ELSE o.size
EncodePush(i) ==
    LET form(opcode, inOpcode, field, rm, imm) ==
            Form(StackSize(i.a), {i.a}, opcode, inOpcode, field, rm, imm)
    IN CASE IsReg(i.a) -> form(<<\h50>>, i.a, None, None, None)
         [] IsMem(i.a) -> form(<<\hff>>, None, Ext(6), i.a, None)
         [] IsImm(i.a) -> form(<<IF i.a.size = 1 THEN \h6a ELSE \h68>>, None, None, None, i.a)
EncodePop(i) ==
    IF IsReg(i.a) THEN Form(StackSize(i.a), {i.a}, <<\h58>>, i.a, None, None, None)
    ELSE Form(StackSize(i.a), {i.a}, <<\h8f>>, None, Ext(0), i.a, None)
EncodeSetcc(i) == Form(0, {i.a}, <<\h0f, \h90 + i.cond>>, None, None, i.a, None)

\* ------------------------------------------------------- control flow instructions

\* jmp and call of a register or memory operand; with a reference the four bytes
\* after the opcode are left to the linker.
EncodeIndirect(i) ==
    Form(0, {i.a}, <<\hff>>, None, Ext(IF i.name = "jmp" THEN 4 ELSE 2), i.a, None)
Unlinked == <<0, 0, 0, 0>>
EncodeControl(i) ==
    CASE i.name = "jcc" -> <<\h0f, \h80 + i.cond>> \o Unlinked
      [] i.name = "jmp" -> IF IsRM(i.a) THEN Assemble(EncodeIndirect(i)) ELSE <<\he9>> \o Unlinked
      [] i.name = "call" -> IF IsRM(i.a) THEN Assemble(EncodeIndirect(i)) ELSE <<\he8>> \o Unlinked
      [] i.name = "syscall" -> <<\h0f, \h05>>
      [] i.name = "ret" -> <<\hc3>>
ControlNames == {"jcc", "jmp", "call", "syscall", "ret"}

\* What the instructions other than these ask of the encoder.
FormOf(i) ==
    CASE i.name \in {"jmp", "call"} -> EncodeIndirect(i)
      [] i.name \in BinaryNames -> EncodeBinary(i)
      [] i.name \in UnaryNames /\ i.b = None -> EncodeUnary(i)
      [] i.name = "imul" /\ i.b # None -> EncodeImul(i)
      [] i.name \in {"sign_extend_a", "sign_extend_ad"} -> EncodeSignExtend(i)
      [] i.name = "test" -> EncodeTest(i)
      [] i.name = "mov" -> EncodeMov(i)
      [] i.name = "xchg" -> EncodeXchg(i)
      [] i.name = "push" -> EncodePush(i)
      [] i.name = "pop" -> EncodePop(i)
      [] i.name = "setcc" -> EncodeSetcc(i)

Encode(i) == IF i.name \in ControlNames THEN EncodeControl(i) ELSE Assemble(FormOf(i))

\* The reference of an instruction the linker has to patch, if it has one.
Ref(i) == IF i.name \in {"jcc", "jmp", "call"} /\ ~IsRM(i.a) THEN i.a
          ELSE IF i.name = "mov" /\ i.b.kind = "func" THEN i.b ELSE None

\* The last byte is ModRM or SIB: neither a displacement nor an immediate follows.
EndsInRM(i) ==
    /\ i.name \in ControlNames => IsRM(i.a)
    /\ LET f == FormOf(i) IN f.rm # None /\ RequiredDispSize(f.rm) = 0 /\ f.imm = None

\* The bytes Encode() needs: the view of a patch must end before the memory does,
\* and the encoder takes the address behind ModRM and SIB, a displacement or not.
AsksForOneMore(i) == (i.name \in ControlNames /\ Ref(i) # None) \/ EndsInRM(i)
Room(i) == Len(Encode(i)) + (IF AsksForOneMore(i) THEN 1 ELSE 0)

\* ------------------------------------------------------------ layout and linker

Declared(p) == Len(p.declared)
\* DefineFunc numbers the functions after the declared ones, AddBlock numbers the
\* blocks of the whole program.
FuncNum(p, f) == Declared(p) + f - 1
BlockNum(p, f, b) == FoldLeft(LAMBDA n, func : n + Len(func), 0, SubSeq(p.funcs, 1, f - 1)) + b - 1

\* The calls of Encode() in their order: the address of a function, of a block,
\* and the bytes of each instruction.
Steps(p) ==
    FlattenSeq([f \in DOMAIN p.funcs |->
        <<[does |-> "func", num |-> FuncNum(p, f)]>> \o
        FlattenSeq([b \in DOMAIN p.funcs[f] |->
            <<[does |-> "block", num |-> BlockNum(p, f, b)]>> \o
            [k \in DOMAIN p.funcs[f][b] |-> [does |-> "instr", instr |-> p.funcs[f][b][k]]]])])

Init == /\ program \in Programs
        /\ todo = Steps(program)
        /\ code = <<>> /\ patches = <<>> /\ starts = <<>> /\ blockAddrs = <<>>
        /\ funcAddrs = [n \in 0..Declared(program) - 1 |-> program.declared[n + 1]]
        /\ stage = "encode"

Here == Len(code) + 1
\* Mutation: an instruction may not end where the memory ends.
FitsWithByteToSpare(s) == Len(code) < Capacity /\ (s.does = "instr" => Len(code) + Room(s.instr) < Capacity)

\* SubView(code_index) fails at the end of the memory, an encoder behind it.
Fits(s) == Len(code) < Capacity /\ (s.does = "instr" => Len(code) + Room(s.instr) <= Capacity)

EncodeFunc ==
    /\ stage = "encode" /\ todo # <<>> /\ Head(todo).does = "func" /\ Fits(Head(todo))
    /\ funcAddrs' = [n \in DOMAIN funcAddrs \cup {Head(todo).num} |->
                        IF n = Head(todo).num THEN Here ELSE funcAddrs[n]]
    /\ todo' = Tail(todo)
    /\ UNCHANGED <<program, code, blockAddrs, patches, starts, stage>>

EncodeBlock ==
    /\ stage = "encode" /\ todo # <<>> /\ Head(todo).does = "block" /\ Fits(Head(todo))
    /\ blockAddrs' = [n \in DOMAIN blockAddrs \cup {Head(todo).num} |->
                        IF n = Head(todo).num THEN Here ELSE blockAddrs[n]]
    /\ todo' = Tail(todo)
    /\ UNCHANGED <<program, code, funcAddrs, patches, starts, stage>>

EncodeInstr ==
    /\ stage = "encode" /\ todo # <<>> /\ Head(todo).does = "instr" /\ Fits(Head(todo))
    /\ LET i == Head(todo).instr IN
        /\ code' = code \o Encode(i)
        /\ starts' = Append(starts, [at |-> Here, instr |-> i])
        /\ patches' = IF Ref(i) = None THEN patches
                      ELSE Append(patches, [ref |-> Ref(i), at |-> Len(code) + Len(Encode(i)) - 3])
    /\ todo' = Tail(todo)
    /\ UNCHANGED <<program, funcAddrs, blockAddrs, stage>>

DoesNotFit ==
    /\ stage = "encode" /\ todo # <<>> /\ ~Fits(Head(todo))
    /\ stage' = "failed"
    /\ UNCHANGED <<program, code, todo, funcAddrs, blockAddrs, patches, starts>>

AddressOf(ref) == IF ref.kind = "func" THEN funcAddrs[ref.num] ELSE blockAddrs[ref.num]

\* The distance from the end of the patch to what is referred to, in four bytes.
PatchBytes(patch) == LowBytes(AddressOf(patch.ref) - (patch.at + 4), 4)
Patched(bytes, patch) ==
    [k \in DOMAIN bytes |-> IF k \in patch.at..patch.at + 3 THEN PatchBytes(patch)[k - patch.at + 1]
                            ELSE bytes[k]]

\* Those of functions come before those of blocks; they meet nowhere.
ApplyPatch ==
    /\ stage = "encode" /\ todo = <<>> /\ patches # <<>>
    /\ code' = Patched(code, Head(patches))
    /\ patches' = Tail(patches)
    /\ UNCHANGED <<program, todo, funcAddrs, blockAddrs, starts, stage>>

Linked ==
    /\ stage = "encode" /\ todo = <<>> /\ patches = <<>>
    /\ stage' = "linked"
    /\ UNCHANGED <<program, code, todo, funcAddrs, blockAddrs, patches, starts>>

Next == EncodeFunc \/ EncodeBlock \/ EncodeInstr \/ DoesNotFit \/ ApplyPatch \/ Linked
Spec == Init /\ [][Next]_vars

\* ---------------------------------------------------------------- properties

\* What an instruction says it does (its ToString), in the decoder's terms.
Meant(o, size) == CASE IsImm(o) -> Value(SignExtended(o.bytes, size))
                    [] o.kind \in {"func", "block"} -> Target(AddressOf(o))
                    [] OTHER -> o
\* The processor zero-extends a 32-bit move into a register.
ZeroExtends(i) == i.name = "mov" /\ IsReg(i.a) /\ i.a.size = 8 /\ IsImm(i.b) /\ i.b.size = 4
                  /\ ~Negative(i.b)
Args(i) ==
    CASE i.name \in {"jcc"} -> <<i.cond, Meant(i.a, 8)>>
      [] i.name = "setcc" -> <<i.cond, i.a>>
      [] i.name \in {"sign_extend_a", "sign_extend_ad"} -> <<i.size>>
      [] i.name \in {"syscall", "ret"} -> <<>>
      [] i.name = "push" -> <<Meant(i.a, IF i.a.size = 2 THEN 2 ELSE 8)>>
      [] ZeroExtends(i) -> <<Reg(4, i.a.reg), i.b>>
      [] OTHER -> LET size == i.a.size
                  IN IF i.b = None THEN <<Meant(i.a, size)>>
                     ELSE IF i.c = None THEN <<Meant(i.a, size), Meant(i.b, size)>>
                     ELSE <<Meant(i.a, size), Meant(i.b, size), Meant(i.c, size)>>
SameArgs(name, xs, ys) == xs = ys \/ (name = "xchg" /\ xs = Reverse(ys))

\* Known mistakes of the encoder, without which RunsAsWritten does not hold: the
\* short xchg drops the REX.B of r8 to r15 (and is a nop for eax with itself); a
\* multiplication by the constant one keeps the old value of the result; a 64-bit
\* mov of a 32-bit immediate does not sign-extend and fills half of a memory
\* operand; a mov of a function reference leaves four of the eight bytes of the
\* immediate of a register out and stores a distance.
Misencoded(i) ==
    \/ i.name = "xchg" /\ XchgUsesRegA(i) /\ (i.a.reg >= 8 \/ i.b.reg >= 8 \/ i.a = i.b)
    \/ i.name = "imul" /\ i.c # None /\ CanSkipImm(i)
    \/ i.name = "mov" /\ IsImm(i.b) /\ i.b.size < i.a.size /\ (IsMem(i.a) \/ Negative(i.b))
    \/ i.name = "mov" /\ i.b.kind = "func"

\* What the constructors of the instructions accept.
IsInstr(i) ==
    /\ \A o \in {i.a, i.b, i.c} : IsRM(o) \/ IsImm(o) => IsOperand(o)
    /\ CASE i.name \in BinaryNames -> IsRM(i.a) /\ BinaryConstructible(i.a, i.b) /\ i.c = None
         [] i.name \in UnaryNames /\ i.b = None -> IsRM(i.a) /\ i.c = None
         [] i.name = "imul" /\ i.b # None -> ImulConstructible(i) /\ (IsImm(i.c) \/ i.c = None)
         [] i.name \in {"sign_extend_a", "sign_extend_ad"} -> i.size \in {2, 4, 8}
         [] i.name = "test" -> TestConstructible(i.a, i.b) /\ i.c = None
         [] i.name = "mov" -> MovConstructible(i.a, i.b) /\ i.c = None
         [] i.name = "xchg" -> IsRM(i.a) /\ IsReg(i.b) /\ i.a.size = i.b.size /\ i.c = None
         [] i.name = "push" -> /\ i.b = None
                               /\ \/ IsRM(i.a) /\ i.a.size \in {2, 8}
                                  \/ IsImm(i.a) /\ i.a.size # 8
         [] i.name = "pop" -> i.b = None /\ IsRM(i.a) /\ i.a.size \in {2, 8}
         [] i.name = "setcc" -> i.cond \in 0..15 /\ IsRM(i.a) /\ i.a.size = 1
         [] i.name = "jcc" -> i.cond \in 0..15 /\ i.a.kind = "block"
         [] i.name = "jmp" -> i.b = None /\ (i.a.kind = "block" \/ (IsRM(i.a) /\ i.a.size = 8))
         [] i.name = "call" -> i.b = None /\ (i.a.kind = "func" \/ (IsRM(i.a) /\ i.a.size = 8))
         [] OTHER -> i.name \in {"syscall", "ret"}

\* Programs refer to what they have; a distance in the memory, or from it to a
\* declared function, has 32 bits, which nothing checks.
IsProgram(p) ==
    /\ p.funcs \in Seq(Seq(Seq(Instrs))) /\ p.declared \in Seq(Int)
    /\ \A n \in DOMAIN p.declared, at \in 1..Capacity : p.declared[n] - (at + 4) \in Int32
    /\ \A s \in ToSet(Steps(p)) :
          LET ref == Ref(s.instr)
          IN s.does = "instr" /\ ref # None =>
                \/ ref.kind = "func" /\ ref.num \in 0..Declared(p) - 1
                \/ \E t \in ToSet(Steps(p)) : t.does = ref.kind /\ t.num = ref.num

ASSUME MachineCodeAssumption ==
    /\ Capacity \in Nat \ {0} /\ Capacity + 4 \in Int32
    /\ \A i \in Instrs : IsInstr(i)
    /\ \A p \in Programs : IsProgram(p)

\* The processor reads the linked code as the instructions of the program, one
\* after the other with nothing between them, and every reference as the address
\* at which its block or function begins.
RunsAsWritten ==
    stage = "linked" =>
        \A k \in DOMAIN starts :
            LET i == starts[k].instr
                read == Decode(code, starts[k].at)
                next == IF k = Len(starts) THEN Here ELSE starts[k + 1].at
            IN ~Misencoded(i) =>
                 read.op = i.name /\ SameArgs(i.name, read.args, Args(i)) /\ read.next = next

\* The bytes of the first n steps, and of all.
BytesUpTo(steps) ==
    LET upTo[n \in 0..Len(steps)] ==
            IF n = 0 THEN 0
            ELSE upTo[n - 1] + (IF steps[n].does = "instr" THEN Len(Encode(steps[n].instr)) ELSE 0)
    IN upTo
TotalBytes(steps) == BytesUpTo(steps)[Len(steps)]

\* Only a program that fills the memory to its last byte is refused.
RefusesOnlyFullMemory == stage = "failed" => Capacity <= TotalBytes(Steps(program))
=============================================================================
