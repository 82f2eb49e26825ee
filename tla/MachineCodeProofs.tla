-------------------------- MODULE MachineCodeProofs --------------------------
(***************************************************************************)
(* Linked code is read as the instructions of the program, and only a      *)
(* program that fills the memory is refused, for every capacity and every  *)
(* program of instructions the constructors accept. First what the decoder *)
(* reads of an encoded operand, then of the parts InstrEncoder puts        *)
(* together (a "form"), then of each class of instructions, without and    *)
(* with a reference; at the end the inductive invariant: where the         *)
(* instructions lie, that their bytes are there, and that a reference      *)
(* waits for the linker or holds its distance.                             *)
(***************************************************************************)
EXTENDS MachineCode, WellFoundedInduction, TLAPS

-----------------------------------------------------------------------------
(* What an encoding consists of.                                            *)

HasBytes(c, at, e) == \A j \in 1..Len(e) : Byte(c, at + j - 1) = e[j]

OpcodeBytes(f) == IF f.inOpcode = None THEN f.opcode
                  ELSE <<f.opcode[1] + (f.inOpcode.reg % 8)>>
Field(f) == IF IsReg(f.field) THEN f.field.reg % 8 ELSE IF f.field = None THEN 0 ELSE f.field.n
ModRMBytes(f) ==
    IF f.rm = None THEN <<>>
    ELSE <<Fields(EncodeRM(f.rm).mod, Field(f), EncodeRM(f.rm).rm)>>
            \o EncodeRM(f.rm).sib \o EncodeRM(f.rm).disp
ImmBytes(f) == IF f.imm = None THEN <<>> ELSE f.imm.bytes

IsRMOperand(o) == IsRM(o) /\ IsOperand(o)
IsImmOperand(o) == IsImm(o) /\ IsOperand(o)
IsRegOperand(o) == IsReg(o) /\ IsOperand(o)

(* What an Encode() asks of InstrEncoder is well-formed.                    *)
IsForm(f) ==
    /\ f.size \in {0, 1, 2, 4, 8}
    /\ f.opcode \in Seq(0..255) /\ f.opcode # <<>>
    /\ f.opcode[1] # 102 /\ f.opcode[1] \div 16 # 4
    /\ f.inOpcode # None =>
          /\ IsRegOperand(f.inOpcode) /\ f.inOpcode \in f.rex
          /\ f.opcode[1] \in {80, 88, 176, 184} /\ f.rm = None /\ f.field = None
    /\ f.rm # None => IsRMOperand(f.rm) /\ f.rm \in f.rex
    /\ \/ f.field = None
       \/ f.field.kind = "ext" /\ f.field.n \in 0..7
       \/ IsRegOperand(f.field) /\ f.field \in f.rex /\ f.field # None
    /\ f.rm = None => f.field = None
    /\ f.imm # None => IsImmOperand(f.imm)

HasREX(f) == f.size = 8 \/ \E o \in f.rex : RequiresREX(o)

(* The parts InstrEncoder writes, in their order.                           *)
LEMMA AssembledParts ==
  ASSUME NEW f
  PROVE  Assemble(f) = EncodeOperandSize(f) \o EncodeREX(f) \o OpcodeBytes(f) \o ModRMBytes(f)
                         \o ImmBytes(f)
  BY DEF Assemble, OpcodeBytes, ModRMBytes, ImmBytes, Field

(* Code that holds two sequences holds the first, and the second behind it. *)
LEMMA HasPrefixAndRest ==
  ASSUME NEW c, NEW at \in Int, NEW s \in Seq(Int), NEW t \in Seq(Int), HasBytes(c, at, s \o t)
  PROVE  HasBytes(c, at, s) /\ HasBytes(c, at + Len(s), t)
<1>1. Len(s \o t) = Len(s) + Len(t) /\ Len(s) \in Nat /\ Len(t) \in Nat
  OBVIOUS
<1>2. ASSUME NEW j \in 1..Len(s) PROVE Byte(c, at + j - 1) = s[j]
  <2>1. j \in 1..Len(s \o t) /\ (s \o t)[j] = s[j]
    BY <1>1
  <2> QED BY <2>1 DEF HasBytes
<1>3. ASSUME NEW j \in 1..Len(t) PROVE Byte(c, at + Len(s) + j - 1) = t[j]
  <2>1. j + Len(s) \in 1..Len(s \o t) /\ (s \o t)[j + Len(s)] = t[j]
    BY <1>1
  <2>2. at + (j + Len(s)) - 1 = at + Len(s) + j - 1
    BY <1>1
  <2> QED BY <2>1, <2>2 DEF HasBytes
<1> QED BY <1>2, <1>3 DEF HasBytes

-----------------------------------------------------------------------------
(* Operands: their fields and bytes.                                        *)

(* A register operand: when it needs REX, and its fields.                   *)
LEMMA Register ==
  ASSUME NEW o, IsRegOperand(o)
  PROVE  /\ o.reg \in 0..15 /\ o.size \in {1, 2, 4, 8}
         /\ o.size = 1 => (RequiresREX(o) <=> o.reg >= 4)
         /\ o.size # 1 => (RequiresREX(o) <=> o.reg >= 8)
         /\ EncodeRM(o).mod = 3 /\ EncodeRM(o).rm = o.reg % 8 /\ EncodeRM(o).sib = <<>>
         /\ EncodeRM(o).disp = <<>> /\ EncodeRM(o).x = 0
         /\ EncodeRM(o).b = IF o.reg >= 8 THEN 1 ELSE 0
         /\ ~IsMem(o)
<1>1. /\ o.kind = "reg" /\ o.reg \in 0..15 /\ o.size \in {1, 2, 4, 8}
  BY DEF IsRegOperand, IsOperand, IsReg, IsMem, IsImm, Reg, Mem, Value, Sizes
<1>2. IsReg(o) /\ ~IsMem(o) /\ ~IsImm(o)
  BY <1>1 DEF IsReg, IsMem, IsImm
<1>3. RequiresREX(o) <=> RegRequiresREX(o)
  BY <1>2 DEF RequiresREX
<1>4. /\ o.size = 1 => (RegRequiresREX(o) <=> o.reg >= 4)
      /\ o.size # 1 => (RegRequiresREX(o) <=> o.reg >= 8)
  BY <1>1 DEF RegRequiresREX
<1>5. EncodeRM(o).mod = 3 /\ EncodeRM(o).rm = o.reg % 8
  BY <1>1, <1>2 DEF EncodeRM
<1>6. EncodeRM(o).sib = <<>> /\ EncodeRM(o).disp = <<>>
  BY <1>1, <1>2 DEF EncodeRM, RequiresSIB
<1>7. EncodeRM(o).x = 0 /\ EncodeRM(o).b = IF o.reg >= 8 THEN 1 ELSE 0
  BY <1>1, <1>2 DEF EncodeRM, Extended, NoReg
<1> QED BY <1>1, <1>2, <1>3, <1>4, <1>5, <1>6, <1>7

(* What the constructor of a memory operand accepts.                        *)
LEMMA Memory ==
  ASSUME NEW o, IsMem(o), IsOperand(o)
  PROVE  /\ o.size \in {1, 2, 4, 8} /\ o.disp \in Int32 /\ o.base \in 0..15 \cup {255}
         /\ \/ o.index \in 0..15 \ {4} /\ o.scale \in 0..3
            \/ o.index = 255 /\ o.scale = 0
         /\ ~IsReg(o) /\ ~IsImm(o)
  BY DEF IsOperand, IsReg, IsMem, IsImm, Reg, Mem, Value, NoReg, Sizes

(* The first powers of 256, which is all LowBytes needs.                    *)
LEMMA PowersOf256 == ASSUME NEW v \in Int
  PROVE /\ v \div 256^(1 - 1) = v /\ v \div 256^(2 - 1) = v \div 256
        /\ v \div 256^(3 - 1) = v \div 65536 /\ v \div 256^(4 - 1) = v \div 16777216
<1>1. 256^0 = 1 /\ 256^1 = 256 /\ 256^2 = 65536 /\ 256^3 = 16777216
  BY SMT
<1>2. 1 - 1 = 0 /\ 2 - 1 = 1 /\ 3 - 1 = 2 /\ 4 - 1 = 3 /\ v \div 1 = v
  BY SMT
<1> QED BY <1>1, <1>2, SMT

(* The low bytes of a number, written out.                                  *)
LEMMA LowBytesAre ==
  ASSUME NEW v \in Int
  PROVE  /\ LowBytes(v, 0) = <<>> /\ LowBytes(v, 1) = <<v % 256>>
         /\ LowBytes(v, 4) = <<v % 256, (v \div 256) % 256, (v \div 65536) % 256, (v \div 16777216) % 256>>
<1>1. 256^0 = 1 /\ 256^1 = 256 /\ 256^2 = 65536 /\ 256^3 = 16777216
  BY SMT
<1>2. 1 - 1 = 0 /\ 2 - 1 = 1 /\ 3 - 1 = 2 /\ 4 - 1 = 3 /\ v \div 1 = v
  BY SMT
<1>3. LowBytes(v, 0) = <<>>
  BY DEF LowBytes
<1>4. LowBytes(v, 1) = <<v % 256>>
  <2>1. LowBytes(v, 1) = [k \in 1..1 |-> (v \div 256^(k - 1)) % 256]
    BY DEF LowBytes
  <2>2. LowBytes(v, 1)[1] = v % 256
    BY <1>1, <1>2, <2>1, SMT
  <2> QED BY <2>1, <2>2
<1>5. LowBytes(v, 4) = <<v % 256, (v \div 256) % 256, (v \div 65536) % 256, (v \div 16777216) % 256>>
  <2>1. LowBytes(v, 4) = [k \in 1..4 |-> (v \div 256^(k - 1)) % 256]
    BY DEF LowBytes
  <2>2. /\ LowBytes(v, 4)[1] = v % 256 /\ LowBytes(v, 4)[2] = (v \div 256) % 256
        /\ LowBytes(v, 4)[3] = (v \div 65536) % 256 /\ LowBytes(v, 4)[4] = (v \div 16777216) % 256
    BY <1>1, <1>2, <2>1, SMT
  <2> QED BY <2>1, <2>2, SMT
<1> QED BY <1>3, <1>4, <1>5

(* They are bytes.                                                          *)
LEMMA LowBytesInSeq ==
  ASSUME NEW v \in Int, NEW n \in {0, 1, 4}
  PROVE  LowBytes(v, n) \in Seq(0..255)
<1>1. \A k \in 1..n : (v \div 256^(k - 1)) % 256 \in 0..255
  <2>1. v % 256 \in 0..255 /\ (v \div 256) % 256 \in 0..255
    BY SMT
  <2>2. (v \div 65536) % 256 \in 0..255 /\ (v \div 16777216) % 256 \in 0..255
    BY SMT
  <2> QED BY <2>1, <2>2, PowersOf256, SMT
<1>2. LowBytes(v, n) = [k \in 1..n |-> (v \div 256^(k - 1)) % 256]
  BY DEF LowBytes
<1> HIDE DEF LowBytes
<1> QED BY <1>1, <1>2

(* They are as many as asked for.                                           *)
LEMMA LowBytesLen ==
  ASSUME NEW v, NEW n \in {0, 1, 4}
  PROVE  Len(LowBytes(v, n)) = n
<1> DEFINE f == [k \in 1..n |-> (v \div 256^(k - 1)) % 256]
<1>1. LowBytes(v, n) = f /\ f = [k \in 1..n |-> f[k]]
  BY DEF LowBytes
<1> HIDE DEF f
<1>2. Len([k \in 1..n |-> f[k]]) = n
  OBVIOUS
<1> QED BY <1>1, <1>2, Zenon

(* Four bytes give a number of 32 bits back, one byte one of eight.         *)
LEMMA SignedOfLowBytes ==
  ASSUME NEW v \in Int32
  PROVE  /\ Signed32(LowBytes(v, 4)) = v
         /\ v \in -128..127 => Signed8(v % 256) = v
<1>1. v \in Int /\ v >= -2147483647 - 1 /\ v <= 2147483647
  BY SMT DEF Int32
<1>2. v = (v % 256) + 256 * ((v \div 256) % 256) + 65536 * ((v \div 65536) % 256)
            + 16777216 * (IF (v \div 16777216) % 256 < 128 THEN (v \div 16777216) % 256
                          ELSE ((v \div 16777216) % 256) - 256)
  BY <1>1, SMTT(30)
<1>3. v \in -128..127 => Signed8(v % 256) = v
  BY <1>1, SMT DEF Signed8
<1>4. LowBytes(v, 4) = <<v % 256, (v \div 256) % 256, (v \div 65536) % 256, (v \div 16777216) % 256>>
  BY <1>1, LowBytesAre, SMT
<1>5. ASSUME NEW a \in Int, NEW b \in Int, NEW x \in Int, NEW y \in Int
      PROVE  Signed32(<<a, b, x, y>>) = a + 256 * b + 65536 * x + 16777216 * (IF y < 128 THEN y ELSE y - 256)
  BY SMT DEF Signed32, Signed8
<1>6. /\ v % 256 \in Int /\ (v \div 256) % 256 \in Int
      /\ (v \div 65536) % 256 \in Int /\ (v \div 16777216) % 256 \in Int
  BY <1>1, SMT
<1>7. Signed32(LowBytes(v, 4)) = v
  <2> DEFINE b1 == v % 256
             b2 == (v \div 256) % 256
             b3 == (v \div 65536) % 256
             b4 == (v \div 16777216) % 256
  <2>1. b1 \in Int /\ b2 \in Int /\ b3 \in Int /\ b4 \in Int
    BY <1>6
  <2>2. v = b1 + 256 * b2 + 65536 * b3 + 16777216 * (IF b4 < 128 THEN b4 ELSE b4 - 256)
    BY <1>2
  <2>3. LowBytes(v, 4) = <<b1, b2, b3, b4>>
    BY <1>4
  <2> HIDE DEF b1, b2, b3, b4
  <2> QED BY <2>1, <2>2, <2>3, <1>5, SMT
<1> QED BY <1>3, <1>7

Bits2 == 0..3
Bits3 == 0..7
(* The fields of a ModRM or SIB byte are read back as they were written.    *)
LEMMA ThreeFields ==
  ASSUME NEW m \in Bits2, NEW f \in Bits3, NEW r \in Bits3
  PROVE  /\ High(Fields(m, f, r)) = m /\ Middle(Fields(m, f, r)) = f
         /\ Low(Fields(m, f, r)) = r /\ Fields(m, f, r) \in 0..255
<1>1. High(Fields(m, f, r)) = m
  BY DEF High, Fields, Bits2, Bits3
<1>2. Middle(Fields(m, f, r)) = f
  BY DEF Middle, Fields, Bits2, Bits3
<1>3. Low(Fields(m, f, r)) = r
  BY DEF Low, Fields, Bits2, Bits3
<1>4. Fields(m, f, r) \in 0..255
  BY DEF Fields, Bits2, Bits3
<1> QED BY <1>1, <1>2, <1>3, <1>4

Disp(o) == LowBytes(o.disp, RequiredDispSize(o))
(* A number of 32 bits is an integer.                                       *)
LEMMA Int32IsInt == ASSUME NEW v \in Int32 PROVE v \in Int
  BY SMT DEF Int32

(* The fields of a memory operand, its displacement and its REX bits.       *)
LEMMA MemoryEncoding ==
  ASSUME NEW o, IsMem(o), IsOperand(o)
  PROVE  /\ EncodeRM(o).mod = IF o.base = 255 \/ RequiredDispSize(o) = 0 THEN 0
                              ELSE IF RequiredDispSize(o) = 1 THEN 1 ELSE 2
         /\ EncodeRM(o).rm = IF RequiresSIB(o) THEN 4 ELSE o.base % 8
         /\ EncodeRM(o).disp = Disp(o)
         /\ EncodeRM(o).x = IF o.index # 255 /\ o.index >= 8 THEN 1 ELSE 0
         /\ EncodeRM(o).b = IF o.base # 255 /\ o.base >= 8 THEN 1 ELSE 0
         /\ RequiresSIB(o) <=> o.base = 255 \/ o.index # 255 \/ o.base \in {4, 12}
         /\ RequiredDispSize(o) = IF o.base = 255 THEN 4
                                  ELSE IF o.disp = 0 /\ o.base \notin {5, 13} THEN 0
                                  ELSE IF o.disp \in -128..127 THEN 1 ELSE 4
         /\ (RequiresREX(o) <=> (o.index # 255 /\ o.index >= 8) \/ (o.base # 255 /\ o.base >= 8))
<1>1. IsMem(o) = TRUE /\ ~IsReg(o) /\ ~IsImm(o) /\ o.base \in 0..15 \cup {255}
      /\ (o.index \in 0..15 \/ o.index = 255)
  BY Memory
<1>2. EncodeRM(o).mod = IF o.base = 255 \/ RequiredDispSize(o) = 0 THEN 0
                        ELSE IF RequiredDispSize(o) = 1 THEN 1 ELSE 2
  BY <1>1 DEF EncodeRM, NoReg
<1>3. EncodeRM(o).rm = IF RequiresSIB(o) THEN 4 ELSE o.base % 8
  BY <1>1 DEF EncodeRM, NoReg
<1>5. EncodeRM(o).disp = Disp(o)
  BY <1>1 DEF EncodeRM, Disp
<1>6. EncodeRM(o).x = IF o.index # 255 /\ o.index >= 8 THEN 1 ELSE 0
  BY <1>1 DEF EncodeRM, NoReg, Extended
<1>7. EncodeRM(o).b = IF o.base # 255 /\ o.base >= 8 THEN 1 ELSE 0
  BY <1>1 DEF EncodeRM, NoReg, Extended
<1>8. RequiresSIB(o) <=> o.base = 255 \/ o.index # 255 \/ o.base \in {4, 12}
  BY <1>1 DEF RequiresSIB, NoReg
<1>9. RequiredDispSize(o) = IF o.base = 255 THEN 4
                            ELSE IF o.disp = 0 /\ o.base \notin {5, 13} THEN 0
                            ELSE IF o.disp \in -128..127 THEN 1 ELSE 4
  BY <1>1 DEF RequiredDispSize, NoReg
<1>10. RequiresREX(o) <=> (o.index # 255 /\ o.index >= 8) \/ (o.base # 255 /\ o.base >= 8)
  BY <1>1 DEF RequiresREX, MemRequiresREX, Extended, NoReg
<1> QED BY <1>2, <1>3, <1>5, <1>6, <1>7, <1>8, <1>9, <1>10

SIBByte(o) == Fields(IF o.index = 255 THEN 0 ELSE o.scale, IF o.index = 255 THEN 4 ELSE o.index % 8,
                     IF o.base = 255 THEN 5 ELSE o.base % 8)
(* The SIB byte of a memory operand, if it has one.                         *)
LEMMA MemorySIB ==
  ASSUME NEW o, IsMem(o), IsOperand(o)
  PROVE  /\ RequiresSIB(o) => EncodeRM(o).sib = <<SIBByte(o)>>
         /\ ~RequiresSIB(o) => EncodeRM(o).sib = <<>>
<1>1. ~IsReg(o)
  BY Memory
<1> QED BY <1>1 DEF EncodeRM, NoReg, SIBByte

(* The bytes of ModRM, SIB and displacement.                                *)
RMBytes(field, o) == <<Fields(EncodeRM(o).mod, field, EncodeRM(o).rm)>> \o EncodeRM(o).sib \o EncodeRM(o).disp

(* The fields of an operand fit into their bits.                            *)
LEMMA RMBytesOf ==
  ASSUME NEW o, IsRMOperand(o), NEW field \in Bits3
  PROVE  /\ EncodeRM(o).mod \in Bits2 /\ EncodeRM(o).rm \in Bits3
         /\ EncodeRM(o).sib \in Seq(0..255) /\ EncodeRM(o).disp \in Seq(0..255)
         /\ RMBytes(field, o) \in Seq(0..255)
         /\ EncodeRM(o).x \in {0, 1} /\ EncodeRM(o).b \in {0, 1}
<1>1. CASE IsReg(o)
  <2>1. /\ EncodeRM(o).mod = 3 /\ EncodeRM(o).rm \in Bits3 /\ EncodeRM(o).sib = <<>>
        /\ EncodeRM(o).disp = <<>> /\ EncodeRM(o).x \in {0, 1} /\ EncodeRM(o).b \in {0, 1}
    BY <1>1, Register DEF IsRegOperand, IsRMOperand, Bits2, Bits3
  <2>2. Fields(EncodeRM(o).mod, field, EncodeRM(o).rm) \in 0..255
    <3>1. EncodeRM(o).mod \in Bits2 /\ EncodeRM(o).rm \in Bits3
      BY <2>1 DEF Bits2
    <3> QED BY <3>1, ThreeFields
  <2>3. RMBytes(field, o) = <<Fields(EncodeRM(o).mod, field, EncodeRM(o).rm)>> \o <<>> \o <<>>
    BY <2>1, Zenon DEF RMBytes
  <2>4. RMBytes(field, o) \in Seq(0..255)
    BY <2>2, <2>3
  <2>5. <<>> \in Seq(0..255)
    OBVIOUS
  <2>6. EncodeRM(o).mod \in Bits2
    BY <2>1 DEF Bits2
  <2> QED BY <2>1, <2>4, <2>5, <2>6, Zenon
<1>2. CASE IsMem(o)
  <2>1. EncodeRM(o).mod \in Bits2 /\ EncodeRM(o).rm \in Bits3
    BY <1>2, Memory, MemoryEncoding DEF IsRMOperand, Bits2, Bits3
  <2>2. EncodeRM(o).sib \in Seq(0..255)
    <3>1. /\ (IF o.index = 255 THEN 0 ELSE o.scale) \in Bits2
          /\ (IF o.index = 255 THEN 4 ELSE o.index % 8) \in Bits3
          /\ (IF o.base = 255 THEN 5 ELSE o.base % 8) \in Bits3
      BY <1>2, Memory DEF IsRMOperand, Bits2, Bits3
    <3>2. SIBByte(o) \in 0..255
      <4> DEFINE scale == IF o.index = 255 THEN 0 ELSE o.scale
                 index == IF o.index = 255 THEN 4 ELSE o.index % 8
                 base == IF o.base = 255 THEN 5 ELSE o.base % 8
      <4>1. SIBByte(o) = Fields(scale, index, base)
        BY DEF SIBByte
      <4>2. scale \in Bits2 /\ index \in Bits3 /\ base \in Bits3
        BY <3>1
      <4> HIDE DEF scale, index, base
      <4> QED BY <4>1, <4>2, ThreeFields
    <3>3. EncodeRM(o).sib = <<SIBByte(o)>> \/ EncodeRM(o).sib = <<>>
      BY <1>2, MemorySIB DEF IsRMOperand, Bits2, Bits3
    <3>4. <<SIBByte(o)>> \in Seq(0..255) /\ <<>> \in Seq(0..255)
      BY <3>2
    <3> HIDE <3>2
    <3> QED BY <3>3, <3>4, Zenon
  <2>3. EncodeRM(o).disp \in Seq(0..255)
    <3>1. o.disp \in Int /\ RequiredDispSize(o) \in {0, 1, 4}
      BY <1>2, Int32IsInt, Memory, MemoryEncoding DEF IsRMOperand, Bits2, Bits3
    <3>2. LowBytes(o.disp, RequiredDispSize(o)) \in Seq(0..255)
      <4> DEFINE n == RequiredDispSize(o)
      <4> HIDE DEF n
      <4>1. n \in {0, 1, 4} /\ o.disp \in Int
        BY <3>1 DEF n
      <4>2. LowBytes(o.disp, n) \in Seq(0..255)
        BY <4>1, LowBytesInSeq, Zenon
      <4> QED BY <4>2 DEF n
    <3> QED BY <1>2, <3>2, MemoryEncoding DEF IsRMOperand, Disp
  <2>4. Fields(EncodeRM(o).mod, field, EncodeRM(o).rm) \in 0..255
    BY <2>1, ThreeFields
  <2>5. RMBytes(field, o) \in Seq(0..255)
    BY <2>4, <2>2, <2>3 DEF RMBytes
  <2> QED BY <1>2, <2>1, <2>2, <2>3, <2>5, MemoryEncoding DEF IsRMOperand, Bits2, Bits3
<1> QED BY <1>1, <1>2 DEF IsRMOperand, IsRM

(* A sequence over a set is one over a larger set.                          *)
LEMMA WiderSeq ==
  ASSUME NEW S, NEW T, S \subseteq T, NEW q \in Seq(S)
  PROVE  q \in Seq(T)
  OBVIOUS

(* Bytes are integers.                                                      *)
LEMMA BytesAreInts == ASSUME NEW q \in Seq(0..255) PROVE q \in Seq(Int)
<1>1. 0..255 \subseteq Int
  OBVIOUS
<1> QED BY <1>1, WiderSeq, Zenon

-----------------------------------------------------------------------------
(* Operands as the decoder reads them.                                      *)

(* With REX where it is needed, a byte register is not taken for ah to bh.  *)
LEMMA RegOfOperand ==
  ASSUME NEW p, NEW o, IsRegOperand(o), p.rex \in {0, 1}, RequiresREX(o) => p.rex = 1
  PROVE  RegOf(p, o.size, o.reg) = o
<1>1. o = Reg(o.size, o.reg)
  BY DEF IsRegOperand, IsOperand, IsReg, IsMem, IsImm, Mem, Value
<1>2. ~(o.size = 1 /\ p.rex = 0 /\ o.reg \in 4..7)
  BY Register
<1> QED BY <1>1, <1>2 DEF RegOf

(* Code that holds a sequence of one byte.                                  *)
LEMMA HasOneByte ==
  ASSUME NEW c, NEW at \in Int, NEW b, HasBytes(c, at, <<b>>)
  PROVE  Byte(c, at) = b
<1>1. 1 \in 1..Len(<<b>>) /\ <<b>>[1] = b /\ at + 1 - 1 = at
  OBVIOUS
<1> QED BY <1>1 DEF HasBytes

(* Code that holds an operand: its ModRM byte by fields, SIB and            *)
(* displacement behind it.                                                  *)
LEMMA HasRMBytes ==
  ASSUME NEW c, NEW at \in Int, NEW o, IsRMOperand(o), NEW field \in Bits3,
         HasBytes(c, at, RMBytes(field, o))
  PROVE  /\ Byte(c, at) = Fields(EncodeRM(o).mod, field, EncodeRM(o).rm)
         /\ High(Byte(c, at)) = EncodeRM(o).mod /\ Middle(Byte(c, at)) = field
         /\ Low(Byte(c, at)) = EncodeRM(o).rm
         /\ HasBytes(c, at + 1, EncodeRM(o).sib)
         /\ HasBytes(c, at + 1 + Len(EncodeRM(o).sib), EncodeRM(o).disp)
         /\ Len(RMBytes(field, o)) = 1 + Len(EncodeRM(o).sib) + Len(EncodeRM(o).disp)
<1> DEFINE s == EncodeRM(o).sib
           d == EncodeRM(o).disp
           m == Fields(EncodeRM(o).mod, field, EncodeRM(o).rm)
<1>1. EncodeRM(o).mod \in Bits2 /\ EncodeRM(o).rm \in Bits3
  BY RMBytesOf
<1>2. High(m) = EncodeRM(o).mod /\ Middle(m) = field /\ Low(m) = EncodeRM(o).rm /\ m \in 0..255
  BY <1>1, ThreeFields
<1>3. s \in Seq(Int) /\ d \in Seq(Int)
  <2>1. s \in Seq(0..255) /\ d \in Seq(0..255)
    BY RMBytesOf, Zenon
  <2> HIDE DEF s, d
  <2> QED BY <2>1, BytesAreInts
<1>4. HasBytes(c, at, (<<m>> \o s) \o d) /\ RMBytes(field, o) = (<<m>> \o s) \o d
  BY DEF RMBytes
<1> HIDE DEF s, d, m
<1>5. <<m>> \in Seq(Int) /\ <<m>> \o s \in Seq(Int) /\ Len(s) \in Nat
      /\ Len(<<m>> \o s) = 1 + Len(s) /\ Len(<<m>>) = 1 /\ Len((<<m>> \o s) \o d) = 1 + Len(s) + Len(d)
  BY <1>2, <1>3
<1>6. HasBytes(c, at, <<m>> \o s) /\ HasBytes(c, at + Len(<<m>> \o s), d)
  BY <1>3, <1>4, <1>5, HasPrefixAndRest, Zenon
<1>7. HasBytes(c, at, <<m>>) /\ HasBytes(c, at + Len(<<m>>), s)
  BY <1>3, <1>5, <1>6, HasPrefixAndRest, Zenon
<1>8. at + (1 + Len(s)) = at + 1 + Len(s)
  BY <1>5
<1>9. Byte(c, at) = m
  BY <1>7, HasOneByte
<1>10. HasBytes(c, at + 1, s) /\ HasBytes(c, at + 1 + Len(s), d)
  BY <1>5, <1>6, <1>7, <1>8, Zenon
<1>11. Len(RMBytes(field, o)) = 1 + Len(s) + Len(d)
  BY <1>4, <1>5, Zenon
<1> USE DEF s, d, m
<1>12. Byte(c, at) = Fields(EncodeRM(o).mod, field, EncodeRM(o).rm)
  BY <1>9
<1> HIDE DEF s, d, m
<1>13. High(Byte(c, at)) = EncodeRM(o).mod /\ Middle(Byte(c, at)) = field
       /\ Low(Byte(c, at)) = EncodeRM(o).rm
  BY <1>2, <1>9, Zenon
<1> QED BY <1>10, <1>11, <1>12, <1>13, Zenon DEF s, d

(* An encoded register operand is read as that register.                    *)
LEMMA ReadRegister ==
  ASSUME NEW c, NEW p, NEW at \in Int, NEW size, NEW o, IsRegOperand(o), NEW field \in Bits3,
         p.b = 8 * EncodeRM(o).b, HasBytes(c, at, RMBytes(field, o))
  PROVE  /\ ModRM(c, p, at, size).next = at + Len(RMBytes(field, o))
         /\ ModRM(c, p, at, size).field = field
         /\ ModRM(c, p, at, size).reg = RegOf(p, size, field + p.r)
         /\ ModRM(c, p, at, size).rm = RegOf(p, size, o.reg)
<1>1. IsRMOperand(o)
  BY DEF IsRegOperand, IsRMOperand, IsRM
<1>2. EncodeRM(o).mod = 3 /\ EncodeRM(o).rm = o.reg % 8 /\ EncodeRM(o).sib = <<>>
      /\ EncodeRM(o).disp = <<>> /\ o.reg \in 0..15 /\ EncodeRM(o).b = IF o.reg >= 8 THEN 1 ELSE 0
  BY Register
<1>3. /\ High(Byte(c, at)) = 3 /\ Middle(Byte(c, at)) = field
      /\ Low(Byte(c, at)) = o.reg % 8
      /\ Len(RMBytes(field, o)) = 1
  <2>1. Len(RMBytes(field, o)) = 1 + Len(EncodeRM(o).sib) + Len(EncodeRM(o).disp)
    BY <1>1, HasRMBytes, Zenon
  <2>2. Len(<<>>) = 0
    OBVIOUS
  <2>3. Len(RMBytes(field, o)) = 1 + 0 + 0
    BY <1>2, <2>1, <2>2, Zenon
  <2>4. /\ High(Byte(c, at)) = EncodeRM(o).mod /\ Middle(Byte(c, at)) = field
        /\ Low(Byte(c, at)) = EncodeRM(o).rm
    BY <1>1, HasRMBytes, Zenon
  <2> QED BY <1>2, <2>3, <2>4
<1>4. (o.reg % 8) + p.b = o.reg
  BY <1>2
<1> QED BY <1>3, <1>4 DEF ModRM

(* What Mod and R/M say of a memory operand; none of them means rip or a    *)
(* register.                                                                *)
LEMMA MemoryFields ==
  ASSUME NEW o, IsMem(o), IsOperand(o)
  PROVE  /\ EncodeRM(o).mod \in Bits2 /\ EncodeRM(o).mod # 3 /\ EncodeRM(o).rm \in Bits3
         /\ EncodeRM(o).rm = 4 <=> RequiresSIB(o)
         /\ EncodeRM(o).mod = 1 <=> o.base # 255 /\ RequiredDispSize(o) = 1
         /\ EncodeRM(o).mod = 2 <=> o.base # 255 /\ RequiredDispSize(o) = 4
         /\ EncodeRM(o).mod = 0 => o.base = 255 \/ o.base % 8 # 5
         /\ RequiredDispSize(o) \in {0, 1, 4} /\ (RequiredDispSize(o) = 0 => o.disp = 0 /\ o.base # 255)
         /\ o.base = 255 => RequiredDispSize(o) = 4 /\ EncodeRM(o).mod = 0 /\ RequiresSIB(o)
  BY Memory, MemoryEncoding DEF Bits2, Bits3

(* The SIB byte by fields.                                                  *)
LEMMA MemorySIBFields ==
  ASSUME NEW o, IsMem(o), IsOperand(o)
  PROVE  /\ Low(SIBByte(o)) = IF o.base = 255 THEN 5 ELSE o.base % 8
         /\ Middle(SIBByte(o)) = IF o.index = 255 THEN 4 ELSE o.index % 8
         /\ High(SIBByte(o)) = IF o.index = 255 THEN 0 ELSE o.scale
<1> DEFINE scale == IF o.index = 255 THEN 0 ELSE o.scale
           index == IF o.index = 255 THEN 4 ELSE o.index % 8
           base == IF o.base = 255 THEN 5 ELSE o.base % 8
<1>1. SIBByte(o) = Fields(scale, index, base)
  BY DEF SIBByte
<1>2. scale \in Bits2 /\ index \in Bits3 /\ base \in Bits3
  BY Memory DEF Bits2, Bits3
<1> HIDE DEF scale, index, base
<1>3. Low(SIBByte(o)) = base /\ Middle(SIBByte(o)) = index /\ High(SIBByte(o)) = scale
  BY <1>1, <1>2, ThreeFields
<1> QED BY <1>3 DEF scale, index, base

(* An encoded displacement is read back.                                    *)
LEMMA ReadDisp ==
  ASSUME NEW c, NEW at \in Int, NEW v \in Int32
  PROVE  /\ HasBytes(c, at, LowBytes(v, 4)) => Signed32(Bytes(c, at, 4)) = v
         /\ HasBytes(c, at, LowBytes(v, 1)) /\ v \in -128..127 => Signed8(Byte(c, at)) = v
<1>1. v \in Int
  BY Int32IsInt
<1>2. ASSUME HasBytes(c, at, LowBytes(v, 4)) PROVE Signed32(Bytes(c, at, 4)) = v
  <2>1. Len(LowBytes(v, 4)) = 4 /\ LowBytes(v, 4) = [k \in 1..4 |-> LowBytes(v, 4)[k]]
    BY <1>1, LowBytesLen DEF LowBytes
  <2>2. \A k \in 1..4 : Byte(c, at + k - 1) = LowBytes(v, 4)[k]
    BY <1>2, <2>1, Zenon DEF HasBytes
  <2>3. Bytes(c, at, 4) = [k \in 1..4 |-> LowBytes(v, 4)[k]]
    BY <2>2 DEF Bytes
  <2> QED BY <2>1, <2>3, SignedOfLowBytes, Zenon
<1>3. ASSUME HasBytes(c, at, LowBytes(v, 1)), v \in -128..127 PROVE Signed8(Byte(c, at)) = v
  <2>1. LowBytes(v, 1) = <<v % 256>>
    BY <1>1, LowBytesAre, SMT
  <2>2. Byte(c, at) = v % 256
    BY <1>3, <2>1, HasOneByte
  <2> QED BY <1>3, <2>2, SignedOfLowBytes
<1> QED BY <1>2, <1>3

(* What the decoder reads of a memory operand without a SIB byte.           *)
LEMMA ReadPlainMemory ==
  ASSUME NEW c, NEW p, NEW at \in Int, NEW size, Low(Byte(c, at)) # 4
  PROVE  /\ High(Byte(c, at)) = 0 /\ Low(Byte(c, at)) # 5 =>
               ModRM(c, p, at, size).rm = Mem(size, Low(Byte(c, at)) + p.b, NoReg, 0, 0)
         /\ High(Byte(c, at)) = 1 =>
               ModRM(c, p, at, size).rm
                 = Mem(size, Low(Byte(c, at)) + p.b, NoReg, 0, Signed8(Byte(c, at + 1)))
         /\ High(Byte(c, at)) = 2 =>
               ModRM(c, p, at, size).rm
                 = Mem(size, Low(Byte(c, at)) + p.b, NoReg, 0, Signed32(Bytes(c, at + 1, 4)))
<1>1. ASSUME High(Byte(c, at)) = 0, Low(Byte(c, at)) # 5
      PROVE  ModRM(c, p, at, size).rm
               = Mem(size, Low(Byte(c, at)) + p.b, NoReg, 0, 0)
  BY <1>1 DEF ModRM
<1>2. ASSUME High(Byte(c, at)) = 1
      PROVE  ModRM(c, p, at, size).rm
               = Mem(size, Low(Byte(c, at)) + p.b, NoReg, 0, Signed8(Byte(c, at + 1)))
  BY <1>2 DEF ModRM
<1>3. ASSUME High(Byte(c, at)) = 2
      PROVE  ModRM(c, p, at, size).rm
               = Mem(size, Low(Byte(c, at)) + p.b, NoReg, 0, Signed32(Bytes(c, at + 1, 4)))
  BY <1>3 DEF ModRM
<1> QED BY <1>1, <1>2, <1>3

IndexRead(c, p, at) == IF Middle(Byte(c, at + 1)) + p.x = 4 THEN NoReg ELSE Middle(Byte(c, at + 1)) + p.x
ScaleRead(c, p, at) == IF Middle(Byte(c, at + 1)) + p.x = 4 THEN 0 ELSE High(Byte(c, at + 1))

(* What it reads of one with a SIB byte.                                    *)
LEMMA ReadMemoryWithSIB ==
  ASSUME NEW c, NEW p, NEW at \in Int, NEW size, Low(Byte(c, at)) = 4
  PROVE  /\ High(Byte(c, at)) = 0 /\ Low(Byte(c, at + 1)) = 5 =>
               ModRM(c, p, at, size).rm
                 = Mem(size, NoReg,
                       IndexRead(c, p, at), ScaleRead(c, p, at), Signed32(Bytes(c, at + 2, 4)))
         /\ High(Byte(c, at)) = 0 /\ Low(Byte(c, at + 1)) # 5 =>
               ModRM(c, p, at, size).rm
                 = Mem(size, Low(Byte(c, at + 1)) + p.b,
                       IndexRead(c, p, at), ScaleRead(c, p, at), 0)
         /\ High(Byte(c, at)) = 1 =>
               ModRM(c, p, at, size).rm
                 = Mem(size, Low(Byte(c, at + 1)) + p.b,
                       IndexRead(c, p, at), ScaleRead(c, p, at), Signed8(Byte(c, at + 2)))
         /\ High(Byte(c, at)) = 2 =>
               ModRM(c, p, at, size).rm
                 = Mem(size, Low(Byte(c, at + 1)) + p.b,
                       IndexRead(c, p, at), ScaleRead(c, p, at), Signed32(Bytes(c, at + 2, 4)))
<1>1. ASSUME High(Byte(c, at)) = 0, Low(Byte(c, at + 1)) = 5
      PROVE  ModRM(c, p, at, size).rm
               = Mem(size, NoReg,
                       IndexRead(c, p, at), ScaleRead(c, p, at), Signed32(Bytes(c, at + 2, 4)))
  BY <1>1 DEF ModRM, IndexRead, ScaleRead
<1>2. ASSUME High(Byte(c, at)) = 0, Low(Byte(c, at + 1)) # 5
      PROVE  ModRM(c, p, at, size).rm
               = Mem(size, Low(Byte(c, at + 1)) + p.b,
                       IndexRead(c, p, at), ScaleRead(c, p, at), 0)
  BY <1>2 DEF ModRM, IndexRead, ScaleRead
<1>3. ASSUME High(Byte(c, at)) = 1
      PROVE  ModRM(c, p, at, size).rm
               = Mem(size, Low(Byte(c, at + 1)) + p.b,
                       IndexRead(c, p, at), ScaleRead(c, p, at), Signed8(Byte(c, at + 2)))
  BY <1>3 DEF ModRM, IndexRead, ScaleRead
<1>4. ASSUME High(Byte(c, at)) = 2
      PROVE  ModRM(c, p, at, size).rm
               = Mem(size, Low(Byte(c, at + 1)) + p.b,
                       IndexRead(c, p, at), ScaleRead(c, p, at), Signed32(Bytes(c, at + 2, 4)))
  BY <1>4 DEF ModRM, IndexRead, ScaleRead
<1> QED BY <1>1, <1>2, <1>3, <1>4

(* An encoded memory operand is read as that operand, for every base,       *)
(* index, scale and displacement.                                           *)
LEMMA ReadMemory ==
  ASSUME NEW c, NEW p, NEW at \in Int, NEW size, NEW o, IsMem(o), IsOperand(o), NEW field \in Bits3,
         p.x = 8 * EncodeRM(o).x, p.b = 8 * EncodeRM(o).b, HasBytes(c, at, RMBytes(field, o))
  PROVE  /\ ModRM(c, p, at, size).next = at + Len(RMBytes(field, o))
         /\ ModRM(c, p, at, size).field = field
         /\ ModRM(c, p, at, size).reg = RegOf(p, size, field + p.r)
         /\ ModRM(c, p, at, size).rm = Mem(size, o.base, o.index, o.scale, o.disp)
<1> DEFINE modrm == Byte(c, at)
           sib == Byte(c, at + 1)
           hasSib == RequiresSIB(o)
           dispAt == IF hasSib THEN at + 2 ELSE at + 1
           dispSize == RequiredDispSize(o)
           sibSize == Len(EncodeRM(o).sib)
           length == Len(RMBytes(field, o))
<1>1. IsRMOperand(o)
  BY DEF IsRMOperand, IsRM
<1>2. /\ High(modrm) = EncodeRM(o).mod /\ Middle(modrm) = field /\ Low(modrm) = EncodeRM(o).rm
  BY <1>1, HasRMBytes, Zenon
<1>3. /\ RequiresSIB(o) => EncodeRM(o).sib = <<SIBByte(o)>> /\ Len(EncodeRM(o).sib) = 1
      /\ ~RequiresSIB(o) => EncodeRM(o).sib = <<>> /\ Len(EncodeRM(o).sib) = 0
  <2>1. /\ RequiresSIB(o) => EncodeRM(o).sib = <<SIBByte(o)>>
        /\ ~RequiresSIB(o) => EncodeRM(o).sib = <<>>
    BY MemorySIB
  <2>2. Len(<<SIBByte(o)>>) = 1 /\ Len(<<>>) = 0
    OBVIOUS
  <2> QED BY <2>1, <2>2, Zenon
<1>4. /\ HasBytes(c, at + 1, EncodeRM(o).sib)
      /\ HasBytes(c, at + 1 + Len(EncodeRM(o).sib), EncodeRM(o).disp)
      /\ Len(RMBytes(field, o)) = 1 + Len(EncodeRM(o).sib) + Len(EncodeRM(o).disp)
  BY <1>1, HasRMBytes, Zenon
<1>5. hasSib => sib = SIBByte(o)
  BY <1>3, <1>4, HasOneByte
<1>6. hasSib <=> High(modrm) # 3 /\ Low(modrm) = 4
  BY <1>2, MemoryFields
<1>7. o.base \in 0..15 \cup {255} /\ o.disp \in Int32 /\ o.disp \in Int
  BY Memory, Int32IsInt
<1>8. (hasSib /\ Low(sib) = 5 /\ High(modrm) = 0) <=> o.base = 255
  BY <1>2, <1>5, <1>7, MemoryFields, MemorySIBFields
<1>9. dispSize = IF High(modrm) = 1 THEN 1 ELSE IF High(modrm) = 2 \/ o.base = 255 THEN 4 ELSE 0
  BY <1>2, MemoryFields
<1>10. EncodeRM(o).disp = LowBytes(o.disp, dispSize) /\ Len(LowBytes(o.disp, dispSize)) = dispSize
  <2>1. EncodeRM(o).disp = LowBytes(o.disp, dispSize)
    BY MemoryEncoding, Zenon DEF Disp
  <2>2. dispSize \in {0, 1, 4}
    BY MemoryFields
  <2>3. Len(LowBytes(o.disp, dispSize)) = dispSize
    BY <2>2, LowBytesLen
  <2> QED BY <2>1, <2>3
<1>11. at + 1 + sibSize = dispAt
  <2>1. hasSib => sibSize = 1
    BY <1>3, Zenon
  <2>2. ~hasSib => sibSize = 0
    BY <1>3, Zenon
  <2> HIDE DEF hasSib, sibSize
  <2> QED BY <2>1, <2>2 DEF hasSib
<1>12. /\ dispSize = 1 => Signed8(Byte(c, dispAt)) = o.disp
       /\ dispSize = 4 => Signed32(Bytes(c, dispAt, 4)) = o.disp
       /\ dispSize = 0 => o.disp = 0
  <2>1. HasBytes(c, dispAt, LowBytes(o.disp, dispSize))
    BY <1>4, <1>10, <1>11, Zenon
  <2>2. dispSize = 1 => o.disp \in -128..127
    BY MemoryEncoding
  <2>3. dispAt \in Int
    OBVIOUS
  <2> QED BY <1>7, <2>1, <2>2, <2>3, ReadDisp, MemoryFields
<1>13. dispAt + dispSize = at + length
  <2>1. length = 1 + sibSize + dispSize /\ at + 1 + sibSize = dispAt
    BY <1>4, <1>10, <1>11, Zenon
  <2>2. sibSize \in {0, 1}
    BY <1>3, Zenon
  <2>3. dispSize \in {0, 1, 4}
    BY MemoryFields
  <2> HIDE DEF dispAt, dispSize, sibSize, length
  <2> QED BY <2>1, <2>2, <2>3
<1>14. (IF o.base = 255 THEN NoReg ELSE (IF hasSib THEN Low(sib) ELSE Low(modrm)) + p.b) = o.base
  BY <1>2, <1>5, <1>7, MemoryEncoding, MemorySIBFields DEF NoReg
<1>15. /\ (hasSib /\ Middle(sib) + p.x # 4) <=> o.index # 255
       /\ o.index # 255 => Middle(sib) + p.x = o.index /\ High(sib) = o.scale
       /\ o.index = 255 => o.scale = 0
  BY <1>5, Memory, MemoryEncoding, MemorySIBFields
<1>16. ~(High(modrm) = 0 /\ Low(modrm) = 5)
  BY <1>2, <1>7, MemoryFields, MemoryEncoding
<1> DEFINE m == ModRM(c, p, at, size)
<1> HIDE DEF dispSize, hasSib, sib, modrm
<1>17. /\ m.field = field /\ m.reg = RegOf(p, size, field + p.r)
  BY <1>2 DEF ModRM, modrm
<1>18. m.next = dispAt + dispSize
  BY <1>6, <1>8, <1>9 DEF ModRM, modrm, sib
<1>19. m.rm = Mem(size, o.base, o.index, o.scale, o.disp)
  <2>1. High(modrm) # 3 /\ High(modrm) \in {0, 1, 2}
    BY <1>2, MemoryFields DEF Bits2
  <2>2. CASE ~hasSib
    <3>1. Low(modrm) # 4 /\ o.base # 255 /\ o.index = 255 /\ o.scale = 0 /\ Low(modrm) + p.b = o.base
      BY <1>6, <1>14, <1>15, <2>1, <2>2, MemoryFields DEF hasSib
    <3>2. /\ High(modrm) = 1 => Signed8(Byte(c, at + 1)) = o.disp
          /\ High(modrm) = 2 => Signed32(Bytes(c, at + 1, 4)) = o.disp
          /\ High(modrm) = 0 => o.disp = 0
      BY <1>9, <1>12, <2>1, <2>2, <3>1
    <3> HIDE DEF dispAt
    <3>3. m.rm = Mem(size, o.base, NoReg, 0, o.disp)
      BY <1>16, <2>1, <3>1, <3>2, ReadPlainMemory DEF modrm
    <3> QED BY <3>1, <3>3 DEF NoReg
  <2>3. CASE hasSib
    <3>1. Low(modrm) = 4 /\ dispAt = at + 2
      BY <1>6, <2>3
    <3>2. IndexRead(c, p, at) = o.index /\ ScaleRead(c, p, at) = o.scale
      BY <1>15, <2>3 DEF IndexRead, ScaleRead, sib, NoReg
    <3>3. /\ o.base = 255 => High(modrm) = 0 /\ Low(sib) = 5
          /\ o.base # 255 => Low(sib) + p.b = o.base /\ (High(modrm) = 0 => Low(sib) # 5)
      BY <1>8, <1>14, <2>3
    <3>4. /\ High(modrm) = 1 /\ o.base # 255 => Signed8(Byte(c, at + 2)) = o.disp
          /\ High(modrm) = 2 \/ o.base = 255 => Signed32(Bytes(c, at + 2, 4)) = o.disp
          /\ High(modrm) = 0 /\ o.base # 255 => o.disp = 0
      BY <1>9, <1>12, <2>1, <3>1, <3>3
    <3> HIDE DEF dispAt
    <3>5. CASE o.base = 255
      BY <3>1, <3>2, <3>3, <3>4, <3>5, ReadMemoryWithSIB DEF modrm, sib, NoReg
    <3>6. CASE o.base # 255
      BY <2>1, <3>1, <3>2, <3>3, <3>4, <3>6, ReadMemoryWithSIB DEF modrm, sib
    <3> QED BY <3>5, <3>6
  <2> QED BY <2>2, <2>3
<1> QED BY <1>13, <1>17, <1>18, <1>19

-----------------------------------------------------------------------------
(* Forms: their prefixes, opcode, operands and immediate as the decoder     *)
(* reads them.                                                              *)

RexW(f) == IF f.size = 8 THEN 1 ELSE 0
RexR(f) == IF IsReg(f.field) /\ f.field.reg >= 8 THEN 1 ELSE 0
RexX(f) == IF f.rm # None THEN EncodeRM(f.rm).x ELSE 0
RexB(f) == IF f.rm # None THEN EncodeRM(f.rm).b
           ELSE IF f.inOpcode # None /\ f.inOpcode.reg >= 8 THEN 1 ELSE 0
RexByte(f) == 64 + 8 * RexW(f) + 4 * RexR(f) + 2 * RexX(f) + RexB(f)

(* The REX prefix is written when a 64-bit operand or a register asks for   *)
(* it.                                                                      *)
LEMMA RexEncoded ==
  ASSUME NEW f
  PROVE  /\ HasREX(f) => EncodeREX(f) = <<RexByte(f)>>
         /\ ~HasREX(f) => EncodeREX(f) = <<>>
  BY DEF HasREX, EncodeREX, RexByte, RexW, RexR, RexX, RexB

(* Its bits are bits.                                                       *)
LEMMA RexRange ==
  ASSUME NEW f, IsForm(f)
  PROVE  RexW(f) \in {0, 1} /\ RexR(f) \in {0, 1} /\ RexX(f) \in {0, 1} /\ RexB(f) \in {0, 1}
<1>1. RexW(f) \in {0, 1} /\ RexR(f) \in {0, 1}
  BY DEF RexW, RexR
<1>2. RexX(f) \in {0, 1} /\ RexB(f) \in {0, 1}
  <2>1. CASE f.rm = None
    BY <2>1 DEF RexX, RexB
  <2>2. CASE f.rm # None
    <3>1. IsRMOperand(f.rm)
      BY <2>2 DEF IsForm
    <3>2. 0 \in Bits3
      BY DEF Bits3
    <3>3. EncodeRM(f.rm).x \in {0, 1} /\ EncodeRM(f.rm).b \in {0, 1}
      BY <3>1, <3>2, RMBytesOf
    <3> QED BY <2>2, <3>3 DEF RexX, RexB
  <2> QED BY <2>1, <2>2
<1> QED BY <1>1, <1>2

(* What asks for a REX prefix is asked whether it needs one.                *)
LEMMA NoRexNoBits ==
  ASSUME NEW f, IsForm(f), ~HasREX(f)
  PROVE  RexW(f) = 0 /\ RexR(f) = 0 /\ RexX(f) = 0 /\ RexB(f) = 0
<1>1. RexW(f) = 0
  BY DEF HasREX, RexW
<1>2. \A o \in f.rex : ~RequiresREX(o)
  BY DEF HasREX
<1>3. RexR(f) = 0
  <2>1. SUFFICES ASSUME IsReg(f.field) PROVE ~(f.field.reg >= 8)
    BY DEF RexR
  <2>2. IsRegOperand(f.field) /\ f.field \in f.rex
    BY <2>1 DEF IsForm, IsReg, None
  <2>3. ~RequiresREX(f.field)
    BY <1>2, <2>2
  <2> QED BY <2>2, <2>3, Register
<1>4. RexX(f) = 0 /\ RexB(f) = 0
  <2>1. CASE f.rm # None
    <3>1. IsRMOperand(f.rm) /\ ~RequiresREX(f.rm)
      BY <1>2, <2>1 DEF IsForm
    <3>2. EncodeRM(f.rm).x = 0 /\ EncodeRM(f.rm).b = 0
      <4>1. CASE IsReg(f.rm)
        BY <3>1, <4>1, Register DEF IsRMOperand, IsRegOperand
      <4>2. CASE IsMem(f.rm)
        BY <3>1, <4>2, MemoryEncoding DEF IsRMOperand
      <4> QED BY <3>1, <4>1, <4>2 DEF IsRMOperand, IsRM
    <3> QED BY <2>1, <3>2 DEF RexX, RexB
  <2>2. CASE f.rm = None /\ f.inOpcode # None
    <3>1. IsRegOperand(f.inOpcode) /\ ~RequiresREX(f.inOpcode)
      BY <1>2, <2>2 DEF IsForm
    <3>2. ~(f.inOpcode.reg >= 8)
      BY <3>1, Register
    <3> QED BY <2>2, <3>2 DEF RexX, RexB
  <2>3. CASE f.rm = None /\ f.inOpcode = None
    BY <2>3 DEF RexX, RexB
  <2> QED BY <2>1, <2>2, <2>3
<1> QED BY <1>1, <1>3, <1>4

(* No opcode of the encoder looks like a prefix.                            *)
LEMMA FirstOpcodeByte ==
  ASSUME NEW f, IsForm(f)
  PROVE  /\ OpcodeBytes(f) \in Seq(Int) /\ Len(OpcodeBytes(f)) >= 1
         /\ OpcodeBytes(f)[1] # 102 /\ OpcodeBytes(f)[1] \div 16 # 4
<1>1. CASE f.inOpcode = None
  <2>1. OpcodeBytes(f) = f.opcode
    BY <1>1 DEF OpcodeBytes
  <2>2. f.opcode \in Seq(0..255) /\ f.opcode # <<>> /\ f.opcode[1] # 102 /\ f.opcode[1] \div 16 # 4
    BY DEF IsForm
  <2>3. f.opcode \in Seq(Int)
    BY <2>2, BytesAreInts
  <2>4. Len(f.opcode) >= 1
    BY <2>2, <2>3
  <2> QED BY <2>1, <2>2, <2>3, <2>4
<1>2. CASE f.inOpcode # None
  <2>1. f.opcode[1] \in {80, 88, 176, 184} /\ f.inOpcode.reg \in 0..15
    BY <1>2, Register DEF IsForm
  <2>2. OpcodeBytes(f) = <<f.opcode[1] + (f.inOpcode.reg % 8)>>
    BY <1>2 DEF OpcodeBytes
  <2>3. f.opcode[1] + (f.inOpcode.reg % 8) \in 80..95 \cup 176..191
    BY <2>1
  <2> DEFINE b == f.opcode[1] + (f.inOpcode.reg % 8)
  <2> HIDE DEF b
  <2>4. b \in Int /\ b # 102 /\ b \div 16 # 4
    BY <2>3 DEF b
  <2>5. OpcodeBytes(f) = <<b>>
    BY <2>2 DEF b
  <2> QED BY <1>2, <2>4, <2>5
<1> QED BY <1>1, <1>2

(* The reg field has three bits.                                            *)
LEMMA FieldBits ==
  ASSUME NEW f, IsForm(f)
  PROVE  Field(f) \in Bits3
<1>1. CASE f.field = None
  <2>1. Field(f) = 0
    BY <1>1 DEF Field, IsReg, None
  <2> QED BY <2>1 DEF Bits3
<1>2. CASE f.field # None /\ f.field.kind = "ext" /\ f.field.n \in 0..7
  <2>1. Field(f) = f.field.n
    BY <1>2 DEF Field, IsReg
  <2> QED BY <1>2, <2>1 DEF Bits3
<1>3. CASE IsRegOperand(f.field)
  <2>1. f.field.reg \in 0..15 /\ IsReg(f.field)
    BY <1>3, Register DEF IsRegOperand
  <2>2. Field(f) = f.field.reg % 8
    BY <2>1 DEF Field
  <2> QED BY <2>1, <2>2 DEF Bits3
<1> QED BY <1>1, <1>2, <1>3 DEF IsForm

(* The parts of an encoding are sequences of numbers.                       *)
LEMMA PartsAreSeqs ==
  ASSUME NEW f, IsForm(f)
  PROVE  /\ EncodeOperandSize(f) \in Seq(Int) /\ EncodeREX(f) \in Seq(Int)
         /\ ModRMBytes(f) \in Seq(Int) /\ ImmBytes(f) \in Seq(Int)
<1>1. EncodeOperandSize(f) \in Seq(Int)
  BY DEF EncodeOperandSize
<1>2. EncodeREX(f) \in Seq(Int)
  <2>1. RexByte(f) \in Int
    BY RexRange DEF RexByte
  <2>2. EncodeREX(f) = <<RexByte(f)>> \/ EncodeREX(f) = <<>>
    BY RexEncoded
  <2>3. <<RexByte(f)>> \in Seq(Int) /\ <<>> \in Seq(Int)
    BY <2>1
  <2> QED BY <2>2, <2>3, Zenon
<1>3. ModRMBytes(f) \in Seq(Int)
  <2>1. CASE f.rm = None
    BY <2>1 DEF ModRMBytes
  <2>2. CASE f.rm # None
    <3>1. IsRMOperand(f.rm) /\ Field(f) \in Bits3
      <4>1. IsRMOperand(f.rm)
        BY <2>2 DEF IsForm
      <4>2. Field(f) \in Bits3
        BY FieldBits
      <4> QED BY <4>1, <4>2
    <3>2. ModRMBytes(f) = RMBytes(Field(f), f.rm)
      BY <2>2, Zenon DEF ModRMBytes, RMBytes
    <3>3. RMBytes(Field(f), f.rm) \in Seq(0..255)
      BY <3>1, RMBytesOf
    <3> QED BY <3>2, <3>3, BytesAreInts
  <2> QED BY <2>1, <2>2
<1>4. ImmBytes(f) \in Seq(Int)
  <2>1. CASE f.imm = None
    BY <2>1 DEF ImmBytes
  <2>2. CASE f.imm # None
    <3>1. f.imm.bytes \in Seq(0..255)
      BY <2>2 DEF IsForm, IsImmOperand, IsOperand, IsImm, IsReg, IsMem
    <3> QED BY <2>2, <3>1, BytesAreInts DEF ImmBytes
  <2> QED BY <2>1, <2>2
<1> QED BY <1>1, <1>2, <1>3, <1>4

PrefixLength(f) == Len(EncodeOperandSize(f)) + Len(EncodeREX(f))
(* Where the parts of an encoding lie.                                      *)
LEMMA HasParts ==
  ASSUME NEW f, IsForm(f), NEW c, NEW at \in Int, HasBytes(c, at, Assemble(f))
  PROVE  /\ HasBytes(c, at, EncodeOperandSize(f))
         /\ HasBytes(c, at + Len(EncodeOperandSize(f)), EncodeREX(f))
         /\ HasBytes(c, at + PrefixLength(f), OpcodeBytes(f))
         /\ HasBytes(c, at + PrefixLength(f) + Len(OpcodeBytes(f)), ModRMBytes(f))
         /\ HasBytes(c, at + PrefixLength(f) + Len(OpcodeBytes(f)) + Len(ModRMBytes(f)), ImmBytes(f))
         /\ Len(Assemble(f)) = PrefixLength(f) + Len(OpcodeBytes(f)) + Len(ModRMBytes(f)) + Len(ImmBytes(f))
<1> DEFINE a1 == EncodeOperandSize(f)
           a2 == EncodeREX(f)
           a3 == OpcodeBytes(f)
           a4 == ModRMBytes(f)
           a5 == ImmBytes(f)
           s2 == a1 \o a2
           s3 == s2 \o a3
           s4 == s3 \o a4
<1>1. Assemble(f) = s4 \o a5
  BY AssembledParts
<1>2. a1 \in Seq(Int) /\ a2 \in Seq(Int) /\ a3 \in Seq(Int) /\ a4 \in Seq(Int) /\ a5 \in Seq(Int)
  BY PartsAreSeqs, FirstOpcodeByte
<1> HIDE DEF a1, a2, a3, a4, a5
<1>3. s2 \in Seq(Int) /\ s3 \in Seq(Int) /\ s4 \in Seq(Int)
  BY <1>2
<1>4. /\ Len(s2) = Len(a1) + Len(a2) /\ Len(s3) = Len(s2) + Len(a3) /\ Len(s4) = Len(s3) + Len(a4)
      /\ Len(s4 \o a5) = Len(s4) + Len(a5)
  BY <1>2, <1>3
<1> HIDE DEF s2, s3, s4
<1>5. HasBytes(c, at, s4) /\ HasBytes(c, at + Len(s4), a5)
  BY <1>1, <1>2, <1>3, HasPrefixAndRest, Zenon
<1>6. HasBytes(c, at, s3) /\ HasBytes(c, at + Len(s3), a4)
  BY <1>2, <1>3, <1>5, HasPrefixAndRest, Zenon DEF s4
<1>7. HasBytes(c, at, s2) /\ HasBytes(c, at + Len(s2), a3)
  BY <1>2, <1>3, <1>6, HasPrefixAndRest, Zenon DEF s3
<1>8. HasBytes(c, at, a1) /\ HasBytes(c, at + Len(a1), a2)
  BY <1>2, <1>3, <1>7, HasPrefixAndRest, Zenon DEF s2
<1>9. PrefixLength(f) = Len(a1) + Len(a2)
  BY DEF PrefixLength, a1, a2
<1>10. Len(a1) \in Int /\ Len(a2) \in Int /\ Len(a3) \in Int /\ Len(a4) \in Int /\ Len(a5) \in Int
  BY <1>2
<1>11. /\ at + Len(s2) = at + PrefixLength(f) /\ at + Len(s3) = at + PrefixLength(f) + Len(a3)
       /\ at + Len(s4) = at + PrefixLength(f) + Len(a3) + Len(a4)
       /\ Len(s4 \o a5) = PrefixLength(f) + Len(a3) + Len(a4) + Len(a5)
  BY <1>4, <1>9, <1>10
<1> QED BY <1>1, <1>5, <1>6, <1>7, <1>8, <1>11, Zenon DEF a1, a2, a3, a4, a5

(* The prefixes of an encoding are read as size and extension bits of the   *)
(* form.                                                                    *)
LEMMA ReadPrefixesOf ==
  ASSUME NEW f, IsForm(f), NEW c, NEW at \in Int, HasBytes(c, at, Assemble(f)),
         NEW p, p = ReadPrefixes(c, at)
  PROVE  /\ p.opcodeAt = at + PrefixLength(f)
         /\ p.size = IF f.size = 8 THEN 8 ELSE IF f.size = 2 THEN 2 ELSE 4
         /\ p.rex \in {0, 1} /\ (p.rex = 1 <=> HasREX(f))
         /\ p.r = 8 * RexR(f) /\ p.x = 8 * RexX(f) /\ p.b = 8 * RexB(f)
<1> DEFINE n1 == Len(EncodeOperandSize(f))
           n2 == Len(EncodeREX(f))
<1>1. /\ f.size = 2 => EncodeOperandSize(f) = <<102>>
      /\ f.size # 2 => EncodeOperandSize(f) = <<>>
  BY DEF EncodeOperandSize
<1>2. /\ f.size = 2 => n1 = 1
      /\ f.size # 2 => n1 = 0
  <2>1. Len(<<102>>) = 1 /\ Len(<<>>) = 0
    OBVIOUS
  <2> QED BY <1>1, <2>1, Zenon
<1>3. /\ HasREX(f) => EncodeREX(f) = <<RexByte(f)>> /\ n2 = 1
      /\ ~HasREX(f) => n2 = 0
  <2>1. Len(<<RexByte(f)>>) = 1 /\ Len(<<>>) = 0
    OBVIOUS
  <2> QED BY <2>1, RexEncoded, Zenon
<1>4. at + n1 \in Int /\ at + PrefixLength(f) = at + n1 + n2 /\ n1 \in {0, 1} /\ n2 \in {0, 1}
  <2>1. n1 \in {0, 1} /\ n2 \in {0, 1}
    BY <1>2, <1>3, Zenon
  <2>2. PrefixLength(f) = n1 + n2
    BY DEF PrefixLength
  <2> HIDE DEF n1, n2
  <2> QED BY <2>1, <2>2
<1>5. Byte(c, at + PrefixLength(f)) = OpcodeBytes(f)[1]
  <2>1. HasBytes(c, at + PrefixLength(f), OpcodeBytes(f))
    BY HasParts
  <2>2. Len(OpcodeBytes(f)) >= 1 /\ Len(OpcodeBytes(f)) \in Int
    BY FirstOpcodeByte
  <2>3. 1 \in 1..Len(OpcodeBytes(f))
    BY <2>2
  <2>4. at + PrefixLength(f) + 1 - 1 = at + PrefixLength(f)
    BY <1>4
  <2> QED BY <2>1, <2>3, <2>4, Zenon DEF HasBytes
<1>6. OpcodeBytes(f)[1] # 102 /\ OpcodeBytes(f)[1] \div 16 # 4
  BY FirstOpcodeByte
<1>7. HasREX(f) => Byte(c, at + n1) = RexByte(f)
  <2>1. HasBytes(c, at + n1, EncodeREX(f))
    BY HasParts
  <2> QED BY <1>3, <1>4, <2>1, HasOneByte, Zenon
<1>8. /\ RexByte(f) # 102 /\ RexByte(f) \div 16 = 4 /\ (RexByte(f) \div 8) % 2 = RexW(f)
      /\ (RexByte(f) \div 4) % 2 = RexR(f) /\ (RexByte(f) \div 2) % 2 = RexX(f)
      /\ (RexByte(f) \div 1) % 2 = RexB(f)
  <2> DEFINE w == RexW(f)
             r == RexR(f)
             x == RexX(f)
             b == RexB(f)
             v == RexByte(f)
  <2>1. w \in {0, 1} /\ r \in {0, 1} /\ x \in {0, 1} /\ b \in {0, 1}
    BY RexRange
  <2>2. v = 64 + 8 * w + 4 * r + 2 * x + b
    BY DEF RexByte
  <2> HIDE DEF w, r, x, b, v
  <2>3. /\ v # 102 /\ v \div 16 = 4 /\ (v \div 8) % 2 = w
        /\ (v \div 4) % 2 = r /\ (v \div 2) % 2 = x /\ (v \div 1) % 2 = b
    <3>1. /\ w = 0 \/ w = 1
          /\ r = 0 \/ r = 1
          /\ x = 0 \/ x = 1
          /\ b = 0 \/ b = 1
      BY <2>1
    <3> QED BY <2>2, <3>1, SMT
  <2> QED BY <2>3 DEF w, r, x, b, v
<1>9. Byte(c, at) = 102 <=> f.size = 2
  <2>1. CASE f.size = 2
    <3>1. HasBytes(c, at, <<102>>)
      BY <1>1, <2>1, HasParts
    <3> QED BY <2>1, <3>1, HasOneByte
  <2>2. CASE f.size # 2
    <3>1. at + n1 = at
      BY <1>2, <2>2
    <3> QED BY <1>3, <1>4, <1>5, <1>6, <1>7, <1>8, <2>2, <3>1
  <2> QED BY <2>1, <2>2
<1> DEFINE rexAt == IF Byte(c, at) = 102 THEN at + 1 ELSE at
<1>10. rexAt = at + n1
  <2> HIDE DEF n1
  <2> QED BY <1>2, <1>9
<1>11. CASE HasREX(f)
  <2>1. Byte(c, rexAt) = RexByte(f) /\ n2 = 1
    BY <1>3, <1>7, <1>10, <1>11
  <2> HIDE DEF rexAt, n1, n2
  <2>2. p = [size |-> IF RexW(f) = 1 THEN 8 ELSE IF f.size = 2 THEN 2 ELSE 4, rex |-> 1,
             r |-> 8 * (IF RexR(f) = 1 THEN 1 ELSE 0), x |-> 8 * (IF RexX(f) = 1 THEN 1 ELSE 0),
             b |-> 8 * (IF RexB(f) = 1 THEN 1 ELSE 0), opcodeAt |-> rexAt + 1]
    BY <1>8, <1>9, <2>1 DEF ReadPrefixes, rexAt
  <2> QED BY <1>4, <1>10, <1>11, <2>1, <2>2, RexRange DEF RexW
<1>12. CASE ~HasREX(f)
  <2>1. rexAt = at + PrefixLength(f)
    <3>1. n2 = 0
      BY <1>3, <1>12
    <3> HIDE DEF rexAt, n1, n2
    <3> QED BY <1>4, <1>10, <3>1
  <2>2. Byte(c, rexAt) \div 16 # 4
    BY <1>5, <1>6, <2>1
  <2> HIDE DEF rexAt, n1, n2
  <2>3. p = [size |-> IF f.size = 2 THEN 2 ELSE 4, rex |-> 0, r |-> 0, x |-> 0, b |-> 0,
             opcodeAt |-> rexAt]
    BY <1>9, <2>2 DEF ReadPrefixes, rexAt
  <2>4. RexW(f) = 0 /\ RexR(f) = 0 /\ RexX(f) = 0 /\ RexB(f) = 0
    BY <1>12, NoRexNoBits
  <2> QED BY <1>12, <2>1, <2>3, <2>4 DEF RexW
<1> QED BY <1>11, <1>12

ModRMAt(f, c, at) == ReadPrefixes(c, at).opcodeAt + Len(OpcodeBytes(f))
ReadModRM(f, c, at, size) == ModRM(c, ReadPrefixes(c, at), ModRMAt(f, c, at), size)

(* The ModRM operands of a form are read back.                              *)
LEMMA ReadFormOperands ==
  ASSUME NEW f, IsForm(f), f.rm # None, NEW c, NEW at \in Int, HasBytes(c, at, Assemble(f)), NEW size
  PROVE  /\ ReadModRM(f, c, at, size).next = ModRMAt(f, c, at) + Len(ModRMBytes(f))
         /\ ReadModRM(f, c, at, size).field = Field(f)
         /\ f.rm.size = size => ReadModRM(f, c, at, size).rm = f.rm
         /\ IsReg(f.field) /\ f.field.size = size => ReadModRM(f, c, at, size).reg = f.field
<1> DEFINE p == ReadPrefixes(c, at)
           q == ModRMAt(f, c, at)
           m == ReadModRM(f, c, at, size)
<1>0. q = p.opcodeAt + Len(OpcodeBytes(f)) /\ m = ModRM(c, p, q, size) /\ p = ReadPrefixes(c, at)
  BY DEF ModRMAt, ReadModRM
<1> HIDE DEF p, q, m
<1>1. IsRMOperand(f.rm) /\ f.rm \in f.rex
  BY DEF IsForm
<1>2. /\ p.opcodeAt = at + PrefixLength(f) /\ p.rex \in {0, 1} /\ (p.rex = 1 <=> HasREX(f))
      /\ p.r = 8 * RexR(f) /\ p.x = 8 * RexX(f) /\ p.b = 8 * RexB(f)
  BY <1>0, ReadPrefixesOf
<1>3. Field(f) \in Bits3
  BY FieldBits
<1>4. ModRMBytes(f) = RMBytes(Field(f), f.rm)
  BY Zenon DEF ModRMBytes, RMBytes
<1>5. HasBytes(c, q, RMBytes(Field(f), f.rm)) /\ q \in Int
  <2>1. HasBytes(c, at + PrefixLength(f) + Len(OpcodeBytes(f)), ModRMBytes(f))
    BY HasParts
  <2>2. at + PrefixLength(f) + Len(OpcodeBytes(f)) = q
    BY <1>0, <1>2
  <2>3. q \in Int
    <3>1. OpcodeBytes(f) \in Seq(Int) /\ EncodeOperandSize(f) \in Seq(Int) /\ EncodeREX(f) \in Seq(Int)
      BY FirstOpcodeByte, PartsAreSeqs
    <3>2. Len(OpcodeBytes(f)) \in Int /\ Len(EncodeOperandSize(f)) \in Int /\ Len(EncodeREX(f)) \in Int
      BY <3>1
    <3> QED BY <2>2, <3>2 DEF PrefixLength
  <2> QED BY <1>4, <2>1, <2>2, <2>3, Zenon
<1>6. p.x = 8 * EncodeRM(f.rm).x /\ p.b = 8 * EncodeRM(f.rm).b
  BY <1>2 DEF RexX, RexB
<1>7. /\ m.next = q + Len(ModRMBytes(f)) /\ m.field = Field(f)
      /\ m.reg = RegOf(p, size, Field(f) + p.r)
      /\ f.rm.size = size => m.rm = f.rm
  <2>1. CASE IsReg(f.rm)
    <3>1. IsRegOperand(f.rm)
      BY <1>1, <2>1 DEF IsRMOperand, IsRegOperand
    <3>2. /\ m.next = q + Len(RMBytes(Field(f), f.rm)) /\ m.field = Field(f)
          /\ m.reg = RegOf(p, size, Field(f) + p.r)
          /\ m.rm = RegOf(p, size, f.rm.reg)
      BY <1>0, <1>3, <1>5, <1>6, <3>1, ReadRegister
    <3>3. RequiresREX(f.rm) => p.rex = 1
      BY <1>1, <1>2 DEF HasREX
    <3>4. f.rm.size = size => m.rm = f.rm
      BY <1>2, <3>1, <3>2, <3>3, RegOfOperand
    <3> QED BY <1>4, <3>2, <3>4, Zenon
  <2>2. CASE IsMem(f.rm)
    <3>1. IsOperand(f.rm)
      BY <1>1 DEF IsRMOperand
    <3>2. /\ m.next = q + Len(RMBytes(Field(f), f.rm)) /\ m.field = Field(f)
          /\ m.reg = RegOf(p, size, Field(f) + p.r)
          /\ m.rm = Mem(size, f.rm.base, f.rm.index, f.rm.scale, f.rm.disp)
      BY <1>0, <1>3, <1>5, <1>6, <2>2, <3>1, ReadMemory
    <3>3. f.rm = Mem(f.rm.size, f.rm.base, f.rm.index, f.rm.scale, f.rm.disp)
      BY <2>2, <3>1 DEF IsOperand, IsReg, IsMem, IsImm
    <3>4. f.rm.size = size => m.rm = f.rm
      BY <3>2, <3>3, Zenon
    <3> QED BY <1>4, <3>2, <3>4, Zenon
  <2> QED BY <1>1, <2>1, <2>2 DEF IsRMOperand, IsRM
<1>8. ASSUME IsReg(f.field), f.field.size = size PROVE m.reg = f.field
  <2>1. IsRegOperand(f.field) /\ f.field \in f.rex
    BY <1>8 DEF IsForm, IsReg, None
  <2>2. RequiresREX(f.field) => p.rex = 1
    BY <1>2, <2>1 DEF HasREX
  <2>3. f.field.reg \in 0..15
    BY <2>1, Register
  <2>4. Field(f) + p.r = f.field.reg
    BY <1>2, <1>8, <2>3 DEF Field, RexR
  <2>5. RegOf(p, f.field.size, f.field.reg) = f.field
    BY <1>2, <2>1, <2>2, RegOfOperand
  <2> QED BY <1>7, <1>8, <2>4, <2>5
<1> QED BY <1>7, <1>8 DEF m, q

(* The immediate of a form is read back.                                    *)
LEMMA ReadFormImm ==
  ASSUME NEW f, IsForm(f), f.imm # None, NEW c, NEW at \in Int, HasBytes(c, at, Assemble(f)),
         NEW p, p = ReadPrefixes(c, at), NEW q, q = p.opcodeAt + Len(OpcodeBytes(f)) + Len(ModRMBytes(f))
  PROVE  Bytes(c, q, f.imm.size) = f.imm.bytes /\ Len(ImmBytes(f)) = f.imm.size
<1>1. f.imm = Value(f.imm.bytes) /\ f.imm.bytes \in Seq(0..255)
  BY DEF IsForm, IsImmOperand, IsOperand, IsImm, IsReg, IsMem
<1>2. f.imm.size = Len(f.imm.bytes) /\ ImmBytes(f) = f.imm.bytes
  BY <1>1 DEF Value, ImmBytes
<1>3. HasBytes(c, q, f.imm.bytes)
  <2>1. p.opcodeAt = at + PrefixLength(f)
    BY ReadPrefixesOf
  <2>2. HasBytes(c, at + PrefixLength(f) + Len(OpcodeBytes(f)) + Len(ModRMBytes(f)), ImmBytes(f))
    BY HasParts
  <2> QED BY <1>2, <2>1, <2>2, Zenon
<1>4. f.imm.bytes \in Seq(Int)
  BY <1>1, BytesAreInts
<1> DEFINE s == f.imm.bytes
<1> HIDE DEF s
<1>5. \A k \in 1..Len(s) : Byte(c, q + k - 1) = s[k]
  BY <1>3, Zenon DEF HasBytes, s
<1>6. s = [k \in 1..Len(s) |-> s[k]]
  <2>1. s \in Seq(Int)
    BY <1>4, Zenon DEF s
  <2> QED BY <2>1
<1>7. Bytes(c, q, Len(s)) = [k \in 1..Len(s) |-> s[k]]
  BY <1>5 DEF Bytes
<1> QED BY <1>2, <1>6, <1>7, Zenon DEF s

(* The opcode of a form is read back, and where the encoding ends.          *)
LEMMA ReadFormOpcode ==
  ASSUME NEW f, IsForm(f), NEW c, NEW at \in Int, HasBytes(c, at, Assemble(f)),
         NEW p, p = ReadPrefixes(c, at)
  PROVE  /\ Byte(c, p.opcodeAt) = OpcodeBytes(f)[1] /\ p.opcodeAt \in Int
         /\ f.inOpcode = None => \A k \in 1..Len(f.opcode) : Byte(c, p.opcodeAt + k - 1) = f.opcode[k]
         /\ p.opcodeAt + Len(OpcodeBytes(f)) + Len(ModRMBytes(f)) + Len(ImmBytes(f)) = at + Len(Assemble(f))
<1>1. p.opcodeAt = at + PrefixLength(f)
  BY ReadPrefixesOf
<1>2. /\ HasBytes(c, at + PrefixLength(f), OpcodeBytes(f))
      /\ Len(Assemble(f)) = PrefixLength(f) + Len(OpcodeBytes(f)) + Len(ModRMBytes(f)) + Len(ImmBytes(f))
  BY HasParts
<1>3. /\ OpcodeBytes(f) \in Seq(Int) /\ Len(OpcodeBytes(f)) >= 1
      /\ ModRMBytes(f) \in Seq(Int) /\ ImmBytes(f) \in Seq(Int)
      /\ EncodeOperandSize(f) \in Seq(Int) /\ EncodeREX(f) \in Seq(Int)
  BY FirstOpcodeByte, PartsAreSeqs
<1>4. /\ Len(OpcodeBytes(f)) \in Int /\ Len(ModRMBytes(f)) \in Int /\ Len(ImmBytes(f)) \in Int
      /\ Len(EncodeOperandSize(f)) \in Int /\ Len(EncodeREX(f)) \in Int
  BY <1>3
<1>5. PrefixLength(f) \in Int
  BY <1>4 DEF PrefixLength
<1>6. p.opcodeAt \in Int /\ 1 \in 1..Len(OpcodeBytes(f)) /\ p.opcodeAt + 1 - 1 = p.opcodeAt
  BY <1>1, <1>3, <1>4, <1>5
<1>7. HasBytes(c, p.opcodeAt, OpcodeBytes(f))
  BY <1>1, <1>2
<1>8. Byte(c, p.opcodeAt) = OpcodeBytes(f)[1]
  BY <1>6, <1>7, Zenon DEF HasBytes
<1>9. f.inOpcode = None => \A k \in 1..Len(f.opcode) : Byte(c, p.opcodeAt + k - 1) = f.opcode[k]
  BY <1>7, Zenon DEF HasBytes, OpcodeBytes
<1>10. p.opcodeAt + Len(OpcodeBytes(f)) + Len(ModRMBytes(f)) + Len(ImmBytes(f)) = at + Len(Assemble(f))
  BY <1>1, <1>2, <1>4, <1>5
<1> QED BY <1>6, <1>8, <1>9, <1>10, Zenon

(* The register in the low bits of the opcode is read back.                 *)
LEMMA ReadFormLow ==
  ASSUME NEW f, IsForm(f), f.inOpcode # None, NEW c, NEW at \in Int, HasBytes(c, at, Assemble(f)),
         NEW p, p = ReadPrefixes(c, at), NEW o, o = Byte(c, p.opcodeAt)
  PROVE  /\ o = f.opcode[1] + (f.inOpcode.reg % 8) /\ (o % 8) + p.b = f.inOpcode.reg
         /\ RegOf(p, f.inOpcode.size, f.inOpcode.reg) = f.inOpcode
         /\ Len(OpcodeBytes(f)) = 1 /\ Len(ModRMBytes(f)) = 0
<1>1. /\ IsRegOperand(f.inOpcode) /\ f.inOpcode \in f.rex /\ f.opcode[1] \in {80, 88, 176, 184}
      /\ f.rm = None
  BY DEF IsForm
<1>2. /\ p.rex \in {0, 1} /\ (p.rex = 1 <=> HasREX(f)) /\ p.b = 8 * RexB(f)
  BY ReadPrefixesOf
<1>3. OpcodeBytes(f) = <<f.opcode[1] + (f.inOpcode.reg % 8)>>
  BY DEF OpcodeBytes
<1>4. Byte(c, p.opcodeAt) = OpcodeBytes(f)[1]
  BY ReadFormOpcode
<1>5. f.inOpcode.reg \in 0..15
  BY <1>1, Register
<1>6. o = f.opcode[1] + (f.inOpcode.reg % 8)
  BY <1>3, <1>4
<1>7. p.b = IF f.inOpcode.reg >= 8 THEN 8 ELSE 0
  BY <1>1, <1>2 DEF RexB
<1>8. (o % 8) + p.b = f.inOpcode.reg
  BY <1>1, <1>5, <1>6, <1>7
<1>9. RegOf(p, f.inOpcode.size, f.inOpcode.reg) = f.inOpcode
  BY <1>1, <1>2, RegOfOperand DEF HasREX
<1>10. Len(OpcodeBytes(f)) = 1
  BY <1>3
<1>11. Len(ModRMBytes(f)) = 0
  BY <1>1 DEF ModRMBytes
<1> QED BY <1>6, <1>8, <1>9, <1>10, <1>11

(* A form with one byte of opcode and no register in it.                    *)
IsPlainForm(f) == IsForm(f) /\ f.inOpcode = None /\ Len(f.opcode) = 1
HasForm(f, c, at) == HasBytes(c, at, Assemble(f))
End(f, at) == at + Len(Assemble(f))

OpcodeAt(c, at) == ReadPrefixes(c, at).opcodeAt
SizeAt(c, at) == ReadPrefixes(c, at).size
OperandsAt(c, at, size) == ModRM(c, ReadPrefixes(c, at), OpcodeAt(c, at) + 1, size)

(* Opcode and size of a plain form are read back.                           *)
LEMMA PlainOpcode ==
  ASSUME NEW f, IsPlainForm(f), NEW c, NEW at \in Int, HasForm(f, c, at)
  PROVE  /\ OpcodeAt(c, at) \in Int /\ Byte(c, OpcodeAt(c, at)) = f.opcode[1]
         /\ SizeAt(c, at) \in {2, 4, 8}
         /\ SizeAt(c, at) = IF f.size = 8 THEN 8 ELSE IF f.size = 2 THEN 2 ELSE 4
<1> DEFINE p == ReadPrefixes(c, at)
           q == OpcodeAt(c, at)
<1>0. p = ReadPrefixes(c, at) /\ q = p.opcodeAt
  BY DEF OpcodeAt
<1> HIDE DEF p, q
<1>1. HasBytes(c, at, Assemble(f)) /\ IsForm(f) /\ f.inOpcode = None /\ Len(f.opcode) = 1
  BY DEF HasForm, IsPlainForm
<1>2. /\ q \in Int /\ Byte(c, q) = OpcodeBytes(f)[1]
  BY <1>0, <1>1, ReadFormOpcode
<1>3. OpcodeBytes(f) = f.opcode
  BY <1>1 DEF OpcodeBytes
<1>4. p.rex \in {0, 1} /\ p.size = IF f.size = 8 THEN 8 ELSE IF f.size = 2 THEN 2 ELSE 4
  BY <1>0, <1>1, ReadPrefixesOf
<1> QED BY <1>2, <1>3, <1>4 DEF p, q, SizeAt

(* So are its operands and its immediate, up to the end.                    *)
LEMMA PlainOperands ==
  ASSUME NEW f, IsPlainForm(f), f.rm # None, NEW c, NEW at \in Int, HasForm(f, c, at), NEW size
  PROVE  /\ OperandsAt(c, at, size).field = Field(f)
         /\ f.rm.size = size => OperandsAt(c, at, size).rm = f.rm
         /\ IsReg(f.field) /\ f.field.size = size => OperandsAt(c, at, size).reg = f.field
         /\ f.imm = None => OperandsAt(c, at, size).next = End(f, at)
         /\ f.imm # None => /\ OperandsAt(c, at, size).next + f.imm.size = End(f, at)
                            /\ Bytes(c, OperandsAt(c, at, size).next, f.imm.size) = f.imm.bytes
<1> DEFINE p == ReadPrefixes(c, at)
           q == OpcodeAt(c, at)
           m == OperandsAt(c, at, size)
<1>0. p = ReadPrefixes(c, at) /\ q = p.opcodeAt /\ m = ModRM(c, p, q + 1, size)
  BY DEF OpcodeAt, OperandsAt
<1> HIDE DEF p, q, m
<1>1. HasBytes(c, at, Assemble(f)) /\ IsForm(f) /\ f.inOpcode = None /\ Len(f.opcode) = 1
  BY DEF HasForm, IsPlainForm
<1>2. OpcodeBytes(f) = f.opcode
  BY <1>1 DEF OpcodeBytes
<1>3. q + 1 = p.opcodeAt + Len(OpcodeBytes(f))
  <2>1. Len(OpcodeBytes(f)) = 1
    BY <1>1, <1>2, Zenon
  <2> QED BY <1>0, <2>1, Zenon
<1>4. /\ m.next = q + 1 + Len(ModRMBytes(f)) /\ m.field = Field(f)
      /\ f.rm.size = size => m.rm = f.rm
      /\ IsReg(f.field) /\ f.field.size = size => m.reg = f.field
  <2>1. q + 1 = ModRMAt(f, c, at)
    BY <1>3, <1>0 DEF ModRMAt
  <2>2. m = ReadModRM(f, c, at, size)
    BY <2>1, <1>0 DEF ReadModRM
  <2> QED BY <1>1, <2>1, <2>2, ReadFormOperands
<1>5. q + 1 + Len(ModRMBytes(f)) + Len(ImmBytes(f)) = End(f, at)
  BY <1>0, <1>1, <1>3, ReadFormOpcode DEF End
<1>6. f.imm = None => m.next = End(f, at)
  <2>1. SUFFICES ASSUME f.imm = None PROVE m.next = End(f, at)
    OBVIOUS
  <2>2. Len(ImmBytes(f)) = 0
    BY <2>1 DEF ImmBytes
  <2>3. m.next \in Int
    <3>1. q \in Int
      BY PlainOpcode DEF q
    <3>2. Len(ModRMBytes(f)) \in Int
      BY <1>1, PartsAreSeqs
    <3> QED BY <1>4, <3>1, <3>2
  <2> QED BY <1>4, <1>5, <2>2, <2>3
<1>7. f.imm # None => m.next + f.imm.size = End(f, at) /\ Bytes(c, m.next, f.imm.size) = f.imm.bytes
  BY <1>0, <1>1, <1>3, <1>4, <1>5, ReadFormImm
<1> QED BY <1>4, <1>6, <1>7 DEF m

(* So is the immediate of a plain form without operands.                    *)
LEMMA PlainNoOperands ==
  ASSUME NEW f, IsPlainForm(f), f.rm = None, NEW c, NEW at \in Int, HasForm(f, c, at)
  PROVE  /\ f.imm = None => OpcodeAt(c, at) + 1 = End(f, at)
         /\ f.imm # None => /\ OpcodeAt(c, at) + 1 + f.imm.size = End(f, at)
                            /\ Bytes(c, OpcodeAt(c, at) + 1, f.imm.size) = f.imm.bytes
<1> DEFINE p == ReadPrefixes(c, at)
           q == OpcodeAt(c, at)
<1>0. p = ReadPrefixes(c, at) /\ q = p.opcodeAt
  BY DEF OpcodeAt
<1> HIDE DEF p, q
<1>1. HasBytes(c, at, Assemble(f)) /\ IsForm(f) /\ f.inOpcode = None /\ Len(f.opcode) = 1
  BY DEF HasForm, IsPlainForm
<1>2. OpcodeBytes(f) = f.opcode
  BY <1>1 DEF OpcodeBytes
<1>3. q + 1 = p.opcodeAt + Len(OpcodeBytes(f)) /\ q \in Int
  <2>1. Len(OpcodeBytes(f)) = 1
    BY <1>1, <1>2, Zenon
  <2>2. q + 1 = p.opcodeAt + Len(OpcodeBytes(f))
    BY <1>0, <2>1, Zenon
  <2> QED BY <2>2, PlainOpcode DEF q
<1>4. Len(ModRMBytes(f)) = 0 /\ q + 1 + Len(ModRMBytes(f)) = q + 1
  BY <1>3 DEF ModRMBytes
<1>5. q + 1 + Len(ModRMBytes(f)) + Len(ImmBytes(f)) = End(f, at)
  BY <1>0, <1>1, <1>3, ReadFormOpcode DEF End
<1>6. f.imm = None => q + 1 = End(f, at)
  <2>1. SUFFICES ASSUME f.imm = None PROVE q + 1 = End(f, at)
    OBVIOUS
  <2>2. Len(ImmBytes(f)) = 0
    BY <2>1 DEF ImmBytes
  <2> QED BY <1>3, <1>4, <1>5, <2>2
<1>7. f.imm # None => q + 1 + f.imm.size = End(f, at) /\ Bytes(c, q + 1, f.imm.size) = f.imm.bytes
  <2>1. SUFFICES ASSUME f.imm # None
                 PROVE  q + 1 + f.imm.size = End(f, at) /\ Bytes(c, q + 1, f.imm.size) = f.imm.bytes
    OBVIOUS
  <2>2. p.opcodeAt + Len(OpcodeBytes(f)) + Len(ModRMBytes(f)) = q + 1
    BY <1>3, <1>4
  <2> QED BY <1>0, <1>1, <1>4, <1>5, <2>1, <2>2, ReadFormImm
<1> QED BY <1>6, <1>7 DEF q

-----------------------------------------------------------------------------
(* What the decoder makes of each opcode.                                   *)

Opcode(c, at) == Byte(c, OpcodeAt(c, at))
IsDecodable(c, at) == OpcodeAt(c, at) \in Int /\ SizeAt(c, at) \in {2, 4, 8}
StackSizeAt(c, at) == IF SizeAt(c, at) = 2 THEN 2 ELSE 8
OneByte(c, at, o) == DecodeOneByte(c, ReadPrefixes(c, at), OpcodeAt(c, at), o)

(* Which part of the decoder reads an opcode.                               *)
LEMMA DecodeDispatch ==
  ASSUME NEW c, NEW at, NEW o \in Int, o = Opcode(c, at)
  PROVE  /\ o = 15 => Decode(c, at) = DecodeTwoByte(c, ReadPrefixes(c, at), OpcodeAt(c, at) + 1)
         /\ o # 15 /\ o < 64 =>
               Decode(c, at) = DecodeArithmetic(c, ReadPrefixes(c, at), OpcodeAt(c, at), o)
         /\ o >= 64 /\ o \div 8 \in {10, 11, 18, 22, 23} =>
               Decode(c, at) = DecodeShort(c, ReadPrefixes(c, at), OpcodeAt(c, at), o)
         /\ o >= 64 /\ o \div 8 \notin {10, 11, 18, 22, 23} => Decode(c, at) = OneByte(c, at, o)
<1>1. ShortForms = {10, 11, 18, 22, 23}
  BY DEF ShortForms
<1> QED BY <1>1 DEF Decode, Opcode, OpcodeAt, OneByte

(* add to cmp, register into register or memory.                            *)
LEMMA DecodesArithmetic ==
  ASSUME NEW c, NEW at, IsDecodable(c, at), NEW n \in 0..7, NEW w \in {0, 1}, Opcode(c, at) = 8 * n + w,
         NEW size, size = IF w = 0 THEN 1 ELSE SizeAt(c, at), NEW m, m = OperandsAt(c, at, size)
  PROVE  Decode(c, at) = Read(ALNames[n + 1], <<m.rm, m.reg>>, m.next)
<1> DEFINE p == ReadPrefixes(c, at)
           q == OpcodeAt(c, at)
<1>1. p.size = SizeAt(c, at) /\ p.size \in {2, 4, 8} /\ q \in Int /\ m = ModRM(c, p, q + 1, size)
  BY DEF IsDecodable, SizeAt, OperandsAt
<1> HIDE DEF p, q
<1>2. Decode(c, at) = DecodeArithmetic(c, p, q, 8 * n + w)
  BY DecodeDispatch DEF p, q
<1>3. (8 * n + w) % 8 = w /\ (8 * n + w) \div 8 = n /\ (8 * n + w) % 2 = w
  OBVIOUS
<1>4. Decode(c, at) = Read(ALNames[n + 1], <<m.rm, m.reg>>, m.next)
  BY <1>1, <1>2, <1>3 DEF DecodeArithmetic, SizeOf
<1> QED BY <1>4 DEF p, q

(* add to cmp, register or memory into register.                            *)
LEMMA DecodesArithmeticLoad ==
  ASSUME NEW c, NEW at, IsDecodable(c, at), NEW n \in 0..7, NEW w \in {0, 1}, Opcode(c, at) = 8 * n + 2 + w,
         NEW size, size = IF w = 0 THEN 1 ELSE SizeAt(c, at), NEW m, m = OperandsAt(c, at, size)
  PROVE  Decode(c, at) = Read(ALNames[n + 1], <<m.reg, m.rm>>, m.next)
<1> DEFINE p == ReadPrefixes(c, at)
           q == OpcodeAt(c, at)
<1>1. p.size = SizeAt(c, at) /\ p.size \in {2, 4, 8} /\ q \in Int /\ m = ModRM(c, p, q + 1, size)
  BY DEF IsDecodable, SizeAt, OperandsAt
<1> HIDE DEF p, q
<1>2. Decode(c, at) = DecodeArithmetic(c, p, q, 8 * n + 2 + w)
  BY DecodeDispatch DEF p, q
<1>3. (8 * n + 2 + w) % 8 = 2 + w /\ (8 * n + 2 + w) \div 8 = n /\ (8 * n + 2 + w) % 2 = w
  OBVIOUS
<1>4. Decode(c, at) = Read(ALNames[n + 1], <<m.reg, m.rm>>, m.next)
  BY <1>1, <1>2, <1>3 DEF DecodeArithmetic, SizeOf
<1> QED BY <1>4 DEF p, q

(* add to cmp, immediate into the accumulator.                              *)
LEMMA DecodesArithmeticAcc ==
  ASSUME NEW c, NEW at, IsDecodable(c, at), NEW n \in 0..7, NEW w \in {0, 1}, Opcode(c, at) = 8 * n + 4 + w,
         NEW size, size = IF w = 0 THEN 1 ELSE SizeAt(c, at)
  PROVE  Decode(c, at) = Read(ALNames[n + 1], <<RegOf(ReadPrefixes(c, at), size, 0),
                                        ImmAt(c, OpcodeAt(c, at) + 1, Full(size), size)>>,
                               OpcodeAt(c, at) + 1 + Full(size))
<1> DEFINE p == ReadPrefixes(c, at)
           q == OpcodeAt(c, at)
<1>1. p.size = SizeAt(c, at) /\ p.size \in {2, 4, 8} /\ q \in Int
  BY DEF IsDecodable, SizeAt, OperandsAt
<1> HIDE DEF p, q
<1>2. Decode(c, at) = DecodeArithmetic(c, p, q, 8 * n + 4 + w)
  BY DecodeDispatch DEF p, q
<1>3. (8 * n + 4 + w) % 8 = 4 + w /\ (8 * n + 4 + w) \div 8 = n /\ (8 * n + 4 + w) % 2 = w
  OBVIOUS
<1>4. Decode(c, at) = Read(ALNames[n + 1], <<RegOf(p, size, 0), ImmAt(c, q + 1, Full(size), size)>>,
                           q + 1 + Full(size))
  BY <1>1, <1>2, <1>3 DEF DecodeArithmetic, SizeOf
<1> QED BY <1>4 DEF p, q

(* add to cmp, full immediate.                                              *)
LEMMA DecodesGroup1 ==
  ASSUME NEW c, NEW at, IsDecodable(c, at), NEW w \in {0, 1}, Opcode(c, at) = 128 + w,
         NEW size, size = IF w = 0 THEN 1 ELSE SizeAt(c, at), NEW m, m = OperandsAt(c, at, size)
  PROVE  Decode(c, at) = Read(ALNames[m.field + 1], <<m.rm, ImmAt(c, m.next, Full(size), size)>>,
                m.next + Full(size))
<1>1. CASE w = 0
  <2>1. Decode(c, at) = OneByte(c, at, 128)
    BY <1>1, DecodeDispatch
  <2> QED BY <1>1, <2>1 DEF OneByte, DecodeOneByte, SizeOf, SizeAt, OperandsAt, IsDecodable
<1>2. CASE w = 1
  <2>1. Decode(c, at) = OneByte(c, at, 129)
    BY <1>2, DecodeDispatch
  <2> QED BY <1>2, <2>1 DEF OneByte, DecodeOneByte, SizeOf, SizeAt, OperandsAt, IsDecodable
<1> QED BY <1>1, <1>2

(* test with an immediate.                                                  *)
LEMMA DecodesTestImm ==
  ASSUME NEW c, NEW at, IsDecodable(c, at), NEW w \in {0, 1}, Opcode(c, at) = 246 + w,
         NEW size, size = IF w = 0 THEN 1 ELSE SizeAt(c, at), NEW m, m = OperandsAt(c, at, size), m.field = 0
  PROVE  Decode(c, at) = Read("test", <<m.rm, ImmAt(c, m.next, Full(size), size)>>, m.next + Full(size))
<1>1. CASE w = 0
  <2>1. Decode(c, at) = OneByte(c, at, 246)
    BY <1>1, DecodeDispatch
  <2> QED BY <1>1, <2>1 DEF OneByte, DecodeOneByte, SizeOf, SizeAt, OperandsAt, IsDecodable
<1>2. CASE w = 1
  <2>1. Decode(c, at) = OneByte(c, at, 247)
    BY <1>2, DecodeDispatch
  <2> QED BY <1>2, <2>1 DEF OneByte, DecodeOneByte, SizeOf, SizeAt, OperandsAt, IsDecodable
<1> QED BY <1>1, <1>2

(* not to idiv.                                                             *)
LEMMA DecodesGroup3 ==
  ASSUME NEW c, NEW at, IsDecodable(c, at), NEW w \in {0, 1}, Opcode(c, at) = 246 + w,
         NEW size, size = IF w = 0 THEN 1 ELSE SizeAt(c, at), NEW m, m = OperandsAt(c, at, size), m.field # 0
  PROVE  Decode(c, at) = Read(Group3Names[m.field + 1], <<m.rm>>, m.next)
<1>1. CASE w = 0
  <2>1. Decode(c, at) = OneByte(c, at, 246)
    BY <1>1, DecodeDispatch
  <2> QED BY <1>1, <2>1 DEF OneByte, DecodeOneByte, SizeOf, SizeAt, OperandsAt, IsDecodable
<1>2. CASE w = 1
  <2>1. Decode(c, at) = OneByte(c, at, 247)
    BY <1>2, DecodeDispatch
  <2> QED BY <1>2, <2>1 DEF OneByte, DecodeOneByte, SizeOf, SizeAt, OperandsAt, IsDecodable
<1> QED BY <1>1, <1>2

(* test of the accumulator.                                                 *)
LEMMA DecodesTestAcc ==
  ASSUME NEW c, NEW at, IsDecodable(c, at), NEW w \in {0, 1}, Opcode(c, at) = 168 + w,
         NEW size, size = IF w = 0 THEN 1 ELSE SizeAt(c, at), NEW m, m = OperandsAt(c, at, size)
  PROVE  Decode(c, at) = Read("test", <<RegOf(ReadPrefixes(c, at), size, 0), ImmAt(c, OpcodeAt(c,
                at) + 1, Full(size), size)>>,
                             OpcodeAt(c, at) + 1 + Full(size))
<1>1. CASE w = 0
  <2>1. Decode(c, at) = OneByte(c, at, 168)
    BY <1>1, DecodeDispatch
  <2> QED BY <1>1, <2>1 DEF OneByte, DecodeOneByte, SizeOf, SizeAt, OperandsAt, IsDecodable
<1>2. CASE w = 1
  <2>1. Decode(c, at) = OneByte(c, at, 169)
    BY <1>2, DecodeDispatch
  <2> QED BY <1>2, <2>1 DEF OneByte, DecodeOneByte, SizeOf, SizeAt, OperandsAt, IsDecodable
<1> QED BY <1>1, <1>2

(* test of a register.                                                      *)
LEMMA DecodesTest ==
  ASSUME NEW c, NEW at, IsDecodable(c, at), NEW w \in {0, 1}, Opcode(c, at) = 132 + w,
         NEW size, size = IF w = 0 THEN 1 ELSE SizeAt(c, at), NEW m, m = OperandsAt(c, at, size)
  PROVE  Decode(c, at) = Read("test", <<m.rm, m.reg>>, m.next)
<1>1. CASE w = 0
  <2>1. Decode(c, at) = OneByte(c, at, 132)
    BY <1>1, DecodeDispatch
  <2> QED BY <1>1, <2>1 DEF OneByte, DecodeOneByte, SizeOf, SizeAt, OperandsAt, IsDecodable
<1>2. CASE w = 1
  <2>1. Decode(c, at) = OneByte(c, at, 133)
    BY <1>2, DecodeDispatch
  <2> QED BY <1>2, <2>1 DEF OneByte, DecodeOneByte, SizeOf, SizeAt, OperandsAt, IsDecodable
<1> QED BY <1>1, <1>2

(* mov into register or memory.                                             *)
LEMMA DecodesMov ==
  ASSUME NEW c, NEW at, IsDecodable(c, at), NEW w \in {0, 1}, Opcode(c, at) = 136 + w,
         NEW size, size = IF w = 0 THEN 1 ELSE SizeAt(c, at), NEW m, m = OperandsAt(c, at, size)
  PROVE  Decode(c, at) = Read("mov", <<m.rm, m.reg>>, m.next)
<1>1. CASE w = 0
  <2>1. Decode(c, at) = OneByte(c, at, 136)
    BY <1>1, DecodeDispatch
  <2> QED BY <1>1, <2>1 DEF OneByte, DecodeOneByte, SizeOf, SizeAt, OperandsAt, IsDecodable
<1>2. CASE w = 1
  <2>1. Decode(c, at) = OneByte(c, at, 137)
    BY <1>2, DecodeDispatch
  <2> QED BY <1>2, <2>1 DEF OneByte, DecodeOneByte, SizeOf, SizeAt, OperandsAt, IsDecodable
<1> QED BY <1>1, <1>2

(* mov into a register.                                                     *)
LEMMA DecodesMovLoad ==
  ASSUME NEW c, NEW at, IsDecodable(c, at), NEW w \in {0, 1}, Opcode(c, at) = 138 + w,
         NEW size, size = IF w = 0 THEN 1 ELSE SizeAt(c, at), NEW m, m = OperandsAt(c, at, size)
  PROVE  Decode(c, at) = Read("mov", <<m.reg, m.rm>>, m.next)
<1>1. CASE w = 0
  <2>1. Decode(c, at) = OneByte(c, at, 138)
    BY <1>1, DecodeDispatch
  <2> QED BY <1>1, <2>1 DEF OneByte, DecodeOneByte, SizeOf, SizeAt, OperandsAt, IsDecodable
<1>2. CASE w = 1
  <2>1. Decode(c, at) = OneByte(c, at, 139)
    BY <1>2, DecodeDispatch
  <2> QED BY <1>2, <2>1 DEF OneByte, DecodeOneByte, SizeOf, SizeAt, OperandsAt, IsDecodable
<1> QED BY <1>1, <1>2

(* mov of an immediate into memory.                                         *)
LEMMA DecodesMovImm ==
  ASSUME NEW c, NEW at, IsDecodable(c, at), NEW w \in {0, 1}, Opcode(c, at) = 198 + w,
         NEW size, size = IF w = 0 THEN 1 ELSE SizeAt(c, at), NEW m, m = OperandsAt(c, at, size)
  PROVE  Decode(c, at) = Read("mov", <<m.rm, ImmAt(c, m.next, Full(size), size)>>, m.next + Full(size))
<1>1. CASE w = 0
  <2>1. Decode(c, at) = OneByte(c, at, 198)
    BY <1>1, DecodeDispatch
  <2> QED BY <1>1, <2>1 DEF OneByte, DecodeOneByte, SizeOf, SizeAt, OperandsAt, IsDecodable
<1>2. CASE w = 1
  <2>1. Decode(c, at) = OneByte(c, at, 199)
    BY <1>2, DecodeDispatch
  <2> QED BY <1>2, <2>1 DEF OneByte, DecodeOneByte, SizeOf, SizeAt, OperandsAt, IsDecodable
<1> QED BY <1>1, <1>2

(* xchg with ModRM.                                                         *)
LEMMA DecodesXchg ==
  ASSUME NEW c, NEW at, IsDecodable(c, at), NEW w \in {0, 1}, Opcode(c, at) = 134 + w,
         NEW size, size = IF w = 0 THEN 1 ELSE SizeAt(c, at), NEW m, m = OperandsAt(c, at, size)
  PROVE  Decode(c, at) = Read("xchg", <<m.rm, m.reg>>, m.next)
<1>1. CASE w = 0
  <2>1. Decode(c, at) = OneByte(c, at, 134)
    BY <1>1, DecodeDispatch
  <2> QED BY <1>1, <2>1 DEF OneByte, DecodeOneByte, SizeOf, SizeAt, OperandsAt, IsDecodable
<1>2. CASE w = 1
  <2>1. Decode(c, at) = OneByte(c, at, 135)
    BY <1>2, DecodeDispatch
  <2> QED BY <1>2, <2>1 DEF OneByte, DecodeOneByte, SizeOf, SizeAt, OperandsAt, IsDecodable
<1> QED BY <1>1, <1>2

(* add to cmp, immediate of one byte.                                       *)
LEMMA DecodesGroup1Imm8 ==
  ASSUME NEW c, NEW at, IsDecodable(c, at), Opcode(c, at) = 131,
         NEW size, size = SizeAt(c, at), NEW m, m = OperandsAt(c, at, size)
  PROVE  Decode(c, at) = Read(ALNames[m.field + 1], <<m.rm, ImmAt(c, m.next, 1, size)>>, m.next + 1)
<1>1. Decode(c, at) = OneByte(c, at, 131)
  BY DecodeDispatch
<1> QED BY <1>1 DEF OneByte, DecodeOneByte, SizeOf, SizeAt, StackOf, StackSizeAt, OperandsAt, IsDecodable

(* imul with a full immediate.                                              *)
LEMMA DecodesImulImm ==
  ASSUME NEW c, NEW at, IsDecodable(c, at), Opcode(c, at) = 105,
         NEW size, size = SizeAt(c, at), NEW m, m = OperandsAt(c, at, size)
  PROVE  Decode(c, at) = Read("imul", <<m.reg, m.rm, ImmAt(c, m.next, Full(size), size)>>,
                m.next + Full(size))
<1>1. Decode(c, at) = OneByte(c, at, 105)
  BY DecodeDispatch
<1> QED BY <1>1 DEF OneByte, DecodeOneByte, SizeOf, SizeAt, StackOf, StackSizeAt, OperandsAt, IsDecodable

(* imul with an immediate of one byte.                                      *)
LEMMA DecodesImulImm8 ==
  ASSUME NEW c, NEW at, IsDecodable(c, at), Opcode(c, at) = 107,
         NEW size, size = SizeAt(c, at), NEW m, m = OperandsAt(c, at, size)
  PROVE  Decode(c, at) = Read("imul", <<m.reg, m.rm, ImmAt(c, m.next, 1, size)>>, m.next + 1)
<1>1. Decode(c, at) = OneByte(c, at, 107)
  BY DecodeDispatch
<1> QED BY <1>1 DEF OneByte, DecodeOneByte, SizeOf, SizeAt, StackOf, StackSizeAt, OperandsAt, IsDecodable

(* cbw, cwde, cdqe.                                                         *)
LEMMA DecodesExtendA ==
  ASSUME NEW c, NEW at, IsDecodable(c, at), Opcode(c, at) = 152
  PROVE  Decode(c, at) = Read("sign_extend_a", <<SizeAt(c, at)>>, OpcodeAt(c, at) + 1)
<1>1. Decode(c, at) = OneByte(c, at, 152)
  BY DecodeDispatch
<1>2. ASSUME NEW p, NEW q \in Int
      PROVE  DecodeOneByte(c, p, q, 152) = Read("sign_extend_a", <<p.size>>, q + 1)
  BY DEF DecodeOneByte
<1> QED BY <1>1, <1>2 DEF OneByte, SizeAt, IsDecodable

(* cwd, cdq, cqo.                                                           *)
LEMMA DecodesExtendAD ==
  ASSUME NEW c, NEW at, IsDecodable(c, at), Opcode(c, at) = 153
  PROVE  Decode(c, at) = Read("sign_extend_ad", <<SizeAt(c, at)>>, OpcodeAt(c, at) + 1)
<1>1. Decode(c, at) = OneByte(c, at, 153)
  BY DecodeDispatch
<1>2. ASSUME NEW p, NEW q \in Int
      PROVE  DecodeOneByte(c, p, q, 153) = Read("sign_extend_ad", <<p.size>>, q + 1)
  BY DEF DecodeOneByte
<1> QED BY <1>1, <1>2 DEF OneByte, SizeAt, IsDecodable

(* pop into memory.                                                         *)
LEMMA DecodesPop ==
  ASSUME NEW c, NEW at, IsDecodable(c, at), Opcode(c, at) = 143,
         NEW size, size = StackSizeAt(c, at), NEW m, m = OperandsAt(c, at, size), m.field = 0
  PROVE  Decode(c, at) = Read("pop", <<m.rm>>, m.next)
<1>1. Decode(c, at) = OneByte(c, at, 143)
  BY DecodeDispatch
<1> QED BY <1>1 DEF OneByte, DecodeOneByte, SizeOf, SizeAt, StackOf, StackSizeAt, OperandsAt, IsDecodable

(* push of one byte.                                                        *)
LEMMA DecodesPushImm8 ==
  ASSUME NEW c, NEW at, IsDecodable(c, at), Opcode(c, at) = 106,
         NEW size, size = StackSizeAt(c, at), NEW m, m = OperandsAt(c, at, size)
  PROVE  Decode(c, at) = Read("push", <<ImmAt(c, OpcodeAt(c, at) + 1, 1, size)>>, OpcodeAt(c, at) + 2)
<1>1. Decode(c, at) = OneByte(c, at, 106)
  BY DecodeDispatch
<1> QED BY <1>1 DEF OneByte, DecodeOneByte, SizeOf, SizeAt, StackOf, StackSizeAt, OperandsAt, IsDecodable

(* push of a full immediate.                                                *)
LEMMA DecodesPushImm ==
  ASSUME NEW c, NEW at, IsDecodable(c, at), Opcode(c, at) = 104,
         NEW size, size = StackSizeAt(c, at), NEW m, m = OperandsAt(c, at, size)
  PROVE  Decode(c, at) = Read("push", <<ImmAt(c, OpcodeAt(c, at) + 1, Full(size), size)>>, OpcodeAt(c,
                at) + 1 + Full(size))
<1>1. Decode(c, at) = OneByte(c, at, 104)
  BY DecodeDispatch
<1> QED BY <1>1 DEF OneByte, DecodeOneByte, SizeOf, SizeAt, StackOf, StackSizeAt, OperandsAt, IsDecodable

(* push of memory.                                                          *)
LEMMA DecodesPush ==
  ASSUME NEW c, NEW at, IsDecodable(c, at), Opcode(c, at) = 255,
         NEW size, size = StackSizeAt(c, at), NEW m, m = OperandsAt(c, at, size), m.field = 6
  PROVE  Decode(c, at) = Read("push", <<m.rm>>, m.next)
<1>1. Decode(c, at) = OneByte(c, at, 255)
  BY DecodeDispatch
<1> QED BY <1>1 DEF OneByte, DecodeOneByte, SizeOf, SizeAt, StackOf, StackSizeAt, OperandsAt, IsDecodable

(* Indirect jmp.                                                            *)
LEMMA DecodesJmp ==
  ASSUME NEW c, NEW at, IsDecodable(c, at), Opcode(c, at) = 255,
         NEW size, size = StackSizeAt(c, at), NEW m, m = OperandsAt(c, at, size), m.field = 4
  PROVE  Decode(c, at) = Read("jmp", <<m.rm>>, m.next)
<1>1. Decode(c, at) = OneByte(c, at, 255)
  BY DecodeDispatch
<1> QED BY <1>1 DEF OneByte, DecodeOneByte, SizeOf, SizeAt, StackOf, StackSizeAt, OperandsAt, IsDecodable

(* Indirect call.                                                           *)
LEMMA DecodesCall ==
  ASSUME NEW c, NEW at, IsDecodable(c, at), Opcode(c, at) = 255,
         NEW size, size = StackSizeAt(c, at), NEW m, m = OperandsAt(c, at, size), m.field = 2
  PROVE  Decode(c, at) = Read("call", <<m.rm>>, m.next)
<1>1. Decode(c, at) = OneByte(c, at, 255)
  BY DecodeDispatch
<1> QED BY <1>1 DEF OneByte, DecodeOneByte, SizeOf, SizeAt, StackOf, StackSizeAt, OperandsAt, IsDecodable

(* jmp by a distance.                                                       *)
LEMMA DecodesJmpTo ==
  ASSUME NEW c, NEW at, IsDecodable(c, at), Opcode(c, at) = 233, NEW q, q = OpcodeAt(c, at)
  PROVE  Decode(c, at) = Read("jmp", <<Target(q + 5 + Signed32(Bytes(c, q + 1, 4)))>>, q + 5)
<1>1. Decode(c, at) = OneByte(c, at, 233)
  BY DecodeDispatch
<1> QED BY <1>1 DEF OneByte, DecodeOneByte, IsDecodable

(* call by a distance.                                                      *)
LEMMA DecodesCallTo ==
  ASSUME NEW c, NEW at, IsDecodable(c, at), Opcode(c, at) = 232, NEW q, q = OpcodeAt(c, at)
  PROVE  Decode(c, at) = Read("call", <<Target(q + 5 + Signed32(Bytes(c, q + 1, 4)))>>, q + 5)
<1>1. Decode(c, at) = OneByte(c, at, 232)
  BY DecodeDispatch
<1> QED BY <1>1 DEF OneByte, DecodeOneByte, IsDecodable

(* ret.                                                                     *)
LEMMA DecodesRet ==
  ASSUME NEW c, NEW at, IsDecodable(c, at), Opcode(c, at) = 195
  PROVE  Decode(c, at) = Read("ret", <<>>, OpcodeAt(c, at) + 1)
<1>1. Decode(c, at) = OneByte(c, at, 195)
  BY DecodeDispatch
<1> QED BY <1>1 DEF OneByte, DecodeOneByte, IsDecodable

(* The register in the low bits of the opcode.                              *)
LowAt(c, at) == (Opcode(c, at) % 8) + ReadPrefixes(c, at).b

(* push of a register.                                                      *)
LEMMA DecodesPushReg ==
  ASSUME NEW c, NEW at, IsDecodable(c, at), Opcode(c, at) \in Int, Opcode(c, at) \div 8 = 10
  PROVE  Decode(c, at) = Read("push", <<Reg(StackSizeAt(c, at), LowAt(c, at))>>, OpcodeAt(c, at) + 1)
<1> DEFINE p == ReadPrefixes(c, at)
           q == OpcodeAt(c, at)
           o == Opcode(c, at)
           low == (o % 8) + p.b
<1>1. Decode(c, at) = DecodeShort(c, p, q, o)
  BY DecodeDispatch
<1>2. p.size = SizeAt(c, at) /\ p.size \in {2, 4, 8} /\ q \in Int
  BY DEF SizeAt, IsDecodable
<1>3. low = LowAt(c, at)
  BY DEF LowAt
<1> HIDE DEF p, q, o
<1>4. o \in Int /\ o \div 8 = 10
  BY DEF o
<1>5. Decode(c, at) = Read("push", <<Reg(StackSizeAt(c, at), low)>>, q + 1)
  BY <1>1, <1>2, <1>3, <1>4 DEF DecodeShort, StackOf, StackSizeAt
<1> QED BY <1>3, <1>5 DEF p, q

(* pop into a register.                                                     *)
LEMMA DecodesPopReg ==
  ASSUME NEW c, NEW at, IsDecodable(c, at), Opcode(c, at) \in Int, Opcode(c, at) \div 8 = 11
  PROVE  Decode(c, at) = Read("pop", <<Reg(StackSizeAt(c, at), LowAt(c, at))>>, OpcodeAt(c, at) + 1)
<1> DEFINE p == ReadPrefixes(c, at)
           q == OpcodeAt(c, at)
           o == Opcode(c, at)
           low == (o % 8) + p.b
<1>1. Decode(c, at) = DecodeShort(c, p, q, o)
  BY DecodeDispatch
<1>2. p.size = SizeAt(c, at) /\ p.size \in {2, 4, 8} /\ q \in Int
  BY DEF SizeAt, IsDecodable
<1>3. low = LowAt(c, at)
  BY DEF LowAt
<1> HIDE DEF p, q, o
<1>4. o \in Int /\ o \div 8 = 11
  BY DEF o
<1>5. Decode(c, at) = Read("pop", <<Reg(StackSizeAt(c, at), low)>>, q + 1)
  BY <1>1, <1>2, <1>3, <1>4 DEF DecodeShort, StackOf, StackSizeAt
<1> QED BY <1>3, <1>5 DEF p, q

(* xchg with the accumulator; low bits of zero would be nop.                *)
LEMMA DecodesXchgReg ==
  ASSUME NEW c, NEW at, IsDecodable(c, at), Opcode(c, at) \in Int, Opcode(c, at) \div 8 = 18, LowAt(c, at) # 0
  PROVE  Decode(c, at) = Read("xchg", <<Reg(SizeAt(c, at), LowAt(c, at)), Reg(SizeAt(c, at), 0)>>,
                OpcodeAt(c, at) + 1)
<1> DEFINE p == ReadPrefixes(c, at)
           q == OpcodeAt(c, at)
           o == Opcode(c, at)
           low == (o % 8) + p.b
<1>1. Decode(c, at) = DecodeShort(c, p, q, o)
  BY DecodeDispatch
<1>2. p.size = SizeAt(c, at) /\ p.size \in {2, 4, 8} /\ q \in Int
  BY DEF SizeAt, IsDecodable
<1>3. low = LowAt(c, at)
  BY DEF LowAt
<1> HIDE DEF p, q, o
<1>4. o \in Int /\ o \div 8 = 18
  BY DEF o
<1>5. Decode(c, at) = Read("xchg", <<Reg(SizeAt(c, at), low), Reg(SizeAt(c, at), 0)>>, q + 1)
  BY <1>1, <1>2, <1>3, <1>4 DEF DecodeShort, StackOf, StackSizeAt
<1> QED BY <1>3, <1>5 DEF p, q

(* mov of a byte into a register.                                           *)
LEMMA DecodesMovByte ==
  ASSUME NEW c, NEW at, IsDecodable(c, at), Opcode(c, at) \in Int, Opcode(c, at) \div 8 = 22
  PROVE  Decode(c, at) = Read("mov", <<RegOf(ReadPrefixes(c, at), 1, LowAt(c, at)), Value(Bytes(c,
                OpcodeAt(c, at) + 1, 1))>>,
                             OpcodeAt(c, at) + 1 + 1)
<1> DEFINE p == ReadPrefixes(c, at)
           q == OpcodeAt(c, at)
           o == Opcode(c, at)
           low == (o % 8) + p.b
<1>1. Decode(c, at) = DecodeShort(c, p, q, o)
  BY DecodeDispatch
<1>2. p.size = SizeAt(c, at) /\ p.size \in {2, 4, 8} /\ q \in Int
  BY DEF SizeAt, IsDecodable
<1>3. low = LowAt(c, at)
  BY DEF LowAt
<1> HIDE DEF p, q, o
<1>4. o \in Int /\ o \div 8 = 22 /\ o < 184
  BY DEF o
<1>5. Decode(c, at) = Read("mov", <<RegOf(p, 1, low), Value(Bytes(c, q + 1, 1))>>, q + 1 + 1)
  BY <1>1, <1>2, <1>3, <1>4 DEF DecodeShort, StackOf, StackSizeAt
<1> QED BY <1>3, <1>5 DEF p, q

(* mov of a wider immediate into a register.                                *)
LEMMA DecodesMovFull ==
  ASSUME NEW c, NEW at, IsDecodable(c, at), Opcode(c, at) \in Int, Opcode(c, at) \div 8 = 23
  PROVE  Decode(c, at) = Read("mov", <<RegOf(ReadPrefixes(c, at), SizeAt(c, at), LowAt(c, at)),
                                Value(Bytes(c, OpcodeAt(c, at) + 1, SizeAt(c, at)))>>,
                             OpcodeAt(c, at) + 1 + SizeAt(c, at))
<1> DEFINE p == ReadPrefixes(c, at)
           q == OpcodeAt(c, at)
           o == Opcode(c, at)
           low == (o % 8) + p.b
<1>1. Decode(c, at) = DecodeShort(c, p, q, o)
  BY DecodeDispatch
<1>2. p.size = SizeAt(c, at) /\ p.size \in {2, 4, 8} /\ q \in Int
  BY DEF SizeAt, IsDecodable
<1>3. low = LowAt(c, at)
  BY DEF LowAt
<1> HIDE DEF p, q, o
<1>4. o \in Int /\ o \div 8 = 23 /\ ~(o < 184)
  BY DEF o
<1>5. Decode(c, at) = Read("mov", <<RegOf(p, SizeAt(c, at), low), Value(Bytes(c, q + 1, SizeAt(c,
              at)))>>, q + 1 + SizeAt(c, at))
  BY <1>1, <1>2, <1>3, <1>4 DEF DecodeShort, StackOf, StackSizeAt
<1> QED BY <1>3, <1>5 DEF p, q

TwoByteOperands(c, at, size) == ModRM(c, ReadPrefixes(c, at), OpcodeAt(c, at) + 2, size)

(* Opcodes that begin with 0x0f.                                            *)
LEMMA DecodesTwoBytes ==
  ASSUME NEW c, NEW at, IsDecodable(c, at), Opcode(c, at) = 15, NEW o \in Int, o = Byte(c, OpcodeAt(c,
                at) + 1)
  PROVE  Decode(c, at) = DecodeTwoByte(c, ReadPrefixes(c, at), OpcodeAt(c, at) + 1) /\ OpcodeAt(c,
                at) + 1 \in Int
         /\ OpcodeAt(c, at) + 1 + 1 = OpcodeAt(c, at) + 2
<1>1. Decode(c, at) = DecodeTwoByte(c, ReadPrefixes(c, at), OpcodeAt(c, at) + 1)
  BY DecodeDispatch
<1> QED BY <1>1 DEF IsDecodable

(* syscall.                                                                 *)
LEMMA DecodesSyscall ==
  ASSUME NEW c, NEW at, IsDecodable(c, at), Opcode(c, at) = 15, Byte(c, OpcodeAt(c, at) + 1) = 5
  PROVE  Decode(c, at) = Read("syscall", <<>>, OpcodeAt(c, at) + 2)
<1> DEFINE p == ReadPrefixes(c, at)
           q == OpcodeAt(c, at) + 1
<1>1. Decode(c, at) = DecodeTwoByte(c, p, q) /\ q \in Int /\ q + 1 = OpcodeAt(c, at) + 2 /\ Byte(c, q) = 5
  BY DecodesTwoBytes
<1> HIDE DEF p, q
<1>2. 5 # 175 /\ 5 \notin 128..143 /\ 5 \notin 144..159 /\ 5 \in Int
  OBVIOUS
<1>3. Decode(c, at) = Read("syscall", <<>>, q + 1)
  BY <1>1, <1>2 DEF DecodeTwoByte
<1> QED BY <1>1, <1>3 DEF p, q, TwoByteOperands, SizeAt

(* imul of two operands.                                                    *)
LEMMA DecodesImul ==
  ASSUME NEW c, NEW at, IsDecodable(c, at), Opcode(c, at) = 15, Byte(c, OpcodeAt(c, at) + 1) = 175
  PROVE  Decode(c, at) = Read("imul", <<TwoByteOperands(c, at, SizeAt(c, at)).reg,
                                       TwoByteOperands(c, at, SizeAt(c, at)).rm>>,
                             TwoByteOperands(c, at, SizeAt(c, at)).next)
<1> DEFINE p == ReadPrefixes(c, at)
           q == OpcodeAt(c, at) + 1
<1>1. Decode(c, at) = DecodeTwoByte(c, p, q) /\ q \in Int /\ q + 1 = OpcodeAt(c, at) + 2 /\ Byte(c, q) = 175
  BY DecodesTwoBytes
<1> HIDE DEF p, q
<1>2. 175 # 5 /\ 175 \notin 128..143 /\ 175 \notin 144..159 /\ 175 \in Int
  OBVIOUS
<1>3. Decode(c, at) = Read("imul", <<ModRM(c, p, q + 1, p.size).reg, ModRM(c, p, q + 1, p.size).rm>>,
                           ModRM(c, p, q + 1, p.size).next)
  BY <1>1, <1>2 DEF DecodeTwoByte
<1> QED BY <1>1, <1>3 DEF p, q, TwoByteOperands, SizeAt

(* A conditional jump by a distance.                                        *)
LEMMA DecodesJcc ==
  ASSUME NEW c, NEW at, IsDecodable(c, at), Opcode(c, at) = 15, NEW o \in 128..143, Byte(c, OpcodeAt(c,
                at) + 1) = o
  PROVE  Decode(c, at) = Read("jcc", <<o % 16, Target(OpcodeAt(c, at) + 6 + Signed32(Bytes(c, OpcodeAt(c,
                at) + 2, 4)))>>,
                             OpcodeAt(c, at) + 6)
<1> DEFINE p == ReadPrefixes(c, at)
           q == OpcodeAt(c, at) + 1
<1>1. Decode(c, at) = DecodeTwoByte(c, p, q) /\ q \in Int /\ q + 1 = OpcodeAt(c, at) + 2 /\ Byte(c, q) = o
  BY DecodesTwoBytes
<1> HIDE DEF p, q
<1>2. o # 5 /\ o # 175 /\ o \notin 144..159 /\ o \in Int
  OBVIOUS
<1>3. Decode(c, at) = Read("jcc", <<o % 16, Target(q + 5 + Signed32(Bytes(c, q + 1, 4)))>>, q + 5)
  BY <1>1, <1>2 DEF DecodeTwoByte
<1>4. q + 5 = OpcodeAt(c, at) + 6
  BY DEF q, IsDecodable
<1> QED BY <1>1, <1>3, <1>4

(* setcc.                                                                   *)
LEMMA DecodesSetcc ==
  ASSUME NEW c, NEW at, IsDecodable(c, at), Opcode(c, at) = 15, NEW o \in 144..159, Byte(c, OpcodeAt(c,
                at) + 1) = o
  PROVE  Decode(c, at) = Read("setcc", <<o % 16, TwoByteOperands(c, at, 1).rm>>, TwoByteOperands(c, at,
                1).next)
<1> DEFINE p == ReadPrefixes(c, at)
           q == OpcodeAt(c, at) + 1
<1>1. Decode(c, at) = DecodeTwoByte(c, p, q) /\ q \in Int /\ q + 1 = OpcodeAt(c, at) + 2 /\ Byte(c, q) = o
  BY DecodesTwoBytes
<1> HIDE DEF p, q
<1>2. o # 5 /\ o # 175 /\ o \notin 128..143 /\ o \in Int
  OBVIOUS
<1>3. Decode(c, at) = Read("setcc", <<o % 16, ModRM(c, p, q + 1, 1).rm>>, ModRM(c, p, q + 1, 1).next)
  BY <1>1, <1>2 DEF DecodeTwoByte
<1> QED BY <1>1, <1>3 DEF p, q, TwoByteOperands, SizeAt

-----------------------------------------------------------------------------
(* Forms of one opcode byte.                                                *)

(* A form with the one opcode byte op, of well-formed parts.                *)
OneByteForm(f, op) ==
    /\ op \in 0..255 /\ op # 102 /\ op \div 16 # 4
    /\ f.opcode = <<op>> /\ f.inOpcode = None /\ f.size \in {0, 1, 2, 4, 8}
    /\ f.rm = None => f.field = None
    /\ f.rm # None => IsRMOperand(f.rm) /\ f.rm \in f.rex
    /\ \/ f.field = None
       \/ f.field.kind = "ext" /\ f.field.n \in 0..7
       \/ IsRegOperand(f.field) /\ f.field \in f.rex
    /\ f.imm # None => IsImmOperand(f.imm)

(* Such a form is plain.                                                    *)
LEMMA OneByteFormIsPlain ==
  ASSUME NEW f, NEW op, OneByteForm(f, op)
  PROVE  IsPlainForm(f) /\ f.opcode[1] = op
<1>1. f.opcode = <<op>> /\ op \in 0..255
  BY DEF OneByteForm
<1>2. Len(f.opcode) = 1 /\ f.opcode \in Seq(0..255) /\ f.opcode # <<>> /\ f.opcode[1] = op
  BY <1>1
<1>3. f.inOpcode = None /\ f.size \in {0, 1, 2, 4, 8} /\ op # 102 /\ op \div 16 # 4
  BY DEF OneByteForm
<1>4. /\ f.rm # None => IsRMOperand(f.rm) /\ f.rm \in f.rex
      /\ f.rm = None => f.field = None
      /\ f.imm # None => IsImmOperand(f.imm)
  BY DEF OneByteForm
<1>5. \/ f.field = None
      \/ f.field.kind = "ext" /\ f.field.n \in 0..7
      \/ IsRegOperand(f.field) /\ f.field \in f.rex /\ f.field # None
  BY DEF OneByteForm
<1>6. IsForm(f)
  BY <1>2, <1>3, <1>4, <1>5 DEF IsForm
<1> QED BY <1>2, <1>3, <1>6 DEF IsPlainForm

(* Its opcode and operand size are read back.                               *)
LEMMA ReadsOpcode ==
  ASSUME NEW f, NEW op, OneByteForm(f, op), NEW c, NEW at \in Int, HasForm(f, c, at)
  PROVE  /\ IsDecodable(c, at) /\ Opcode(c, at) = op
         /\ f.size \in {2, 4, 8} => SizeAt(c, at) = f.size
         /\ f.size \in {0, 1} => SizeAt(c, at) = 4
<1>1. IsPlainForm(f) /\ f.opcode[1] = op
  BY OneByteFormIsPlain
<1> QED BY <1>1, PlainOpcode DEF IsDecodable, Opcode

(* An immediate is read as what its instruction means by it.                *)
LEMMA ImmIsRead ==
  ASSUME NEW o, IsImmOperand(o), NEW c, NEW at, Bytes(c, at, o.size) = o.bytes
  PROVE  /\ \A size : ImmAt(c, at, o.size, size) = Meant(o, size)
         /\ Value(Bytes(c, at, o.size)) = o
<1>1. IsImm(o)
  BY DEF IsImmOperand
<1>2. ASSUME NEW size PROVE ImmAt(c, at, o.size, size) = Meant(o, size)
  <2>1. Meant(o, size) = Value(SignExtended(o.bytes, size))
    BY <1>1 DEF Meant, IsImm
  <2> QED BY <2>1, Zenon DEF ImmAt
<1>3. o = Value(o.bytes)
  BY DEF IsImmOperand, IsOperand, IsImm, IsReg, IsMem
<1> QED BY <1>2, <1>3, Zenon

(* The operands of a form of one opcode byte are read as what is meant.     *)
LEMMA ReadsOperands ==
  ASSUME NEW f, NEW op, OneByteForm(f, op), f.rm # None, NEW c, NEW at \in Int, HasForm(f, c, at)
  PROVE  /\ OperandsAt(c, at, f.rm.size).rm = f.rm
         /\ IsRegOperand(f.field) /\ f.field.size = f.rm.size => OperandsAt(c, at, f.rm.size).reg = f.field
         /\ f.field # None /\ f.field.kind = "ext" => OperandsAt(c, at, f.rm.size).field = f.field.n
         /\ f.imm = None => OperandsAt(c, at, f.rm.size).next = End(f, at)
         /\ f.imm # None =>
               /\ OperandsAt(c, at, f.rm.size).next + f.imm.size = End(f, at)
               /\ \A size : ImmAt(c, OperandsAt(c, at, f.rm.size).next, f.imm.size, size) = Meant(f.imm, size)
<1> DEFINE m == OperandsAt(c, at, f.rm.size)
<1>1. IsPlainForm(f)
  BY OneByteFormIsPlain
<1>2. /\ m.field = Field(f) /\ m.rm = f.rm
      /\ IsReg(f.field) /\ f.field.size = f.rm.size => m.reg = f.field
      /\ f.imm = None => m.next = End(f, at)
      /\ f.imm # None => m.next + f.imm.size = End(f, at) /\ Bytes(c, m.next, f.imm.size) = f.imm.bytes
  BY <1>1, PlainOperands
<1> HIDE DEF m
<1>3. f.field # None /\ f.field.kind = "ext" => Field(f) = f.field.n
  BY DEF Field, IsReg
<1>4. f.imm # None => \A size : ImmAt(c, m.next, f.imm.size, size) = Meant(f.imm, size)
  <2>1. f.imm # None => IsImmOperand(f.imm)
    BY DEF OneByteForm
  <2> QED BY <1>2, <2>1, ImmIsRead, Zenon
<1>5. IsRegOperand(f.field) => IsReg(f.field)
  BY DEF IsRegOperand
<1> QED BY <1>2, <1>3, <1>4, <1>5, Zenon DEF m

(* The same without register or memory operands.                            *)
LEMMA ReadsNoOperands ==
  ASSUME NEW f, NEW op, OneByteForm(f, op), f.rm = None, NEW c, NEW at \in Int, HasForm(f, c, at)
  PROVE  /\ f.imm = None => OpcodeAt(c, at) + 1 = End(f, at)
         /\ f.imm # None =>
               /\ OpcodeAt(c, at) + 1 + f.imm.size = End(f, at)
               /\ \A size : ImmAt(c, OpcodeAt(c, at) + 1, f.imm.size, size) = Meant(f.imm, size)
<1> DEFINE q == OpcodeAt(c, at) + 1
<1>1. IsPlainForm(f)
  BY OneByteFormIsPlain
<1>2. /\ f.imm = None => q = End(f, at)
      /\ f.imm # None => q + f.imm.size = End(f, at) /\ Bytes(c, q, f.imm.size) = f.imm.bytes
  BY <1>1, PlainNoOperands
<1> HIDE DEF q
<1>3. f.imm # None => IsImmOperand(f.imm)
  BY DEF OneByteForm
<1>4. f.imm # None => \A size : ImmAt(c, q, f.imm.size, size) = Meant(f.imm, size)
  BY <1>2, <1>3, ImmIsRead, Zenon
<1> QED BY <1>2, <1>4, Zenon DEF q

-----------------------------------------------------------------------------
(* The instructions, class by class: what is read is what is written.       *)

(* What is read is the instruction, and all of it.                          *)
ReadsAs(c, at, i, args) ==
    /\ Decode(c, at).op = i.name /\ SameArgs(i.name, Decode(c, at).args, args)
    /\ Decode(c, at).next = at + Len(Encode(i))

(* What has to be shown of each instruction.                                *)
LEMMA ReadsAsRead ==
  ASSUME NEW c, NEW at, NEW i, NEW args, NEW next, Decode(c, at) = Read(i.name, args, next),
         next = at + Len(Encode(i))
  PROVE  ReadsAs(c, at, i, args)
<1>1. Decode(c, at).op = i.name /\ Decode(c, at).args = args /\ Decode(c, at).next = next
  BY DEF Read
<1> QED BY <1>1, Zenon DEF ReadsAs, SameArgs

(* Registers and memory operands mean themselves.                           *)
LEMMA MeantRM == ASSUME NEW o, NEW size, IsRM(o) PROVE Meant(o, size) = o
  BY DEF Meant, IsRM, IsReg, IsMem, IsImm

(* Opcodes and extensions of the binary instructions are numbered as the    *)
(* decoder has them.                                                        *)
LEMMA BinaryName ==
  ASSUME NEW name \in BinaryNames
  PROVE  \E n \in 0..7 : ALBase[name] = 8 * n /\ ALExt[name] = n /\ ALNames[n + 1] = name
<1>1. name \in {"add", "or", "adc", "sbb", "and", "sub", "xor", "cmp"}
  BY DEF BinaryNames, ALBase
<1>2. CASE name = "add"
  <2>1. ALBase[name] = 8 * 0 /\ ALExt[name] = 0 /\ ALNames[0 + 1] = name
    BY <1>2 DEF ALBase, ALExt, ALNames
  <2> QED BY <2>1
<1>3. CASE name = "or"
  <2>1. ALBase[name] = 8 * 1 /\ ALExt[name] = 1 /\ ALNames[1 + 1] = name
    BY <1>3 DEF ALBase, ALExt, ALNames
  <2> QED BY <2>1
<1>4. CASE name = "adc"
  <2>1. ALBase[name] = 8 * 2 /\ ALExt[name] = 2 /\ ALNames[2 + 1] = name
    BY <1>4 DEF ALBase, ALExt, ALNames
  <2> QED BY <2>1
<1>5. CASE name = "sbb"
  <2>1. ALBase[name] = 8 * 3 /\ ALExt[name] = 3 /\ ALNames[3 + 1] = name
    BY <1>5 DEF ALBase, ALExt, ALNames
  <2> QED BY <2>1
<1>6. CASE name = "and"
  <2>1. ALBase[name] = 8 * 4 /\ ALExt[name] = 4 /\ ALNames[4 + 1] = name
    BY <1>6 DEF ALBase, ALExt, ALNames
  <2> QED BY <2>1
<1>7. CASE name = "sub"
  <2>1. ALBase[name] = 8 * 5 /\ ALExt[name] = 5 /\ ALNames[5 + 1] = name
    BY <1>7 DEF ALBase, ALExt, ALNames
  <2> QED BY <2>1
<1>8. CASE name = "xor"
  <2>1. ALBase[name] = 8 * 6 /\ ALExt[name] = 6 /\ ALNames[6 + 1] = name
    BY <1>8 DEF ALBase, ALExt, ALNames
  <2> QED BY <2>1
<1>9. CASE name = "cmp"
  <2>1. ALBase[name] = 8 * 7 /\ ALExt[name] = 7 /\ ALNames[7 + 1] = name
    BY <1>9 DEF ALBase, ALExt, ALNames
  <2> QED BY <2>1
<1> QED BY <1>1, <1>2, <1>3, <1>4, <1>5, <1>6, <1>7, <1>8, <1>9

(* So are those of the unary instructions.                                  *)
LEMMA UnaryName ==
  ASSUME NEW name \in UnaryNames
  PROVE  UnaryExt[name] \in 2..7 /\ Group3Names[UnaryExt[name] + 1] = name
<1>1. name \in {"not", "neg", "mul", "imul", "div", "idiv"}
  BY DEF UnaryNames, UnaryExt
<1>2. /\ name = "not" => UnaryExt[name] = 2
      /\ name = "neg" => UnaryExt[name] = 3
      /\ name = "mul" => UnaryExt[name] = 4
      /\ name = "imul" => UnaryExt[name] = 5
      /\ name = "div" => UnaryExt[name] = 6
      /\ name = "idiv" => UnaryExt[name] = 7
  BY DEF UnaryExt
<1>3. /\ Group3Names[3] = "not" /\ Group3Names[4] = "neg" /\ Group3Names[5] = "mul"
      /\ Group3Names[6] = "imul" /\ Group3Names[7] = "div" /\ Group3Names[8] = "idiv"
  BY DEF Group3Names
<1> QED BY <1>1, <1>2, <1>3

(* The names of each class are its own.                                     *)
LEMMA ClassOfName ==
  ASSUME NEW i
  PROVE  /\ i.name \in BinaryNames => Encode(i) = Assemble(EncodeBinary(i))
         /\ i.name \in UnaryNames /\ i.b = None => Encode(i) = Assemble(EncodeUnary(i))
         /\ i.name = "imul" /\ i.b # None => Encode(i) = Assemble(EncodeImul(i))
         /\ i.name \in {"sign_extend_a", "sign_extend_ad"} => Encode(i) = Assemble(EncodeSignExtend(i))
         /\ i.name = "test" => Encode(i) = Assemble(EncodeTest(i))
         /\ i.name = "mov" => Encode(i) = Assemble(EncodeMov(i))
         /\ i.name = "xchg" => Encode(i) = Assemble(EncodeXchg(i))
         /\ i.name = "push" => Encode(i) = Assemble(EncodePush(i))
         /\ i.name = "pop" => Encode(i) = Assemble(EncodePop(i))
         /\ i.name = "setcc" => Encode(i) = Assemble(EncodeSetcc(i))
         /\ i.name \in ControlNames => Encode(i) = EncodeControl(i)
<1>1. /\ BinaryNames = {"add", "or", "adc", "sbb", "and", "sub", "xor", "cmp"}
      /\ UnaryNames = {"not", "neg", "mul", "imul", "div", "idiv"}
      /\ ControlNames = {"jcc", "jmp", "call", "syscall", "ret"}
  BY DEF BinaryNames, ALBase, UnaryNames, UnaryExt, ControlNames
<1>2. i.name \in BinaryNames => Encode(i) = Assemble(EncodeBinary(i))
  BY <1>1 DEF Encode, FormOf
<1>3. i.name \in UnaryNames /\ i.b = None => Encode(i) = Assemble(EncodeUnary(i))
  BY <1>1 DEF Encode, FormOf
<1>4. i.name = "imul" /\ i.b # None => Encode(i) = Assemble(EncodeImul(i))
  BY <1>1 DEF Encode, FormOf
<1>5. i.name \in {"sign_extend_a", "sign_extend_ad"} => Encode(i) = Assemble(EncodeSignExtend(i))
  BY <1>1 DEF Encode, FormOf
<1>6. /\ i.name = "test" => Encode(i) = Assemble(EncodeTest(i))
      /\ i.name = "mov" => Encode(i) = Assemble(EncodeMov(i))
      /\ i.name = "xchg" => Encode(i) = Assemble(EncodeXchg(i))
      /\ i.name = "push" => Encode(i) = Assemble(EncodePush(i))
      /\ i.name = "pop" => Encode(i) = Assemble(EncodePop(i))
      /\ i.name = "setcc" => Encode(i) = Assemble(EncodeSetcc(i))
  BY <1>1 DEF Encode, FormOf
<1>7. i.name \in ControlNames => Encode(i) = EncodeControl(i)
  BY <1>1 DEF Encode, FormOf
<1> QED BY <1>2, <1>3, <1>4, <1>5, <1>6, <1>7

(* What the constructor of each class accepts.                              *)
LEMMA InstrOfName ==
  ASSUME NEW i, IsInstr(i)
  PROVE  /\ \A o \in {i.a, i.b, i.c} : IsRM(o) \/ IsImm(o) => IsOperand(o)
         /\ i.name \in BinaryNames => IsRM(i.a) /\ BinaryConstructible(i.a, i.b) /\ i.c = None
         /\ i.name \in UnaryNames /\ i.b = None => IsRM(i.a) /\ i.c = None
         /\ i.name = "imul" /\ i.b # None => ImulConstructible(i) /\ (IsImm(i.c) \/ i.c = None)
         /\ i.name \in {"sign_extend_a", "sign_extend_ad"} => i.size \in {2, 4, 8}
         /\ i.name = "test" => TestConstructible(i.a, i.b) /\ i.c = None
         /\ i.name = "mov" => MovConstructible(i.a, i.b) /\ i.c = None
         /\ i.name = "xchg" => IsRM(i.a) /\ IsReg(i.b) /\ i.a.size = i.b.size /\ i.c = None
         /\ i.name = "push" => /\ i.b = None
                               /\ \/ IsRM(i.a) /\ i.a.size \in {2, 8}
                                  \/ IsImm(i.a) /\ i.a.size # 8
         /\ i.name = "pop" => i.b = None /\ IsRM(i.a) /\ i.a.size \in {2, 8}
         /\ i.name = "setcc" => i.cond \in 0..15 /\ IsRM(i.a) /\ i.a.size = 1
         /\ i.name = "jcc" => i.cond \in 0..15 /\ i.a.kind = "block"
         /\ i.name = "jmp" => i.b = None /\ (i.a.kind = "block" \/ (IsRM(i.a) /\ i.a.size = 8))
         /\ i.name = "call" => i.b = None /\ (i.a.kind = "func" \/ (IsRM(i.a) /\ i.a.size = 8))
<1>1. /\ BinaryNames = {"add", "or", "adc", "sbb", "and", "sub", "xor", "cmp"}
      /\ UnaryNames = {"not", "neg", "mul", "imul", "div", "idiv"}
      /\ ControlNames = {"jcc", "jmp", "call", "syscall", "ret"}
  BY DEF BinaryNames, ALBase, UnaryNames, UnaryExt, ControlNames
<1>2. /\ \A o \in {i.a, i.b, i.c} : IsRM(o) \/ IsImm(o) => IsOperand(o)
      /\ i.name \in BinaryNames => IsRM(i.a) /\ BinaryConstructible(i.a, i.b) /\ i.c = None
  BY <1>1 DEF IsInstr
<1>3. /\ i.name \in UnaryNames /\ i.b = None => IsRM(i.a) /\ i.c = None
      /\ i.name = "imul" /\ i.b # None => ImulConstructible(i) /\ (IsImm(i.c) \/ i.c = None)
      /\ i.name \in {"sign_extend_a", "sign_extend_ad"} => i.size \in {2, 4, 8}
  BY <1>1 DEF IsInstr
<1>4. /\ i.name = "test" => TestConstructible(i.a, i.b) /\ i.c = None
      /\ i.name = "mov" => MovConstructible(i.a, i.b) /\ i.c = None
      /\ i.name = "xchg" => IsRM(i.a) /\ IsReg(i.b) /\ i.a.size = i.b.size /\ i.c = None
  BY <1>1 DEF IsInstr
<1>5. /\ i.name = "push" => /\ i.b = None
                            /\ \/ IsRM(i.a) /\ i.a.size \in {2, 8}
                               \/ IsImm(i.a) /\ i.a.size # 8
      /\ i.name = "pop" => i.b = None /\ IsRM(i.a) /\ i.a.size \in {2, 8}
      /\ i.name = "setcc" => i.cond \in 0..15 /\ IsRM(i.a) /\ i.a.size = 1
  BY <1>1 DEF IsInstr
<1>6. /\ i.name = "jcc" => i.cond \in 0..15 /\ i.a.kind = "block"
      /\ i.name = "jmp" => i.b = None /\ (i.a.kind = "block" \/ (IsRM(i.a) /\ i.a.size = 8))
      /\ i.name = "call" => i.b = None /\ (i.a.kind = "func" \/ (IsRM(i.a) /\ i.a.size = 8))
  BY <1>1 DEF IsInstr
<1> QED BY <1>2, <1>3, <1>4, <1>5, <1>6

(* The two arguments of a binary instruction.                               *)
LEMMA Args2 ==
  ASSUME NEW i, i.c = None, i.b # None, i.name \in BinaryNames \cup {"test", "mov", "xchg", "imul"},
         ~ZeroExtends(i)
  PROVE  Args(i) = <<Meant(i.a, i.a.size), Meant(i.b, i.a.size)>>
<1>1. i.name \in {"add", "or", "adc", "sbb", "and", "sub", "xor", "cmp", "test", "mov", "xchg", "imul"}
  BY DEF BinaryNames, ALBase
<1> QED BY <1>1 DEF Args

(* The operands of an instruction are operands.                             *)
LEMMA OperandOfInstr ==
  ASSUME NEW i, IsInstr(i), NEW o \in {i.a, i.b, i.c}
  PROVE  /\ IsRM(o) => IsRMOperand(o) /\ o.size \in {1, 2, 4, 8} /\ o # None /\ o.kind # "ext"
         /\ IsReg(o) => IsRegOperand(o) /\ o.reg \in 0..15 /\ o = Reg(o.size, o.reg)
         /\ IsImm(o) => IsImmOperand(o) /\ o.size \in {1, 2, 4, 8} /\ o # None
<1>1. IsRM(o) \/ IsImm(o) => IsOperand(o)
  BY InstrOfName
<1>2. IsReg(o) \/ IsMem(o) <=> IsRM(o)
  BY DEF IsRM
<1>3. /\ IsRM(o) => o # None /\ o.kind # "ext"
      /\ IsImm(o) => o # None
  BY DEF IsRM, IsImm, IsReg, IsMem, None
<1>4. IsReg(o) => IsRegOperand(o) /\ o.reg \in 0..15 /\ o.size \in {1, 2, 4, 8}
  BY <1>1, <1>2, Register DEF IsRegOperand
<1>5. IsMem(o) => o.size \in {1, 2, 4, 8}
  BY <1>1, <1>2, Memory
<1>6. IsReg(o) => o = Reg(o.size, o.reg)
  BY <1>1, <1>2 DEF IsOperand, IsReg, IsMem, IsImm
<1>7. IsImm(o) => IsImmOperand(o) /\ o.size \in {1, 2, 4, 8}
  BY <1>1 DEF IsImmOperand, IsOperand, IsReg, IsMem, IsImm, Sizes
<1>8. IsRM(o) => IsRMOperand(o)
  BY <1>1, <1>2 DEF IsRMOperand
<1> QED BY <1>2, <1>3, <1>4, <1>5, <1>6, <1>7, <1>8

(* not, neg, mul, imul, div and idiv are read as they are written.          *)
LEMMA UnaryReads ==
  ASSUME NEW i, IsInstr(i), i.name \in UnaryNames, i.b = None,
         NEW c, NEW at \in Int, HasBytes(c, at, Encode(i))
  PROVE  ReadsAs(c, at, i, Args(i))
<1> DEFINE f == EncodeUnary(i)
           w == IF i.a.size = 1 THEN 0 ELSE 1
           m == OperandsAt(c, at, i.a.size)
<1>1. IsRM(i.a) /\ Encode(i) = Assemble(f)
  BY InstrOfName, ClassOfName
<1>2. IsRMOperand(i.a) /\ i.a.size \in {1, 2, 4, 8} /\ i.a # None
  BY <1>1, OperandOfInstr
<1>3. UnaryExt[i.name] \in 2..7 /\ Group3Names[UnaryExt[i.name] + 1] = i.name
  BY UnaryName
<1>4. /\ f.size = i.a.size /\ f.rex = {i.a} /\ f.opcode = <<246 + w>> /\ f.inOpcode = None
      /\ f.field = Ext(UnaryExt[i.name]) /\ f.rm = i.a /\ f.imm = None
  BY DEF EncodeUnary, Form, Wide
<1> HIDE DEF f
<1>5. f.field.kind = "ext" /\ f.field.n = UnaryExt[i.name] /\ f.field # None
  BY <1>4 DEF Ext, None
<1>6. OneByteForm(f, 246 + w)
  BY <1>2, <1>3, <1>4, <1>5 DEF OneByteForm
<1>7. HasForm(f, c, at) /\ End(f, at) = at + Len(Encode(i))
  BY <1>1 DEF HasForm, End
<1>8. /\ IsDecodable(c, at) /\ Opcode(c, at) = 246 + w
      /\ i.a.size = IF w = 0 THEN 1 ELSE SizeAt(c, at)
  BY <1>2, <1>4, <1>6, <1>7, ReadsOpcode
<1>9. m.rm = i.a /\ m.field = UnaryExt[i.name] /\ m.next = End(f, at)
  BY <1>2, <1>4, <1>5, <1>6, <1>7, ReadsOperands
<1>10. Decode(c, at) = Read(Group3Names[m.field + 1], <<m.rm>>, m.next)
  <2>1. m.field # 0 /\ w \in {0, 1}
    BY <1>3, <1>9
  <2> HIDE DEF w, m
  <2> QED BY <1>8, <2>1, DecodesGroup3 DEF m
<1>11. Decode(c, at) = Read(i.name, <<i.a>>, End(f, at))
  BY <1>3, <1>9, <1>10
<1>12. Args(i) = <<i.a>>
  <2>1. i.name \in {"not", "neg", "mul", "imul", "div", "idiv"}
    BY DEF UnaryNames, UnaryExt
  <2>2. Args(i) = <<Meant(i.a, i.a.size)>>
    BY <2>1 DEF Args, ZeroExtends
  <2> QED BY <1>1, <2>2, MeantRM
<1> QED BY <1>7, <1>11, <1>12, ReadsAsRead

W(size) == IF size = 1 THEN 0 ELSE 1

(* A full immediate has the size the decoder expects.                       *)
LEMMA FullImmSize ==
  ASSUME NEW a, NEW b, FullImm(a, b), b.size # 8, a.size \in {1, 2, 4, 8}
  PROVE  b.size = Full(a.size)
  BY DEF FullImm, Full

(* add to cmp in the short form of the accumulator.                         *)
LEMMA BinaryAccumulatorReads ==
  ASSUME NEW i, IsInstr(i), i.name \in BinaryNames, IsImm(i.b), UsesRegA(i.a, i.b),
         NEW c, NEW at \in Int, HasBytes(c, at, Encode(i))
  PROVE  ReadsAs(c, at, i, Args(i))
<1> PICK n \in 0..7 : ALBase[i.name] = 8 * n /\ ALExt[i.name] = n /\ ALNames[n + 1] = i.name
  BY BinaryName
<1> DEFINE f == EncodeBinary(i)
           size == i.a.size
           w == W(size)
           q == OpcodeAt(c, at) + 1
<1>1. IsRM(i.a) /\ BinaryConstructible(i.a, i.b) /\ i.c = None /\ Encode(i) = Assemble(f)
  BY InstrOfName, ClassOfName
<1>2. FullImm(i.a, i.b) /\ i.b.size # 8 /\ IsReg(i.a) /\ i.a.reg = 0
  BY <1>1 DEF BinaryConstructible, UsesRegA, OpEncoding
<1>3. /\ size \in {1, 2, 4, 8} /\ i.a = Reg(size, 0) /\ IsImmOperand(i.b) /\ i.b # None
  BY <1>1, <1>2, OperandOfInstr
<1>4. f = Form(size, {i.a, i.b}, Wide(8 * n + 4, i.a), None, None, None, i.b)
  BY DEF EncodeBinary, UsesRegA
<1>5. /\ f.size = size /\ f.opcode = <<8 * n + 4 + w>> /\ f.inOpcode = None
      /\ f.field = None /\ f.rm = None /\ f.imm = i.b
  BY <1>4 DEF Form, Wide, W
<1>6. w \in {0, 1} /\ (w = 0 <=> size = 1)
  BY DEF W
<1> HIDE DEF f, w
<1>7. OneByteForm(f, 8 * n + 4 + w)
  <2>1. 8 * n + 4 + w \in 0..255 /\ 8 * n + 4 + w # 102 /\ (8 * n + 4 + w) \div 16 # 4
    BY <1>6
  <2> QED BY <1>3, <1>5, <2>1 DEF OneByteForm
<1>8. HasForm(f, c, at) /\ End(f, at) = at + Len(Encode(i))
  BY <1>1 DEF HasForm, End
<1>9. /\ IsDecodable(c, at) /\ Opcode(c, at) = 8 * n + 4 + w
      /\ size = IF w = 0 THEN 1 ELSE SizeAt(c, at)
  BY <1>3, <1>5, <1>6, <1>7, <1>8, ReadsOpcode
<1>10. i.b.size = Full(size)
  BY <1>2, <1>3, FullImmSize
<1>11. q + Full(size) = End(f, at) /\ ImmAt(c, q, Full(size), size) = Meant(i.b, size)
  <2>1. f.rm = None /\ f.imm # None
    BY <1>3, <1>5
  <2>2. q + f.imm.size = End(f, at) /\ ImmAt(c, q, f.imm.size, size) = Meant(f.imm, size)
    BY <1>7, <1>8, <2>1, ReadsNoOperands, Zenon
  <2> QED BY <1>5, <1>10, <2>2
<1>12. Decode(c, at) = Read(ALNames[n + 1], <<RegOf(ReadPrefixes(c, at), size, 0), ImmAt(c, q,
              Full(size), size)>>,
                            q + Full(size))
  BY <1>6, <1>9, DecodesArithmeticAcc
<1>13. RegOf(ReadPrefixes(c, at), size, 0) = i.a
  BY <1>3 DEF RegOf
<1>14. Decode(c, at) = Read(i.name, <<i.a, Meant(i.b, size)>>, End(f, at))
  BY <1>11, <1>12, <1>13
<1>15. Args(i) = <<i.a, Meant(i.b, size)>>
  <2>1. ~ZeroExtends(i)
    BY DEF ZeroExtends, BinaryNames, ALBase
  <2>2. Meant(i.a, size) = i.a
    BY <1>1, MeantRM
  <2> QED BY <1>1, <1>3, <2>1, <2>2, Args2
<1> QED BY <1>8, <1>14, <1>15, ReadsAsRead

(* add to cmp with a full immediate.                                        *)
LEMMA BinaryImmReads ==
  ASSUME NEW i, IsInstr(i), i.name \in BinaryNames, IsImm(i.b), ~UsesRegA(i.a, i.b),
         FullImm(i.a, i.b), NEW c, NEW at \in Int, HasBytes(c, at, Encode(i))
  PROVE  ReadsAs(c, at, i, Args(i))
<1> PICK n \in 0..7 : ALBase[i.name] = 8 * n /\ ALExt[i.name] = n /\ ALNames[n + 1] = i.name
  BY BinaryName
<1> DEFINE f == EncodeBinary(i)
           size == i.a.size
           w == W(size)
           m == OperandsAt(c, at, size)
<1>1. IsRM(i.a) /\ BinaryConstructible(i.a, i.b) /\ i.c = None /\ Encode(i) = Assemble(f)
  BY InstrOfName, ClassOfName
<1>2. i.b.size # 8 /\ OpEncoding(i.a, i.b) = "RM_IMM"
  BY <1>1 DEF BinaryConstructible, OpEncoding
<1>3. /\ size \in {1, 2, 4, 8} /\ IsRMOperand(i.a) /\ i.a # None /\ IsImmOperand(i.b) /\ i.b # None
  BY <1>1, <1>2, OperandOfInstr
<1>4. f = Form(size, {i.a, i.b}, Wide(128, i.a), None, Ext(n), i.a, i.b)
  BY <1>2 DEF EncodeBinary
<1>5. /\ f.size = size /\ f.opcode = <<128 + w>> /\ f.inOpcode = None /\ i.a \in f.rex
      /\ f.field = Ext(n) /\ f.rm = i.a /\ f.imm = i.b
  BY <1>4 DEF Form, Wide, W
<1>6. w \in {0, 1} /\ (w = 0 <=> size = 1)
  BY DEF W
<1> HIDE DEF f, w
<1>7. f.field.kind = "ext" /\ f.field.n = n /\ f.field # None
  BY <1>5 DEF Ext, None
<1>8. OneByteForm(f, 128 + w)
  BY <1>3, <1>5, <1>6, <1>7 DEF OneByteForm
<1>9. HasForm(f, c, at) /\ End(f, at) = at + Len(Encode(i))
  BY <1>1 DEF HasForm, End
<1>10. /\ IsDecodable(c, at) /\ Opcode(c, at) = 128 + w
       /\ size = IF w = 0 THEN 1 ELSE SizeAt(c, at)
  BY <1>3, <1>5, <1>6, <1>8, <1>9, ReadsOpcode
<1>11. i.b.size = Full(size)
  BY <1>2, <1>3, FullImmSize
<1>12. /\ m.rm = i.a /\ m.field = n /\ m.next + Full(size) = End(f, at)
       /\ ImmAt(c, m.next, Full(size), size) = Meant(i.b, size)
  <2> DEFINE mf == OperandsAt(c, at, f.rm.size)
  <2>1. mf = m /\ f.rm # None /\ f.imm # None
    BY <1>3, <1>5
  <2>2. f.rm # None /\ f.imm # None
    BY <2>1
  <2>3. mf.rm = f.rm /\ mf.field = f.field.n
    BY <1>7, <1>8, <1>9, <2>2, ReadsOperands, Zenon
  <2>4. /\ mf.next + f.imm.size = End(f, at)
        /\ \A s : ImmAt(c, mf.next, f.imm.size, s) = Meant(f.imm, s)
    BY <1>8, <1>9, <2>2, ReadsOperands, Zenon
  <2>5. ImmAt(c, mf.next, f.imm.size, size) = Meant(f.imm, size)
    BY <2>4, Zenon
  <2> HIDE DEF m, mf
  <2> QED BY <1>5, <1>7, <1>11, <2>1, <2>3, <2>4, <2>5
<1>13. Decode(c, at) = Read(ALNames[m.field + 1], <<m.rm, ImmAt(c, m.next, Full(size), size)>>,
                            m.next + Full(size))
  <2> HIDE DEF m
  <2> QED BY <1>6, <1>10, DecodesGroup1 DEF m
<1>14. Decode(c, at) = Read(i.name, <<i.a, Meant(i.b, size)>>, End(f, at))
  <2> HIDE DEF m
  <2> QED BY <1>12, <1>13
<1>15. Args(i) = <<i.a, Meant(i.b, size)>>
  <2>1. ~ZeroExtends(i)
    BY DEF ZeroExtends, BinaryNames, ALBase
  <2>2. Meant(i.a, size) = i.a
    BY <1>1, MeantRM
  <2> QED BY <1>1, <1>3, <2>1, <2>2, Args2
<1> QED BY <1>9, <1>14, <1>15, ReadsAsRead

(* add to cmp with an immediate of one byte, which is sign-extended.        *)
LEMMA BinaryImm8Reads ==
  ASSUME NEW i, IsInstr(i), i.name \in BinaryNames, IsImm(i.b), ~FullImm(i.a, i.b),
         NEW c, NEW at \in Int, HasBytes(c, at, Encode(i))
  PROVE  ReadsAs(c, at, i, Args(i))
<1> PICK n \in 0..7 : ALBase[i.name] = 8 * n /\ ALExt[i.name] = n /\ ALNames[n + 1] = i.name
  BY BinaryName
<1> DEFINE f == EncodeBinary(i)
           size == i.a.size
           m == OperandsAt(c, at, size)
<1>1. IsRM(i.a) /\ BinaryConstructible(i.a, i.b) /\ i.c = None /\ Encode(i) = Assemble(f)
  BY InstrOfName, ClassOfName
<1>2. i.b.size = 1 /\ OpEncoding(i.a, i.b) = "RM_IMM8" /\ size # 1
  BY <1>1 DEF BinaryConstructible, OpEncoding, FullImm
<1>3. /\ size \in {2, 4, 8} /\ IsRMOperand(i.a) /\ i.a # None /\ IsImmOperand(i.b) /\ i.b # None
  BY <1>1, <1>2, OperandOfInstr
<1>4. f = Form(size, {i.a, i.b}, <<131>>, None, Ext(n), i.a, i.b)
  BY <1>2 DEF EncodeBinary, UsesRegA
<1>5. /\ f.size = size /\ f.opcode = <<131>> /\ f.inOpcode = None /\ i.a \in f.rex
      /\ f.field = Ext(n) /\ f.rm = i.a /\ f.imm = i.b
  BY <1>4 DEF Form
<1> HIDE DEF f
<1>7. f.field.kind = "ext" /\ f.field.n = n /\ f.field # None
  BY <1>5 DEF Ext, None
<1>8. OneByteForm(f, 131)
  BY <1>3, <1>5, <1>7 DEF OneByteForm
<1>9. HasForm(f, c, at) /\ End(f, at) = at + Len(Encode(i))
  BY <1>1 DEF HasForm, End
<1>10. IsDecodable(c, at) /\ Opcode(c, at) = 131 /\ size = SizeAt(c, at)
  BY <1>3, <1>5, <1>8, <1>9, ReadsOpcode
<1>12. /\ m.rm = i.a /\ m.field = n /\ m.next + 1 = End(f, at)
       /\ ImmAt(c, m.next, 1, size) = Meant(i.b, size)
  <2> DEFINE mf == OperandsAt(c, at, f.rm.size)
  <2>1. mf = m /\ f.rm # None /\ f.imm # None
    BY <1>3, <1>5
  <2>2. f.rm # None /\ f.imm # None
    BY <2>1
  <2>3. mf.rm = f.rm /\ mf.field = f.field.n
    BY <1>7, <1>8, <1>9, <2>2, ReadsOperands, Zenon
  <2>4. /\ mf.next + f.imm.size = End(f, at)
        /\ \A s : ImmAt(c, mf.next, f.imm.size, s) = Meant(f.imm, s)
    BY <1>8, <1>9, <2>2, ReadsOperands, Zenon
  <2>5. ImmAt(c, mf.next, f.imm.size, size) = Meant(f.imm, size)
    BY <2>4, Zenon
  <2> HIDE DEF m, mf
  <2> QED BY <1>2, <1>5, <1>7, <2>1, <2>3, <2>4, <2>5
<1>13. Decode(c, at) = Read(ALNames[m.field + 1], <<m.rm, ImmAt(c, m.next, 1, size)>>, m.next + 1)
  <2> HIDE DEF m
  <2> QED BY <1>10, DecodesGroup1Imm8 DEF m
<1>14. Decode(c, at) = Read(i.name, <<i.a, Meant(i.b, size)>>, End(f, at))
  <2> HIDE DEF m
  <2> QED BY <1>12, <1>13
<1>15. Args(i) = <<i.a, Meant(i.b, size)>>
  <2>1. ~ZeroExtends(i)
    BY DEF ZeroExtends, BinaryNames, ALBase
  <2>2. Meant(i.a, size) = i.a
    BY <1>1, MeantRM
  <2> QED BY <1>1, <1>3, <2>1, <2>2, Args2
<1> QED BY <1>9, <1>14, <1>15, ReadsAsRead

(* add to cmp of a register into memory.                                    *)
LEMMA BinaryRMRegReads ==
  ASSUME NEW i, IsInstr(i), i.name \in BinaryNames, ~IsImm(i.b), ~IsReg(i.a),
         NEW c, NEW at \in Int, HasBytes(c, at, Encode(i))
  PROVE  ReadsAs(c, at, i, Args(i))
<1> PICK n \in 0..7 : ALBase[i.name] = 8 * n /\ ALExt[i.name] = n /\ ALNames[n + 1] = i.name
  BY BinaryName
<1> DEFINE f == EncodeBinary(i)
           size == i.a.size
           w == W(size)
           m == OperandsAt(c, at, size)
<1>1. IsRM(i.a) /\ BinaryConstructible(i.a, i.b) /\ i.c = None /\ Encode(i) = Assemble(f)
  BY InstrOfName, ClassOfName
<1>2. IsReg(i.b) /\ IsRM(i.b) /\ i.b.size = size /\ OpEncoding(i.a, i.b) = "RM_REG"
  BY <1>1 DEF BinaryConstructible, OpEncoding, IsRM
<1>3. size \in {1, 2, 4, 8} /\ IsRMOperand(i.a) /\ i.a # None /\ IsRegOperand(i.b) /\ i.b # None
  BY <1>1, <1>2, OperandOfInstr
<1>4. f = Form(size, {i.a, i.b}, Wide(8 * n, i.a), None, i.b, i.a, None)
  BY <1>2 DEF EncodeBinary, UsesRegA
<1>5. /\ f.size = size /\ f.opcode = <<8 * n + w>> /\ f.inOpcode = None /\ i.a \in f.rex /\ i.b \in f.rex
      /\ f.field = i.b /\ f.rm = i.a /\ f.imm = None
  BY <1>4 DEF Form, Wide, W
<1>6. w \in {0, 1} /\ (w = 0 <=> size = 1)
  BY DEF W
<1> HIDE DEF f, w
<1>8. OneByteForm(f, 8 * n + w)
  <2>1. 8 * n + w \in 0..255 /\ 8 * n + w # 102 /\ (8 * n + w) \div 16 # 4
    BY <1>6
  <2> QED BY <1>3, <1>5, <2>1 DEF OneByteForm
<1>9. HasForm(f, c, at) /\ End(f, at) = at + Len(Encode(i))
  BY <1>1 DEF HasForm, End
<1>10. /\ IsDecodable(c, at) /\ Opcode(c, at) = 8 * n + w
       /\ size = IF w = 0 THEN 1 ELSE SizeAt(c, at)
  BY <1>3, <1>5, <1>6, <1>8, <1>9, ReadsOpcode
<1>12. m.rm = i.a /\ m.reg = i.b /\ m.next = End(f, at)
  BY <1>2, <1>3, <1>5, <1>8, <1>9, ReadsOperands
<1>13. Decode(c, at) = Read(ALNames[n + 1], <<m.rm, m.reg>>, m.next)
  <2> HIDE DEF m
  <2> QED BY <1>6, <1>10, DecodesArithmetic DEF m
<1>14. Decode(c, at) = Read(i.name, <<i.a, i.b>>, End(f, at))
  <2> HIDE DEF m
  <2> QED BY <1>12, <1>13
<1>15. Args(i) = <<i.a, i.b>>
  <2>1. ~ZeroExtends(i)
    BY DEF ZeroExtends, BinaryNames, ALBase
  <2>2. Meant(i.a, size) = i.a /\ Meant(i.b, size) = i.b
    BY <1>1, <1>2, MeantRM
  <2> QED BY <1>1, <1>3, <2>1, <2>2, Args2
<1> QED BY <1>9, <1>14, <1>15, ReadsAsRead

(* add to cmp into a register.                                              *)
LEMMA BinaryRegRMReads ==
  ASSUME NEW i, IsInstr(i), i.name \in BinaryNames, ~IsImm(i.b), IsReg(i.a),
         NEW c, NEW at \in Int, HasBytes(c, at, Encode(i))
  PROVE  ReadsAs(c, at, i, Args(i))
<1> PICK n \in 0..7 : ALBase[i.name] = 8 * n /\ ALExt[i.name] = n /\ ALNames[n + 1] = i.name
  BY BinaryName
<1> DEFINE f == EncodeBinary(i)
           size == i.a.size
           w == W(size)
           m == OperandsAt(c, at, size)
<1>1. IsRM(i.a) /\ BinaryConstructible(i.a, i.b) /\ i.c = None /\ Encode(i) = Assemble(f)
  BY InstrOfName, ClassOfName
<1>2. IsRM(i.b) /\ i.b.size = size /\ OpEncoding(i.a, i.b) = "REG_RM"
  BY <1>1 DEF BinaryConstructible, OpEncoding
<1>3. size \in {1, 2, 4, 8} /\ IsRegOperand(i.a) /\ i.a # None /\ IsRMOperand(i.b) /\ i.b # None
  BY <1>1, <1>2, OperandOfInstr
<1>4. f = Form(size, {i.a, i.b}, Wide(8 * n + 2, i.a), None, i.a, i.b, None)
  BY <1>2 DEF EncodeBinary, UsesRegA
<1>5. /\ f.size = size /\ f.opcode = <<8 * n + 2 + w>> /\ f.inOpcode = None /\ i.a \in f.rex /\ i.b \in f.rex
      /\ f.field = i.a /\ f.rm = i.b /\ f.imm = None
  BY <1>4 DEF Form, Wide, W
<1>6. w \in {0, 1} /\ (w = 0 <=> size = 1)
  BY DEF W
<1> HIDE DEF f, w
<1>8. OneByteForm(f, 8 * n + 2 + w)
  <2>1. 8 * n + 2 + w \in 0..255 /\ 8 * n + 2 + w # 102 /\ (8 * n + 2 + w) \div 16 # 4
    BY <1>6
  <2> QED BY <1>3, <1>5, <2>1 DEF OneByteForm
<1>9. HasForm(f, c, at) /\ End(f, at) = at + Len(Encode(i))
  BY <1>1 DEF HasForm, End
<1>10. /\ IsDecodable(c, at) /\ Opcode(c, at) = 8 * n + 2 + w
       /\ size = IF w = 0 THEN 1 ELSE SizeAt(c, at)
  BY <1>3, <1>5, <1>6, <1>8, <1>9, ReadsOpcode
<1>12. m.rm = i.b /\ m.reg = i.a /\ m.next = End(f, at)
  BY <1>2, <1>3, <1>5, <1>8, <1>9, ReadsOperands
<1>13. Decode(c, at) = Read(ALNames[n + 1], <<m.reg, m.rm>>, m.next)
  <2> HIDE DEF m
  <2> QED BY <1>6, <1>10, DecodesArithmeticLoad DEF m
<1>14. Decode(c, at) = Read(i.name, <<i.a, i.b>>, End(f, at))
  <2> HIDE DEF m
  <2> QED BY <1>12, <1>13
<1>15. Args(i) = <<i.a, i.b>>
  <2>1. ~ZeroExtends(i)
    BY DEF ZeroExtends, BinaryNames, ALBase
  <2>2. Meant(i.a, size) = i.a /\ Meant(i.b, size) = i.b
    BY <1>1, <1>2, MeantRM
  <2>3. IsRM(i.a)
    BY <1>1
  <2> QED BY <1>1, <1>3, <2>1, <2>2, Args2
<1> QED BY <1>9, <1>14, <1>15, ReadsAsRead

(* The binary instructions, all forms.                                      *)
LEMMA BinaryReads ==
  ASSUME NEW i, IsInstr(i), i.name \in BinaryNames,
         NEW c, NEW at \in Int, HasBytes(c, at, Encode(i))
  PROVE  ReadsAs(c, at, i, Args(i))
<1>1. CASE IsImm(i.b) /\ UsesRegA(i.a, i.b)
  BY <1>1, BinaryAccumulatorReads
<1>2. CASE IsImm(i.b) /\ ~UsesRegA(i.a, i.b) /\ FullImm(i.a, i.b)
  BY <1>2, BinaryImmReads
<1>3. CASE IsImm(i.b) /\ ~FullImm(i.a, i.b)
  BY <1>3, BinaryImm8Reads
<1>4. CASE ~IsImm(i.b) /\ ~IsReg(i.a)
  BY <1>4, BinaryRMRegReads
<1>5. CASE ~IsImm(i.b) /\ IsReg(i.a)
  BY <1>5, BinaryRegRMReads
<1> QED BY <1>1, <1>2, <1>3, <1>4, <1>5

(* A form with the opcode 0x0f op and a register or memory operand.         *)
TwoByteForm(f, op) ==
    /\ op \in 0..255 /\ f.opcode = <<15, op>> /\ f.inOpcode = None /\ f.size \in {0, 1, 2, 4, 8}
    /\ f.rm # None /\ IsRMOperand(f.rm) /\ f.rm \in f.rex
    /\ f.field = None \/ (IsRegOperand(f.field) /\ f.field \in f.rex)
    /\ f.imm = None

(* Opcode and operands of such a form are read back.                        *)
LEMMA ReadsTwoBytes ==
  ASSUME NEW f, NEW op, TwoByteForm(f, op), NEW c, NEW at \in Int, HasForm(f, c, at)
  PROVE  /\ IsDecodable(c, at) /\ Opcode(c, at) = 15 /\ Byte(c, OpcodeAt(c, at) + 1) = op
         /\ f.size \in {2, 4, 8} => SizeAt(c, at) = f.size
         /\ TwoByteOperands(c, at, f.rm.size).rm = f.rm
         /\ IsRegOperand(f.field) /\ f.field.size = f.rm.size => TwoByteOperands(c, at, f.rm.size).reg =
                       f.field
         /\ TwoByteOperands(c, at, f.rm.size).next = End(f, at)
<1> DEFINE p == ReadPrefixes(c, at)
           q == OpcodeAt(c, at)
           m == TwoByteOperands(c, at, f.rm.size)
<1>0. p = ReadPrefixes(c, at) /\ q = p.opcodeAt /\ m = ModRM(c, p, q + 2, f.rm.size)
  BY DEF OpcodeAt, TwoByteOperands
<1> HIDE DEF p, q, m
<1>1. f.opcode = <<15, op>> /\ op \in 0..255
  BY DEF TwoByteForm
<1>2. Len(f.opcode) = 2 /\ f.opcode \in Seq(0..255) /\ f.opcode # <<>> /\ f.opcode[1] = 15 /\ f.opcode[2] = op
  BY <1>1
<1>3. /\ f.inOpcode = None /\ f.size \in {0, 1, 2, 4, 8} /\ f.rm # None /\ IsRMOperand(f.rm) /\ f.rm \in f.rex
      /\ f.imm = None
      /\ f.field = None \/ (IsRegOperand(f.field) /\ f.field \in f.rex /\ f.field # None)
  BY DEF TwoByteForm
<1>4. IsForm(f)
  BY <1>2, <1>3 DEF IsForm
<1>5. HasBytes(c, at, Assemble(f))
  BY DEF HasForm
<1>6. OpcodeBytes(f) = f.opcode
  BY <1>3 DEF OpcodeBytes
<1>7. /\ Byte(c, q) = 15 /\ q \in Int /\ Byte(c, q + 1) = op
      /\ q + 2 + Len(ModRMBytes(f)) + Len(ImmBytes(f)) = End(f, at)
  <2>1. /\ Byte(c, q) = OpcodeBytes(f)[1] /\ q \in Int
        /\ \A k \in 1..Len(f.opcode) : Byte(c, q + k - 1) = f.opcode[k]
        /\ q + Len(OpcodeBytes(f)) + Len(ModRMBytes(f)) + Len(ImmBytes(f)) = at + Len(Assemble(f))
    BY <1>0, <1>3, <1>4, <1>5, ReadFormOpcode
  <2>2. 2 \in 1..Len(f.opcode) /\ q + 2 - 1 = q + 1
    BY <1>2, <2>1
  <2>3. Byte(c, q + 2 - 1) = f.opcode[2]
    BY <2>1, <2>2, Zenon
  <2>4. Byte(c, q + 1) = op
    BY <1>2, <2>2, <2>3, Zenon
  <2> QED BY <1>2, <1>6, <2>1, <2>4 DEF End
<1>8. p.size = IF f.size = 8 THEN 8 ELSE IF f.size = 2 THEN 2 ELSE 4
  BY <1>0, <1>4, <1>5, ReadPrefixesOf
<1>9. /\ m.next = q + 2 + Len(ModRMBytes(f)) /\ m.rm = f.rm
      /\ IsReg(f.field) /\ f.field.size = f.rm.size => m.reg = f.field
  <2>1. ModRMAt(f, c, at) = q + 2
    <3>1. Len(OpcodeBytes(f)) = 2
      BY <1>2, <1>6, Zenon
    <3> QED BY <1>0, <3>1, Zenon DEF ModRMAt
  <2>2. m = ReadModRM(f, c, at, f.rm.size)
    BY <1>0, <2>1, Zenon DEF ReadModRM
  <2> QED BY <1>3, <1>4, <1>5, <2>1, <2>2, ReadFormOperands
<1>10. m.next = End(f, at)
  <2>1. Len(ImmBytes(f)) = 0
    BY <1>3 DEF ImmBytes
  <2>2. Len(ModRMBytes(f)) \in Int
    BY <1>4, PartsAreSeqs
  <2> QED BY <1>7, <1>9, <2>1, <2>2
<1>11. IsRegOperand(f.field) => IsReg(f.field)
  BY DEF IsRegOperand
<1>12. IsDecodable(c, at) /\ (f.size \in {2, 4, 8} => SizeAt(c, at) = f.size)
  BY <1>0, <1>7, <1>8 DEF IsDecodable, SizeAt, q
<1> QED BY <1>7, <1>9, <1>10, <1>11, <1>12 DEF m, q, Opcode

(* The arguments of setcc.                                                  *)
LEMMA SetccArgs == ASSUME NEW i, i.name = "setcc" PROVE Args(i) = <<i.cond, i.a>>
  BY DEF Args, ZeroExtends

(* setcc is read as it is written.                                          *)
LEMMA SetccReads ==
  ASSUME NEW i, IsInstr(i), i.name = "setcc",
         NEW c, NEW at \in Int, HasBytes(c, at, Encode(i))
  PROVE  ReadsAs(c, at, i, Args(i))
<1> DEFINE f == EncodeSetcc(i)
           m == TwoByteOperands(c, at, 1)
           q == OpcodeAt(c, at) + 1
<1>1. i.cond \in 0..15 /\ IsRM(i.a) /\ i.a.size = 1 /\ Encode(i) = Assemble(f)
  BY InstrOfName, ClassOfName
<1>2. IsRMOperand(i.a) /\ i.a # None
  BY <1>1, OperandOfInstr
<1>3. /\ f.size = 0 /\ f.opcode = <<15, 144 + i.cond>> /\ f.inOpcode = None /\ i.a \in f.rex
      /\ f.field = None /\ f.rm = i.a /\ f.imm = None
  BY DEF EncodeSetcc, Form
<1> HIDE DEF f
<1>4. TwoByteForm(f, 144 + i.cond)
  BY <1>1, <1>2, <1>3 DEF TwoByteForm
<1>5. HasForm(f, c, at) /\ End(f, at) = at + Len(Encode(i))
  BY <1>1 DEF HasForm, End
<1>6. IsDecodable(c, at) /\ Opcode(c, at) = 15 /\ Byte(c, q) = 144 + i.cond /\ m.rm = i.a /\ m.next =
              End(f, at)
  BY <1>1, <1>3, <1>4, <1>5, ReadsTwoBytes
<1>8. Decode(c, at) = Read("setcc", <<(144 + i.cond) % 16, m.rm>>, m.next)
  <2>1. 144 + i.cond \in 144..159
    BY <1>1
  <2> QED BY <1>6, <2>1, DecodesSetcc
<1>9. (144 + i.cond) % 16 = i.cond
  BY <1>1
<1>10. Decode(c, at) = Read(i.name, <<i.cond, i.a>>, End(f, at))
  <2> HIDE DEF m
  <2> QED BY <1>6, <1>8, <1>9
<1>11. Args(i) = <<i.cond, i.a>>
  BY SetccArgs
<1> QED BY <1>5, <1>10, <1>11, ReadsAsRead

(* The three arguments of imul.                                             *)
LEMMA ImulArgs ==
  ASSUME NEW i, i.name = "imul", i.b # None, i.c # None
  PROVE  Args(i) = <<Meant(i.a, i.a.size), Meant(i.b, i.a.size), Meant(i.c, i.a.size)>>
  BY DEF Args, ZeroExtends

(* imul of two operands.                                                    *)
LEMMA ImulTwoReads ==
  ASSUME NEW i, IsInstr(i), i.name = "imul", i.b # None, i.c = None,
         NEW c, NEW at \in Int, HasBytes(c, at, Encode(i))
  PROVE  ReadsAs(c, at, i, Args(i))
<1> DEFINE f == EncodeImul(i)
           size == i.a.size
           m == TwoByteOperands(c, at, size)
           q == OpcodeAt(c, at) + 1
<1>1. ImulConstructible(i) /\ Encode(i) = Assemble(f)
  BY InstrOfName, ClassOfName
<1>2. i.b.size = size /\ size # 1 /\ IsReg(i.a) /\ IsRM(i.a) /\ IsRM(i.b)
  BY <1>1 DEF ImulConstructible, IsRM
<1>3. size \in {2, 4, 8} /\ IsRegOperand(i.a) /\ i.a # None /\ IsRMOperand(i.b)
  BY <1>2, OperandOfInstr
<1>4. /\ f.size = size /\ f.opcode = <<15, 175>> /\ f.inOpcode = None /\ i.a \in f.rex /\ i.b \in f.rex
      /\ f.field = i.a /\ f.rm = i.b /\ f.imm = None
  BY <1>2 DEF EncodeImul, Form, CanSkipImm
<1> HIDE DEF f
<1>5. TwoByteForm(f, 175)
  BY <1>3, <1>4 DEF TwoByteForm
<1>6. HasForm(f, c, at) /\ End(f, at) = at + Len(Encode(i))
  BY <1>1 DEF HasForm, End
<1>7. /\ IsDecodable(c, at) /\ Opcode(c, at) = 15 /\ Byte(c, q) = 175 /\ SizeAt(c, at) = size
      /\ m.rm = i.b /\ m.reg = i.a /\ m.next = End(f, at)
  BY <1>2, <1>3, <1>4, <1>5, <1>6, ReadsTwoBytes
<1>9. Decode(c, at) = Read("imul", <<m.reg, m.rm>>, m.next)
  BY <1>7, DecodesImul
<1>10. Decode(c, at) = Read(i.name, <<i.a, i.b>>, End(f, at))
  <2> HIDE DEF m
  <2> QED BY <1>7, <1>9
<1>11. Args(i) = <<i.a, i.b>>
  <2>1. ~ZeroExtends(i)
    BY DEF ZeroExtends
  <2>2. Meant(i.a, size) = i.a /\ Meant(i.b, size) = i.b
    BY <1>2, MeantRM
  <2> QED BY <1>1, <2>1, <2>2, Args2
<1> QED BY <1>6, <1>10, <1>11, ReadsAsRead

(* imul with an immediate, unless it is the constant one.                   *)
LEMMA ImulImmReads ==
  ASSUME NEW i, IsInstr(i), ~Misencoded(i), i.name = "imul", i.b # None, i.c # None,
         NEW c, NEW at \in Int, HasBytes(c, at, Encode(i))
  PROVE  ReadsAs(c, at, i, Args(i))
<1> DEFINE f == EncodeImul(i)
           size == i.a.size
           m == OperandsAt(c, at, size)
           full == FullImm(i.a, i.c)
           op == IF full THEN 105 ELSE 107
           n == IF full THEN Full(size) ELSE 1
<1>1. ImulConstructible(i) /\ Encode(i) = Assemble(f) /\ IsImm(i.c)
  BY InstrOfName, ClassOfName
<1>2. /\ i.b.size = size /\ size # 1 /\ IsReg(i.a) /\ IsRM(i.a) /\ IsRM(i.b)
      /\ i.c.size # 8 /\ (full \/ i.c.size = 1)
  BY <1>1 DEF ImulConstructible, IsRM
<1>3. size \in {2, 4, 8} /\ IsRegOperand(i.a) /\ i.a # None /\ IsRMOperand(i.b) /\ IsImmOperand(i.c)
  BY <1>1, <1>2, OperandOfInstr
<1>4. ~CanSkipImm(i)
  BY DEF Misencoded
<1>5. /\ f.size = size /\ f.opcode = <<op>> /\ f.inOpcode = None /\ i.a \in f.rex /\ i.b \in f.rex
      /\ f.field = i.a /\ f.rm = i.b /\ f.imm = i.c
  BY <1>2, <1>4 DEF EncodeImul, Form
<1>6. op \in {105, 107} /\ i.c.size = n
  BY <1>2, <1>3, FullImmSize
<1> HIDE DEF f, op, n
<1>7. OneByteForm(f, op)
  BY <1>2, <1>3, <1>5, <1>6 DEF OneByteForm
<1>8. HasForm(f, c, at) /\ End(f, at) = at + Len(Encode(i))
  BY <1>1 DEF HasForm, End
<1>9. IsDecodable(c, at) /\ Opcode(c, at) = op /\ size = SizeAt(c, at)
  BY <1>3, <1>5, <1>7, <1>8, ReadsOpcode
<1>10. /\ m.rm = i.b /\ m.reg = i.a /\ m.next + n = End(f, at)
       /\ ImmAt(c, m.next, n, size) = Meant(i.c, size)
  <2> DEFINE mf == OperandsAt(c, at, f.rm.size)
  <2>1. mf = m
    BY <1>2, <1>5
  <2>2. f.rm # None /\ f.imm # None
    BY <1>2, <1>3, <1>5 DEF IsRMOperand, IsRM, IsReg, IsMem, None
  <2>3. mf.rm = f.rm /\ (IsRegOperand(f.field) /\ f.field.size = f.rm.size => mf.reg = f.field)
    BY <1>7, <1>8, <2>2, ReadsOperands, Zenon
  <2>4. /\ mf.next + f.imm.size = End(f, at)
        /\ \A s : ImmAt(c, mf.next, f.imm.size, s) = Meant(f.imm, s)
    BY <1>7, <1>8, <2>2, ReadsOperands, Zenon
  <2>5. ImmAt(c, mf.next, f.imm.size, size) = Meant(f.imm, size)
    BY <2>4, Zenon
  <2> HIDE DEF m, mf
  <2> QED BY <1>2, <1>3, <1>5, <1>6, <2>1, <2>3, <2>4, <2>5
<1>11. Decode(c, at) = Read("imul", <<m.reg, m.rm, ImmAt(c, m.next, n, size)>>, m.next + n)
  <2> HIDE DEF m
  <2>1. CASE full
    BY <1>9, <2>1, DecodesImulImm DEF m, op, n
  <2>2. CASE ~full
    BY <1>9, <2>2, DecodesImulImm8 DEF m, op, n
  <2> QED BY <2>1, <2>2
<1>12. Decode(c, at) = Read(i.name, <<i.a, i.b, Meant(i.c, size)>>, End(f, at))
  <2> HIDE DEF m
  <2> QED BY <1>10, <1>11
<1>13. Args(i) = <<i.a, i.b, Meant(i.c, size)>>
  <2>1. Meant(i.a, size) = i.a /\ Meant(i.b, size) = i.b
    BY <1>2, MeantRM
  <2> QED BY <1>1, <2>1, ImulArgs
<1> QED BY <1>8, <1>12, <1>13, ReadsAsRead

(* A form with a register in the low bits of its one opcode byte.           *)
ShortForm(f, op) ==
    /\ op \in {80, 88, 176, 184} /\ f.opcode = <<op>> /\ f.size \in {0, 1, 2, 4, 8}
    /\ f.inOpcode # None /\ IsRegOperand(f.inOpcode) /\ f.inOpcode \in f.rex
    /\ f.rm = None /\ f.field = None
    /\ f.imm # None => IsImmOperand(f.imm)

(* Opcode, register and immediate of such a form are read back.             *)
LEMMA ReadsShort ==
  ASSUME NEW f, NEW op, ShortForm(f, op), NEW c, NEW at \in Int, HasForm(f, c, at)
  PROVE  /\ IsDecodable(c, at) /\ Opcode(c, at) \in Int /\ Opcode(c, at) \div 8 = op \div 8
         /\ LowAt(c, at) = f.inOpcode.reg
         /\ RegOf(ReadPrefixes(c, at), f.inOpcode.size, f.inOpcode.reg) = f.inOpcode
         /\ f.size \in {2, 4, 8} => SizeAt(c, at) = f.size
         /\ f.size \in {0, 1} => SizeAt(c, at) = 4
         /\ f.imm = None => OpcodeAt(c, at) + 1 = End(f, at)
         /\ f.imm # None =>
               /\ OpcodeAt(c, at) + 1 + f.imm.size = End(f, at)
               /\ Value(Bytes(c, OpcodeAt(c, at) + 1, f.imm.size)) = f.imm
<1> DEFINE p == ReadPrefixes(c, at)
           q == OpcodeAt(c, at)
           o == Opcode(c, at)
<1>0. p = ReadPrefixes(c, at) /\ q = p.opcodeAt /\ o = Byte(c, q) /\ o = Byte(c, p.opcodeAt)
  BY DEF OpcodeAt, Opcode
<1> HIDE DEF p, q, o
<1>1. f.opcode = <<op>> /\ op \in {80, 88, 176, 184}
  BY DEF ShortForm
<1>2. f.opcode \in Seq(0..255) /\ f.opcode # <<>> /\ f.opcode[1] = op
  BY <1>1
<1>3. /\ f.inOpcode # None /\ IsRegOperand(f.inOpcode) /\ f.inOpcode \in f.rex /\ f.rm = None /\ f.field =
              None
      /\ f.size \in {0, 1, 2, 4, 8} /\ (f.imm # None => IsImmOperand(f.imm))
  BY DEF ShortForm
<1>4. IsForm(f)
  <2>1. op # 102 /\ op \div 16 # 4
    BY <1>1
  <2> QED BY <1>1, <1>2, <1>3, <2>1 DEF IsForm
<1>5. HasBytes(c, at, Assemble(f))
  BY DEF HasForm
<1>6. /\ o = f.opcode[1] + (f.inOpcode.reg % 8) /\ (o % 8) + p.b = f.inOpcode.reg
      /\ RegOf(p, f.inOpcode.size, f.inOpcode.reg) = f.inOpcode
      /\ Len(OpcodeBytes(f)) = 1 /\ Len(ModRMBytes(f)) = 0
  BY <1>0, <1>3, <1>4, <1>5, ReadFormLow
<1>7. q \in Int /\ q + Len(OpcodeBytes(f)) + Len(ModRMBytes(f)) + Len(ImmBytes(f)) = End(f, at)
  BY <1>0, <1>4, <1>5, ReadFormOpcode DEF End
<1>8. p.size = IF f.size = 8 THEN 8 ELSE IF f.size = 2 THEN 2 ELSE 4
  BY <1>0, <1>4, <1>5, ReadPrefixesOf
<1>9. f.inOpcode.reg \in 0..15
  BY <1>3, Register
<1>10. o \in Int /\ o \div 8 = op \div 8
  <2> DEFINE k == f.inOpcode.reg % 8
  <2>1. k \in 0..7
    BY <1>9
  <2>2. o = op + k
    BY <1>2, <1>6
  <2> HIDE DEF k
  <2>3. op + k \in Int /\ (op + k) \div 8 = op \div 8
    BY <1>1, <2>1
  <2> QED BY <2>2, <2>3, Zenon
<1>11. IsDecodable(c, at) /\ (f.size \in {2, 4, 8} => SizeAt(c, at) = f.size)
       /\ (f.size \in {0, 1} => SizeAt(c, at) = 4)
  BY <1>0, <1>3, <1>7, <1>8 DEF IsDecodable, SizeAt, q
<1>12. f.imm = None => q + 1 = End(f, at)
  <2>1. f.imm = None => Len(ImmBytes(f)) = 0
    BY DEF ImmBytes
  <2> QED BY <1>6, <1>7, <2>1
<1>13. ASSUME f.imm # None PROVE q + 1 + f.imm.size = End(f, at) /\ Value(Bytes(c, q + 1, f.imm.size)) = f.imm
  <2>1. p.opcodeAt + Len(OpcodeBytes(f)) + Len(ModRMBytes(f)) = q + 1
    BY <1>0, <1>6, <1>7
  <2>2. Bytes(c, q + 1, f.imm.size) = f.imm.bytes /\ Len(ImmBytes(f)) = f.imm.size
    BY <1>0, <1>4, <1>5, <1>13, <2>1, ReadFormImm
  <2>3. Value(Bytes(c, q + 1, f.imm.size)) = f.imm
    BY <1>3, <1>13, <2>2, ImmIsRead, Zenon
  <2> QED BY <1>6, <1>7, <2>2, <2>3
<1>14. LowAt(c, at) = f.inOpcode.reg
  BY <1>6 DEF LowAt, o, p
<1> QED BY <1>6, <1>10, <1>11, <1>12, <1>13, <1>14 DEF p, q, o

(* To extend an immediate to its own size changes nothing.                  *)
LEMMA ExtendToOwnSize ==
  ASSUME NEW o, IsImmOperand(o)
  PROVE  Meant(o, o.size) = o
<1>1. o = Value(o.bytes) /\ o.bytes \in Seq(0..255) /\ IsImm(o)
  BY DEF IsImmOperand, IsOperand, IsImm, IsReg, IsMem
<1>2. o.size = Len(o.bytes)
  BY <1>1 DEF Value
<1> DEFINE s == o.bytes
<1>3. s \in Seq(0..255)
  BY <1>1
<1> HIDE DEF s
<1>4. s = [k \in 1..Len(s) |-> s[k]]
  BY <1>3
<1>5. SignExtended(s, Len(s)) = [k \in 1..Len(s) |-> s[k]]
  <2>1. \A k \in 1..Len(s) : k <= Len(s)
    BY <1>3
  <2> QED BY <2>1 DEF SignExtended
<1>6. Meant(o, o.size) = Value(SignExtended(o.bytes, o.size))
  BY <1>1 DEF Meant, IsImm
<1> QED BY <1>1, <1>2, <1>4, <1>5, <1>6, Zenon DEF s

(* The sign extensions of rax are read as they are written.                 *)
LEMMA SignExtendReads ==
  ASSUME NEW i, IsInstr(i), i.name \in {"sign_extend_a", "sign_extend_ad"},
         NEW c, NEW at \in Int, HasBytes(c, at, Encode(i))
  PROVE  ReadsAs(c, at, i, Args(i))
<1> DEFINE f == EncodeSignExtend(i)
           op == IF i.name = "sign_extend_a" THEN 152 ELSE 153
<1>1. i.size \in {2, 4, 8} /\ Encode(i) = Assemble(f)
  BY InstrOfName, ClassOfName
<1>2. /\ f.size = i.size /\ f.opcode = <<op>> /\ f.inOpcode = None /\ f.rm = None
      /\ f.field = None /\ f.imm = None
  BY DEF EncodeSignExtend, Form
<1>3. op \in {152, 153} /\ (op = 152 <=> i.name = "sign_extend_a")
  OBVIOUS
<1> HIDE DEF f, op
<1>4. OneByteForm(f, op)
  BY <1>1, <1>2, <1>3 DEF OneByteForm
<1>5. HasForm(f, c, at) /\ End(f, at) = at + Len(Encode(i))
  BY <1>1 DEF HasForm, End
<1>6. IsDecodable(c, at) /\ Opcode(c, at) = op /\ SizeAt(c, at) = i.size
  BY <1>1, <1>2, <1>4, <1>5, ReadsOpcode
<1>7. OpcodeAt(c, at) + 1 = End(f, at)
  BY <1>2, <1>4, <1>5, ReadsNoOperands
<1>8. Decode(c, at) = Read(i.name, <<i.size>>, End(f, at))
  <2>1. CASE op = 152
    BY <1>3, <1>6, <1>7, <2>1, DecodesExtendA
  <2>2. CASE op = 153
    BY <1>3, <1>6, <1>7, <2>2, DecodesExtendAD
  <2> QED BY <1>3, <2>1, <2>2
<1>9. Args(i) = <<i.size>>
  BY DEF Args, ZeroExtends
<1> QED BY <1>5, <1>8, <1>9, ReadsAsRead

(* The operands of a form with an immediate after them.                     *)
LEMMA ReadsOperandsAndImm ==
  ASSUME NEW f, NEW op, OneByteForm(f, op), NEW c, NEW at \in Int, HasForm(f, c, at),
         NEW a, f.rm = a, a # None, NEW b, f.imm = b, b # None, NEW n, b.size = n, NEW size, a.size = size
  PROVE  /\ OperandsAt(c, at, size).rm = a /\ OperandsAt(c, at, size).next + n = End(f, at)
         /\ f.field # None /\ f.field.kind = "ext" => OperandsAt(c, at, size).field = f.field.n
         /\ ImmAt(c, OperandsAt(c, at, size).next, n, size) = Meant(b, size)
<1> DEFINE mf == OperandsAt(c, at, f.rm.size)
<1>1. f.rm # None /\ f.imm # None /\ mf = OperandsAt(c, at, size)
  OBVIOUS
<1>2. /\ mf.rm = f.rm /\ (f.field # None /\ f.field.kind = "ext" => mf.field = f.field.n)
      /\ mf.next + f.imm.size = End(f, at)
  BY <1>1, ReadsOperands, Zenon
<1>3. \A s : ImmAt(c, mf.next, f.imm.size, s) = Meant(f.imm, s)
  BY <1>1, ReadsOperands, Zenon
<1>4. ImmAt(c, mf.next, f.imm.size, size) = Meant(f.imm, size)
  BY <1>3, Zenon
<1> HIDE DEF mf
<1> QED BY <1>1, <1>2, <1>4

(* The immediate of a form without operands.                                *)
LEMMA ReadsImm ==
  ASSUME NEW f, NEW op, OneByteForm(f, op), NEW c, NEW at \in Int, HasForm(f, c, at), f.rm = None,
         NEW b, f.imm = b, b # None, NEW n, b.size = n, NEW size
  PROVE  /\ OpcodeAt(c, at) + 1 + n = End(f, at)
         /\ ImmAt(c, OpcodeAt(c, at) + 1, n, size) = Meant(b, size)
<1>1. f.imm # None
  OBVIOUS
<1>2. OpcodeAt(c, at) + 1 + f.imm.size = End(f, at)
  BY <1>1, ReadsNoOperands, Zenon
<1>3. \A s : ImmAt(c, OpcodeAt(c, at) + 1, f.imm.size, s) = Meant(f.imm, s)
  BY <1>1, ReadsNoOperands, Zenon
<1>4. ImmAt(c, OpcodeAt(c, at) + 1, f.imm.size, size) = Meant(f.imm, size)
  BY <1>3, Zenon
<1> QED BY <1>2, <1>4

(* test of a register.                                                      *)
LEMMA TestRegReads ==
  ASSUME NEW i, IsInstr(i), i.name = "test", ~IsImm(i.b),
         NEW c, NEW at \in Int, HasBytes(c, at, Encode(i))
  PROVE  ReadsAs(c, at, i, Args(i))
<1> DEFINE f == EncodeTest(i)
           size == i.a.size
           w == W(size)
           m == OperandsAt(c, at, size)
<1>1. TestConstructible(i.a, i.b) /\ i.c = None /\ Encode(i) = Assemble(f)
  BY InstrOfName, ClassOfName
<1>2. IsRM(i.a) /\ IsReg(i.b) /\ IsRM(i.b) /\ i.b.size = size
  BY <1>1 DEF TestConstructible, IsRM
<1>3. size \in {1, 2, 4, 8} /\ IsRMOperand(i.a) /\ i.a # None /\ IsRegOperand(i.b) /\ i.b # None
  BY <1>2, OperandOfInstr
<1>4. f = Form(size, {i.a, i.b}, Wide(132, i.a), None, i.b, i.a, None)
  BY DEF EncodeTest, IsImm
<1>5. /\ f.size = size /\ f.opcode = <<132 + w>> /\ f.inOpcode = None /\ i.a \in f.rex /\ i.b \in f.rex
      /\ f.field = i.b /\ f.rm = i.a /\ f.imm = None
  BY <1>4 DEF Form, Wide, W
<1>6. w \in {0, 1} /\ (w = 0 <=> size = 1)
  BY DEF W
<1> HIDE DEF f, w
<1>7. OneByteForm(f, 132 + w)
  BY <1>3, <1>5, <1>6 DEF OneByteForm
<1>8. HasForm(f, c, at) /\ End(f, at) = at + Len(Encode(i))
  BY <1>1 DEF HasForm, End
<1>9. /\ IsDecodable(c, at) /\ Opcode(c, at) = 132 + w
      /\ size = IF w = 0 THEN 1 ELSE SizeAt(c, at)
  BY <1>3, <1>5, <1>6, <1>7, <1>8, ReadsOpcode
<1>10. m.rm = i.a /\ m.reg = i.b /\ m.next = End(f, at)
  BY <1>2, <1>3, <1>5, <1>7, <1>8, ReadsOperands
<1>11. Decode(c, at) = Read("test", <<m.rm, m.reg>>, m.next)
  <2> HIDE DEF m
  <2> QED BY <1>6, <1>9, DecodesTest DEF m
<1>12. Decode(c, at) = Read(i.name, <<i.a, i.b>>, End(f, at))
  <2> HIDE DEF m
  <2> QED BY <1>10, <1>11
<1>13. Args(i) = <<i.a, i.b>>
  <2>1. ~ZeroExtends(i)
    BY DEF ZeroExtends
  <2>2. Meant(i.a, size) = i.a /\ Meant(i.b, size) = i.b
    BY <1>2, MeantRM
  <2> QED BY <1>1, <1>3, <2>1, <2>2, Args2
<1> QED BY <1>8, <1>12, <1>13, ReadsAsRead

(* test in the short form of the accumulator.                               *)
LEMMA TestAccumulatorReads ==
  ASSUME NEW i, IsInstr(i), i.name = "test", IsImm(i.b), UsesRegA(i.a, i.b),
         NEW c, NEW at \in Int, HasBytes(c, at, Encode(i))
  PROVE  ReadsAs(c, at, i, Args(i))
<1> DEFINE f == EncodeTest(i)
           size == i.a.size
           w == W(size)
           q == OpcodeAt(c, at) + 1
<1>1. TestConstructible(i.a, i.b) /\ i.c = None /\ Encode(i) = Assemble(f)
  BY InstrOfName, ClassOfName
<1>2. IsRM(i.a) /\ FullImm(i.a, i.b) /\ i.b.size # 8 /\ IsReg(i.a) /\ i.a.reg = 0
  BY <1>1 DEF TestConstructible, UsesRegA
<1>3. /\ size \in {1, 2, 4, 8} /\ i.a = Reg(size, 0) /\ IsImmOperand(i.b) /\ i.b # None
  BY <1>2, OperandOfInstr
<1>4. f = Form(size, {i.a, i.b}, Wide(168, i.a), None, None, None, i.b)
  BY DEF EncodeTest, UsesRegA, IsImm
<1>5. /\ f.size = size /\ f.opcode = <<168 + w>> /\ f.inOpcode = None
      /\ f.field = None /\ f.rm = None /\ f.imm = i.b
  BY <1>4 DEF Form, Wide, W
<1>6. w \in {0, 1} /\ (w = 0 <=> size = 1)
  BY DEF W
<1> HIDE DEF f, w
<1>7. OneByteForm(f, 168 + w)
  BY <1>3, <1>5, <1>6 DEF OneByteForm
<1>8. HasForm(f, c, at) /\ End(f, at) = at + Len(Encode(i))
  BY <1>1 DEF HasForm, End
<1>9. /\ IsDecodable(c, at) /\ Opcode(c, at) = 168 + w
      /\ size = IF w = 0 THEN 1 ELSE SizeAt(c, at)
  BY <1>3, <1>5, <1>6, <1>7, <1>8, ReadsOpcode
<1>10. i.b.size = Full(size)
  BY <1>2, <1>3, FullImmSize
<1>11. q + Full(size) = End(f, at) /\ ImmAt(c, q, Full(size), size) = Meant(i.b, size)
  BY <1>3, <1>5, <1>7, <1>8, <1>10, ReadsImm
<1>12. Decode(c, at) = Read("test", <<RegOf(ReadPrefixes(c, at), size, 0), ImmAt(c, q, Full(size), size)>>,
                            q + Full(size))
  BY <1>6, <1>9, DecodesTestAcc
<1>13. RegOf(ReadPrefixes(c, at), size, 0) = i.a
  BY <1>3 DEF RegOf
<1>14. Decode(c, at) = Read(i.name, <<i.a, Meant(i.b, size)>>, End(f, at))
  BY <1>11, <1>12, <1>13
<1>15. Args(i) = <<i.a, Meant(i.b, size)>>
  <2>1. ~ZeroExtends(i)
    BY DEF ZeroExtends
  <2>2. Meant(i.a, size) = i.a
    BY <1>2, MeantRM
  <2> QED BY <1>1, <1>3, <2>1, <2>2, Args2
<1> QED BY <1>8, <1>14, <1>15, ReadsAsRead

(* test with an immediate.                                                  *)
LEMMA TestImmReads ==
  ASSUME NEW i, IsInstr(i), i.name = "test", IsImm(i.b), ~UsesRegA(i.a, i.b),
         NEW c, NEW at \in Int, HasBytes(c, at, Encode(i))
  PROVE  ReadsAs(c, at, i, Args(i))
<1> DEFINE f == EncodeTest(i)
           size == i.a.size
           w == W(size)
           m == OperandsAt(c, at, size)
<1>1. TestConstructible(i.a, i.b) /\ i.c = None /\ Encode(i) = Assemble(f)
  BY InstrOfName, ClassOfName
<1>2. IsRM(i.a) /\ FullImm(i.a, i.b) /\ i.b.size # 8
  BY <1>1 DEF TestConstructible
<1>3. /\ size \in {1, 2, 4, 8} /\ IsRMOperand(i.a) /\ i.a # None /\ IsImmOperand(i.b) /\ i.b # None
  BY <1>2, OperandOfInstr
<1>4. f = Form(size, {i.a, i.b}, Wide(246, i.a), None, Ext(0), i.a, i.b)
  BY DEF EncodeTest, IsImm
<1>5. /\ f.size = size /\ f.opcode = <<246 + w>> /\ f.inOpcode = None /\ i.a \in f.rex
      /\ f.field = Ext(0) /\ f.rm = i.a /\ f.imm = i.b
  BY <1>4 DEF Form, Wide, W
<1>6. w \in {0, 1} /\ (w = 0 <=> size = 1)
  BY DEF W
<1> HIDE DEF f, w
<1>7. f.field.kind = "ext" /\ f.field.n = 0 /\ f.field # None
  BY <1>5 DEF Ext, None
<1>8. OneByteForm(f, 246 + w)
  BY <1>3, <1>5, <1>6, <1>7 DEF OneByteForm
<1>9. HasForm(f, c, at) /\ End(f, at) = at + Len(Encode(i))
  BY <1>1 DEF HasForm, End
<1>10. /\ IsDecodable(c, at) /\ Opcode(c, at) = 246 + w
       /\ size = IF w = 0 THEN 1 ELSE SizeAt(c, at)
  BY <1>3, <1>5, <1>6, <1>8, <1>9, ReadsOpcode
<1>11. i.b.size = Full(size)
  BY <1>2, <1>3, FullImmSize
<1>12. /\ m.rm = i.a /\ m.field = 0 /\ m.next + Full(size) = End(f, at)
       /\ ImmAt(c, m.next, Full(size), size) = Meant(i.b, size)
  BY <1>3, <1>5, <1>7, <1>8, <1>9, <1>11, ReadsOperandsAndImm
<1>13. Decode(c, at) = Read("test", <<m.rm, ImmAt(c, m.next, Full(size), size)>>, m.next + Full(size))
  <2> HIDE DEF m
  <2> QED BY <1>6, <1>10, <1>12, DecodesTestImm DEF m
<1>14. Decode(c, at) = Read(i.name, <<i.a, Meant(i.b, size)>>, End(f, at))
  <2> HIDE DEF m
  <2> QED BY <1>12, <1>13
<1>15. Args(i) = <<i.a, Meant(i.b, size)>>
  <2>1. ~ZeroExtends(i)
    BY DEF ZeroExtends
  <2>2. Meant(i.a, size) = i.a
    BY <1>2, MeantRM
  <2> QED BY <1>1, <1>3, <2>1, <2>2, Args2
<1> QED BY <1>9, <1>14, <1>15, ReadsAsRead

(* mov of a register into memory.                                           *)
LEMMA MovStoreReads ==
  ASSUME NEW i, IsInstr(i), i.name = "mov", IsReg(i.b), IsMem(i.a),
         NEW c, NEW at \in Int, HasBytes(c, at, Encode(i))
  PROVE  ReadsAs(c, at, i, Args(i))
<1> DEFINE f == EncodeMov(i)
           size == i.a.size
           w == W(size)
           m == OperandsAt(c, at, size)
<1>1. MovConstructible(i.a, i.b) /\ i.c = None /\ Encode(i) = Assemble(f)
  BY InstrOfName, ClassOfName
<1>2. IsRM(i.a) /\ IsRM(i.b) /\ i.b.size = size /\ ~IsImm(i.b)
  BY <1>1 DEF MovConstructible, IsRM, IsImm, IsReg
<1>3. size \in {1, 2, 4, 8} /\ IsRMOperand(i.a) /\ i.a # None /\ IsRegOperand(i.b) /\ i.b # None
  BY <1>2, OperandOfInstr
<1>4. f = Form(size, {i.a, i.b}, Wide(136, i.b), None, i.b, i.a, None)
  BY <1>2 DEF EncodeMov, IsReg, IsMem, IsRM
<1>5. /\ f.size = size /\ f.opcode = <<136 + w>> /\ f.inOpcode = None /\ i.a \in f.rex /\ i.b \in f.rex
      /\ f.field = i.b /\ f.rm = i.a /\ f.imm = None
  BY <1>2, <1>4 DEF Form, Wide, W
<1>6. w \in {0, 1} /\ (w = 0 <=> size = 1)
  BY DEF W
<1> HIDE DEF f, w
<1>7. OneByteForm(f, 136 + w)
  BY <1>3, <1>5, <1>6 DEF OneByteForm
<1>8. HasForm(f, c, at) /\ End(f, at) = at + Len(Encode(i))
  BY <1>1 DEF HasForm, End
<1>9. /\ IsDecodable(c, at) /\ Opcode(c, at) = 136 + w
      /\ size = IF w = 0 THEN 1 ELSE SizeAt(c, at)
  BY <1>3, <1>5, <1>6, <1>7, <1>8, ReadsOpcode
<1>10. m.rm = i.a /\ m.reg = i.b /\ m.next = End(f, at)
  BY <1>2, <1>3, <1>5, <1>7, <1>8, ReadsOperands
<1>11. Decode(c, at) = Read("mov", <<m.rm, m.reg>>, m.next)
  <2> HIDE DEF m
  <2> QED BY <1>6, <1>9, DecodesMov DEF m
<1>12. Decode(c, at) = Read(i.name, <<i.a, i.b>>, End(f, at))
  <2> HIDE DEF m
  <2> QED BY <1>10, <1>11
<1>13. Args(i) = <<i.a, i.b>>
  <2>1. ~ZeroExtends(i)
    BY <1>2 DEF ZeroExtends
  <2>2. Meant(i.a, size) = i.a /\ Meant(i.b, size) = i.b
    BY <1>2, MeantRM
  <2> QED BY <1>1, <1>3, <2>1, <2>2, Args2
<1> QED BY <1>8, <1>12, <1>13, ReadsAsRead

(* mov into a register.                                                     *)
LEMMA MovLoadReads ==
  ASSUME NEW i, IsInstr(i), i.name = "mov", IsRM(i.b), IsReg(i.a),
         NEW c, NEW at \in Int, HasBytes(c, at, Encode(i))
  PROVE  ReadsAs(c, at, i, Args(i))
<1> DEFINE f == EncodeMov(i)
           size == i.a.size
           w == W(size)
           m == OperandsAt(c, at, size)
<1>1. MovConstructible(i.a, i.b) /\ i.c = None /\ Encode(i) = Assemble(f)
  BY InstrOfName, ClassOfName
<1>2. IsRM(i.a) /\ IsRM(i.b) /\ i.b.size = size /\ ~IsImm(i.b)
  BY <1>1 DEF MovConstructible, IsRM, IsImm, IsReg, IsMem
<1>3. size \in {1, 2, 4, 8} /\ IsRegOperand(i.a) /\ i.a # None /\ IsRMOperand(i.b) /\ i.b # None
  BY <1>2, OperandOfInstr
<1>4. f = Form(size, {i.a, i.b}, Wide(138, i.b), None, i.a, i.b, None)
  BY <1>2 DEF EncodeMov, IsReg, IsMem, IsRM
<1>5. /\ f.size = size /\ f.opcode = <<138 + w>> /\ f.inOpcode = None /\ i.a \in f.rex /\ i.b \in f.rex
      /\ f.field = i.a /\ f.rm = i.b /\ f.imm = None
  BY <1>2, <1>4 DEF Form, Wide, W
<1>6. w \in {0, 1} /\ (w = 0 <=> size = 1)
  BY DEF W
<1> HIDE DEF f, w
<1>7. OneByteForm(f, 138 + w)
  BY <1>3, <1>5, <1>6 DEF OneByteForm
<1>8. HasForm(f, c, at) /\ End(f, at) = at + Len(Encode(i))
  BY <1>1 DEF HasForm, End
<1>9. /\ IsDecodable(c, at) /\ Opcode(c, at) = 138 + w
      /\ size = IF w = 0 THEN 1 ELSE SizeAt(c, at)
  BY <1>3, <1>5, <1>6, <1>7, <1>8, ReadsOpcode
<1>10. m.rm = i.b /\ m.reg = i.a /\ m.next = End(f, at)
  BY <1>2, <1>3, <1>5, <1>7, <1>8, ReadsOperands
<1>11. Decode(c, at) = Read("mov", <<m.reg, m.rm>>, m.next)
  <2> HIDE DEF m
  <2> QED BY <1>6, <1>9, DecodesMovLoad DEF m
<1>12. Decode(c, at) = Read(i.name, <<i.a, i.b>>, End(f, at))
  <2> HIDE DEF m
  <2> QED BY <1>10, <1>11
<1>13. Args(i) = <<i.a, i.b>>
  <2>1. ~ZeroExtends(i)
    BY <1>2 DEF ZeroExtends
  <2>2. Meant(i.a, size) = i.a /\ Meant(i.b, size) = i.b
    BY <1>2, MeantRM
  <2> QED BY <1>1, <1>3, <2>1, <2>2, Args2
<1> QED BY <1>8, <1>12, <1>13, ReadsAsRead

(* mov of an immediate of full size into memory.                            *)
LEMMA MovMemImmReads ==
  ASSUME NEW i, IsInstr(i), ~Misencoded(i), i.name = "mov", IsImm(i.b), IsMem(i.a),
         NEW c, NEW at \in Int, HasBytes(c, at, Encode(i))
  PROVE  ReadsAs(c, at, i, Args(i))
<1> DEFINE f == EncodeMov(i)
           size == i.a.size
           w == W(size)
           m == OperandsAt(c, at, size)
<1>1. MovConstructible(i.a, i.b) /\ i.c = None /\ Encode(i) = Assemble(f)
  BY InstrOfName, ClassOfName
<1>2. IsRM(i.a) /\ ~IsRM(i.b) /\ ~IsReg(i.b) /\ i.b.kind # "func" /\ ~IsReg(i.a)
  BY DEF IsRM, IsImm, IsReg, IsMem
<1>3. FullImm(i.a, i.b) /\ i.b.size # 8 /\ ~(i.b.size < size)
  BY <1>1, <1>2 DEF MovConstructible, Misencoded
<1>4. /\ size \in {1, 2, 4, 8} /\ IsRMOperand(i.a) /\ i.a # None /\ IsImmOperand(i.b) /\ i.b # None
  BY <1>2, OperandOfInstr
<1>5. i.b.size = size /\ Full(size) = size
  BY <1>3, <1>4 DEF FullImm, Full
<1>6. f = Form(i.b.size, {i.a, i.b}, Wide(198, i.b), None, Ext(0), i.a, i.b)
  BY <1>2 DEF EncodeMov
<1>7. /\ f.size = size /\ f.opcode = <<198 + w>> /\ f.inOpcode = None /\ i.a \in f.rex
      /\ f.field = Ext(0) /\ f.rm = i.a /\ f.imm = i.b
  BY <1>5, <1>6 DEF Form, Wide, W
<1>8. w \in {0, 1} /\ (w = 0 <=> size = 1)
  BY DEF W
<1> HIDE DEF f, w
<1>9. f.field.kind = "ext" /\ f.field.n = 0 /\ f.field # None
  BY <1>7 DEF Ext, None
<1>10. OneByteForm(f, 198 + w)
  BY <1>4, <1>7, <1>8, <1>9 DEF OneByteForm
<1>11. HasForm(f, c, at) /\ End(f, at) = at + Len(Encode(i))
  BY <1>1 DEF HasForm, End
<1>12. /\ IsDecodable(c, at) /\ Opcode(c, at) = 198 + w
       /\ size = IF w = 0 THEN 1 ELSE SizeAt(c, at)
  BY <1>4, <1>7, <1>8, <1>10, <1>11, ReadsOpcode
<1>13. /\ m.rm = i.a /\ m.next + Full(size) = End(f, at)
       /\ ImmAt(c, m.next, Full(size), size) = Meant(i.b, size)
  BY <1>4, <1>5, <1>7, <1>9, <1>10, <1>11, ReadsOperandsAndImm
<1>14. Decode(c, at) = Read("mov", <<m.rm, ImmAt(c, m.next, Full(size), size)>>, m.next + Full(size))
  <2> HIDE DEF m
  <2> QED BY <1>8, <1>12, DecodesMovImm DEF m
<1>15. Decode(c, at) = Read(i.name, <<i.a, Meant(i.b, size)>>, End(f, at))
  <2> HIDE DEF m
  <2> QED BY <1>13, <1>14
<1>16. Args(i) = <<i.a, Meant(i.b, size)>>
  <2>1. ~ZeroExtends(i)
    BY <1>2 DEF ZeroExtends
  <2>2. Meant(i.a, size) = i.a
    BY <1>2, MeantRM
  <2> QED BY <1>1, <1>4, <2>1, <2>2, Args2
<1> QED BY <1>11, <1>15, <1>16, ReadsAsRead

(* A 32-bit immediate without a sign may be moved into a 64-bit register.   *)
LEMMA MovRegImmReads ==
  ASSUME NEW i, IsInstr(i), ~Misencoded(i), i.name = "mov", IsImm(i.b), IsReg(i.a),
         NEW c, NEW at \in Int, HasBytes(c, at, Encode(i))
  PROVE  ReadsAs(c, at, i, Args(i))
<1> DEFINE f == EncodeMov(i)
           size == i.b.size
           op == IF size = 1 THEN 176 ELSE 184
           p == ReadPrefixes(c, at)
           q == OpcodeAt(c, at) + 1
<1>1. MovConstructible(i.a, i.b) /\ i.c = None /\ Encode(i) = Assemble(f)
  BY InstrOfName, ClassOfName
<1>2. IsRM(i.a) /\ ~IsRM(i.b) /\ ~IsReg(i.b) /\ i.b.kind # "func" /\ ~IsMem(i.a)
  BY DEF IsRM, IsImm, IsReg, IsMem
<1>3. FullImm(i.a, i.b) /\ ~(i.b.size < i.a.size /\ Negative(i.b))
  BY <1>1, <1>2 DEF MovConstructible, Misencoded
<1>4. /\ i.a.size \in {1, 2, 4, 8} /\ IsRegOperand(i.a) /\ i.a # None /\ IsImmOperand(i.b) /\ i.b # None
      /\ i.a = Reg(i.a.size, i.a.reg) /\ size \in {1, 2, 4, 8}
  BY <1>2, OperandOfInstr
<1>5. f = Form(size, {i.a, i.b}, <<op>>, i.a, None, None, i.b)
  BY <1>2 DEF EncodeMov
<1>6. /\ f.size = size /\ f.opcode = <<op>> /\ f.inOpcode = i.a /\ i.a \in f.rex
      /\ f.field = None /\ f.rm = None /\ f.imm = i.b
  BY <1>5 DEF Form
<1>7. op \in {176, 184} /\ (op = 176 <=> size = 1) /\ 176 \div 8 = 22 /\ 184 \div 8 = 23
  OBVIOUS
<1> HIDE DEF f, op
<1>8. ShortForm(f, op)
  BY <1>4, <1>6, <1>7 DEF ShortForm
<1>9. HasForm(f, c, at) /\ End(f, at) = at + Len(Encode(i))
  BY <1>1 DEF HasForm, End
<1>10. /\ IsDecodable(c, at) /\ Opcode(c, at) \in Int /\ Opcode(c, at) \div 8 = op \div 8
       /\ LowAt(c, at) = i.a.reg /\ RegOf(p, i.a.size, i.a.reg) = i.a
       /\ size # 1 => SizeAt(c, at) = size
  BY <1>4, <1>6, <1>8, <1>9, ReadsShort
<1>11. q + size = End(f, at) /\ Value(Bytes(c, q, size)) = i.b
  BY <1>4, <1>6, <1>8, <1>9, ReadsShort
<1>12. Decode(c, at) = Read("mov", <<RegOf(p, size, i.a.reg), i.b>>, End(f, at))
  <2>1. CASE size = 1
    <3>1. Decode(c, at) = Read("mov", <<RegOf(p, 1, LowAt(c, at)), Value(Bytes(c, q, 1))>>, q + 1)
      BY <1>7, <1>10, <2>1, DecodesMovByte
    <3> QED BY <1>10, <1>11, <2>1, <3>1
  <2>2. CASE size # 1
    <3>1. Decode(c, at) = Read("mov", <<RegOf(p, SizeAt(c, at), LowAt(c, at)), Value(Bytes(c, q,
                  SizeAt(c, at)))>>,
                               q + SizeAt(c, at))
      BY <1>7, <1>10, <2>2, DecodesMovFull
    <3> QED BY <1>10, <1>11, <2>2, <3>1
  <2> QED BY <2>1, <2>2
<1>13. CASE i.a.size = size
  <2>1. Decode(c, at) = Read(i.name, <<i.a, i.b>>, End(f, at))
    BY <1>10, <1>12, <1>13
  <2>2. Args(i) = <<i.a, i.b>>
    <3>1. ~ZeroExtends(i)
      BY <1>13 DEF ZeroExtends
    <3>2. Meant(i.a, i.a.size) = i.a
      BY <1>2, MeantRM
    <3>3. Meant(i.b, i.a.size) = i.b
      BY <1>4, <1>13, ExtendToOwnSize
    <3> QED BY <1>1, <1>4, <3>1, <3>2, <3>3, Args2
  <2> QED BY <1>9, <2>1, <2>2, ReadsAsRead
<1>14. CASE i.a.size # size
  <2>1. i.a.size = 8 /\ size = 4
    BY <1>3, <1>14 DEF FullImm
  <2>2. RegOf(p, size, i.a.reg) = Reg(4, i.a.reg)
    BY <2>1 DEF RegOf
  <2>3. Decode(c, at) = Read(i.name, <<Reg(4, i.a.reg), i.b>>, End(f, at))
    BY <1>12, <2>2
  <2>4. ZeroExtends(i)
    BY <1>3, <2>1 DEF ZeroExtends
  <2>5. Args(i) = <<Reg(4, i.a.reg), i.b>>
    BY <2>4 DEF Args, ZeroExtends
  <2> QED BY <1>9, <2>3, <2>5, ReadsAsRead
<1> QED BY <1>13, <1>14

(* mov, unless it is misencoded.                                            *)
LEMMA MovReads ==
  ASSUME NEW i, IsInstr(i), ~Misencoded(i), i.name = "mov",
         NEW c, NEW at \in Int, HasBytes(c, at, Encode(i))
  PROVE  ReadsAs(c, at, i, Args(i))
<1>1. /\ IsReg(i.a) \/ IsMem(i.a)
      /\ IsImm(i.b) \/ IsReg(i.b) \/ (IsMem(i.b) /\ ~IsMem(i.a))
  <2>1. MovConstructible(i.a, i.b) /\ i.b.kind # "func"
    BY InstrOfName DEF Misencoded
  <2> QED BY <2>1 DEF MovConstructible, IsRM, IsImm, IsReg, IsMem
<1>2. CASE IsReg(i.b) /\ IsMem(i.a)
  BY <1>2, MovStoreReads
<1>3. CASE IsRM(i.b) /\ IsReg(i.a)
  BY <1>3, MovLoadReads
<1>4. CASE IsImm(i.b) /\ IsMem(i.a)
  BY <1>4, MovMemImmReads
<1>5. CASE IsImm(i.b) /\ IsReg(i.a)
  BY <1>5, MovRegImmReads
<1> QED BY <1>1, <1>2, <1>3, <1>4, <1>5 DEF IsRM

(* Two elements in reverse.                                                 *)
LEMMA ReverseOfTwo == ASSUME NEW x, NEW y PROVE <<x, y>> = Reverse(<<y, x>>)
<1> DEFINE s == <<y, x>>
<1>1. Len(s) = 2 /\ s[1] = y /\ s[2] = x
  OBVIOUS
<1>2. Reverse(s) = [k \in 1..2 |-> s[(2 - k) + 1]]
  BY <1>1 DEF Reverse
<1>3. (2 - 1) + 1 = 2 /\ (2 - 2) + 1 = 1
  OBVIOUS
<1>4. [k \in 1..2 |-> s[(2 - k) + 1]] = <<x, y>>
  <2> HIDE DEF s
  <2> QED BY <1>1, <1>3
<1> QED BY <1>2, <1>4

(* xchg in the short form, unless it is misencoded; the order does not      *)
(* matter.                                                                  *)
LEMMA XchgShortReads ==
  ASSUME NEW i, IsInstr(i), ~Misencoded(i), i.name = "xchg", XchgUsesRegA(i),
         NEW c, NEW at \in Int, HasBytes(c, at, Encode(i))
  PROVE  ReadsAs(c, at, i, Args(i))
<1> DEFINE f == EncodeXchg(i)
           size == i.a.size
           low == i.a.reg + i.b.reg
           op == 144 + (low % 8)
<1>1. IsRM(i.a) /\ IsReg(i.b) /\ size = i.b.size /\ i.c = None /\ Encode(i) = Assemble(f)
  BY InstrOfName, ClassOfName
<1>2. size # 1 /\ IsReg(i.a) /\ (i.a.reg = 0 \/ i.b.reg = 0)
  BY DEF XchgUsesRegA
<1>3. ~(i.a.reg >= 8) /\ ~(i.b.reg >= 8) /\ i.a # i.b
  BY DEF Misencoded
<1>4. /\ size \in {2, 4, 8} /\ i.a.reg \in 0..15 /\ i.a = Reg(size, i.a.reg)
      /\ i.b.reg \in 0..15 /\ i.b = Reg(size, i.b.reg) /\ i.b # None
  <2>1. IsRM(i.b)
    BY <1>1 DEF IsRM
  <2> QED BY <1>1, <1>2, <2>1, OperandOfInstr
<1>5. low \in 1..7 /\ low % 8 = low
  <2>1. i.a.reg # i.b.reg
    BY <1>3, <1>4
  <2>2. low \in 1..7
    BY <1>2, <1>3, <1>4, <2>1
  <2> HIDE DEF low
  <2> QED BY <2>2
<1>6. f = Form(size, {i.a, i.b}, <<op>>, None, None, None, None)
  BY DEF EncodeXchg, XchgUsesRegA
<1>7. /\ f.size = size /\ f.opcode = <<op>> /\ f.inOpcode = None
      /\ f.field = None /\ f.rm = None /\ f.imm = None
  BY <1>6 DEF Form
<1>8. op = 144 + low /\ op \in 145..151
  <2> HIDE DEF low
  <2> QED BY <1>5
<1> HIDE DEF f, op, low
<1>9. OneByteForm(f, op)
  <2>1. op \in 0..255 /\ op # 102 /\ op \div 16 # 4
    BY <1>8
  <2> QED BY <1>4, <1>7, <2>1 DEF OneByteForm
<1>10. HasForm(f, c, at) /\ End(f, at) = at + Len(Encode(i))
  BY <1>1 DEF HasForm, End
<1>11. IsDecodable(c, at) /\ Opcode(c, at) = op /\ SizeAt(c, at) = size
  BY <1>4, <1>7, <1>9, <1>10, ReadsOpcode
<1>12. OpcodeAt(c, at) + 1 = End(f, at)
  BY <1>7, <1>9, <1>10, ReadsNoOperands
<1>13. LowAt(c, at) = low
  <2>1. ReadPrefixes(c, at).b = 8 * RexB(f)
    <3>1. IsForm(f)
      BY <1>9, OneByteFormIsPlain DEF IsPlainForm
    <3> QED BY <1>10, <3>1, ReadPrefixesOf DEF HasForm
  <2>2. RexB(f) = 0
    BY <1>7 DEF RexB
  <2>3. op % 8 = low
    BY <1>5, <1>8
  <2> QED BY <1>5, <1>11, <2>1, <2>2, <2>3 DEF LowAt
<1>14. Decode(c, at) = Read("xchg", <<Reg(size, low), Reg(size, 0)>>, End(f, at))
  <2>1. Opcode(c, at) \in Int /\ Opcode(c, at) \div 8 = 18 /\ LowAt(c, at) # 0
    BY <1>5, <1>8, <1>11, <1>13
  <2> QED BY <1>11, <1>12, <1>13, <2>1, DecodesXchgReg
<1>15. Args(i) = <<i.a, i.b>>
  <2>1. ~ZeroExtends(i)
    BY DEF ZeroExtends
  <2>2. Meant(i.a, size) = i.a /\ Meant(i.b, size) = i.b
    BY <1>1, MeantRM DEF IsRM
  <2> QED BY <1>1, <1>4, <2>1, <2>2, Args2
<1>16. SameArgs("xchg", <<Reg(size, low), Reg(size, 0)>>, <<i.a, i.b>>)
  <2>1. CASE i.b.reg = 0
    <3>1. low = i.a.reg
      BY <1>4, <2>1 DEF low
    <3> QED BY <1>4, <2>1, <3>1 DEF SameArgs
  <2>2. CASE i.a.reg = 0
    <3>1. low = i.b.reg
      BY <1>4, <2>2 DEF low
    <3>2. <<Reg(size, low), Reg(size, 0)>> = <<i.b, i.a>>
      BY <1>4, <2>2, <3>1
    <3>3. <<i.b, i.a>> = Reverse(<<i.a, i.b>>)
      BY ReverseOfTwo, Zenon
    <3> QED BY <3>2, <3>3, Zenon DEF SameArgs
  <2> QED BY <1>2, <2>1, <2>2
<1> QED BY <1>10, <1>14, <1>15, <1>16 DEF ReadsAs, Read

(* xchg with ModRM.                                                         *)
LEMMA XchgLongReads ==
  ASSUME NEW i, IsInstr(i), i.name = "xchg", ~XchgUsesRegA(i),
         NEW c, NEW at \in Int, HasBytes(c, at, Encode(i))
  PROVE  ReadsAs(c, at, i, Args(i))
<1> DEFINE f == EncodeXchg(i)
           size == i.a.size
           w == W(size)
           m == OperandsAt(c, at, size)
<1>1. IsRM(i.a) /\ IsReg(i.b) /\ size = i.b.size /\ i.c = None /\ Encode(i) = Assemble(f)
  BY InstrOfName, ClassOfName
<1>2. IsRM(i.b)
  BY <1>1 DEF IsRM
<1>3. size \in {1, 2, 4, 8} /\ IsRMOperand(i.a) /\ i.a # None /\ IsRegOperand(i.b) /\ i.b # None
  BY <1>1, <1>2, OperandOfInstr
<1>4. f = Form(size, {i.a, i.b}, Wide(134, i.a), None, i.b, i.a, None)
  BY DEF EncodeXchg, XchgUsesRegA
<1>5. /\ f.size = size /\ f.opcode = <<134 + w>> /\ f.inOpcode = None /\ i.a \in f.rex /\ i.b \in f.rex
      /\ f.field = i.b /\ f.rm = i.a /\ f.imm = None
  BY <1>4 DEF Form, Wide, W
<1>6. w \in {0, 1} /\ (w = 0 <=> size = 1)
  BY DEF W
<1> HIDE DEF f, w
<1>7. OneByteForm(f, 134 + w)
  BY <1>3, <1>5, <1>6 DEF OneByteForm
<1>8. HasForm(f, c, at) /\ End(f, at) = at + Len(Encode(i))
  BY <1>1 DEF HasForm, End
<1>9. /\ IsDecodable(c, at) /\ Opcode(c, at) = 134 + w
      /\ size = IF w = 0 THEN 1 ELSE SizeAt(c, at)
  BY <1>3, <1>5, <1>6, <1>7, <1>8, ReadsOpcode
<1>10. m.rm = i.a /\ m.reg = i.b /\ m.next = End(f, at)
  BY <1>1, <1>3, <1>5, <1>7, <1>8, ReadsOperands
<1>11. Decode(c, at) = Read("xchg", <<m.rm, m.reg>>, m.next)
  <2> HIDE DEF m
  <2> QED BY <1>6, <1>9, DecodesXchg DEF m
<1>12. Decode(c, at) = Read(i.name, <<i.a, i.b>>, End(f, at))
  <2> HIDE DEF m
  <2> QED BY <1>10, <1>11
<1>13. Args(i) = <<i.a, i.b>>
  <2>1. ~ZeroExtends(i)
    BY DEF ZeroExtends
  <2>2. Meant(i.a, size) = i.a /\ Meant(i.b, size) = i.b
    BY <1>1, <1>2, MeantRM
  <2> QED BY <1>1, <1>3, <2>1, <2>2, Args2
<1> QED BY <1>8, <1>12, <1>13, ReadsAsRead

(* The argument of push.                                                    *)
LEMMA PushArgs ==
  ASSUME NEW i, i.name = "push"
  PROVE  Args(i) = <<Meant(i.a, IF i.a.size = 2 THEN 2 ELSE 8)>>
  BY DEF Args, ZeroExtends

(* The argument of pop, jmp and call.                                       *)
LEMMA OneArg ==
  ASSUME NEW i, i.name \in {"pop", "jmp", "call"}, i.b = None
  PROVE  Args(i) = <<Meant(i.a, i.a.size)>>
  BY DEF Args, ZeroExtends

(* push and pop of a register.                                              *)
LEMMA PushPopRegReads ==
  ASSUME NEW i, IsInstr(i), i.name \in {"push", "pop"}, IsReg(i.a),
         NEW c, NEW at \in Int, HasBytes(c, at, Encode(i))
  PROVE  ReadsAs(c, at, i, Args(i))
<1> DEFINE f == IF i.name = "push" THEN EncodePush(i) ELSE EncodePop(i)
           op == IF i.name = "push" THEN 80 ELSE 88
<1>1. i.b = None /\ i.a.size \in {2, 8} /\ Encode(i) = Assemble(f) /\ IsRM(i.a)
  <2>1. IsRM(i.a) /\ ~IsImm(i.a)
    BY DEF IsRM, IsReg, IsImm
  <2> QED BY <2>1, InstrOfName, ClassOfName
<1>2. IsRegOperand(i.a) /\ i.a # None /\ i.a = Reg(i.a.size, i.a.reg)
  BY <1>1, OperandOfInstr
<1>3. f = Form(StackSize(i.a), {i.a}, <<op>>, i.a, None, None, None)
  <2>1. CASE i.name = "push"
    BY <2>1 DEF EncodePush, IsReg, IsMem, IsImm
  <2>2. CASE i.name = "pop"
    BY <2>2 DEF EncodePop, IsReg
  <2> QED BY <2>1, <2>2
<1>4. /\ f.size = StackSize(i.a) /\ f.opcode = <<op>> /\ f.inOpcode = i.a /\ i.a \in f.rex
      /\ f.field = None /\ f.rm = None /\ f.imm = None
  BY <1>3 DEF Form
<1>5. op \in {80, 88} /\ (op = 80 <=> i.name = "push") /\ 80 \div 8 = 10 /\ 88 \div 8 = 11
  OBVIOUS
<1>6. StackSize(i.a) = IF i.a.size = 2 THEN 2 ELSE 0
  BY <1>1 DEF StackSize
<1> HIDE DEF f, op
<1>7. ShortForm(f, op)
  BY <1>2, <1>4, <1>5, <1>6 DEF ShortForm
<1>8. HasForm(f, c, at) /\ End(f, at) = at + Len(Encode(i))
  BY <1>1 DEF HasForm, End
<1>9. /\ IsDecodable(c, at) /\ Opcode(c, at) \in Int /\ Opcode(c, at) \div 8 = op \div 8
      /\ LowAt(c, at) = i.a.reg /\ SizeAt(c, at) = IF i.a.size = 2 THEN 2 ELSE 4
      /\ OpcodeAt(c, at) + 1 = End(f, at)
  BY <1>2, <1>4, <1>6, <1>7, <1>8, ReadsShort
<1>10. StackSizeAt(c, at) = i.a.size
  BY <1>1, <1>9 DEF StackSizeAt
<1>11. Decode(c, at) = Read(i.name, <<i.a>>, End(f, at))
  <2>1. CASE i.name = "push"
    <3>1. Decode(c, at) = Read("push", <<Reg(i.a.size, i.a.reg)>>, End(f, at))
      BY <1>5, <1>9, <1>10, <2>1, DecodesPushReg
    <3> QED BY <1>2, <2>1, <3>1
  <2>2. CASE i.name = "pop"
    <3>1. Decode(c, at) = Read("pop", <<Reg(i.a.size, i.a.reg)>>, End(f, at))
      BY <1>5, <1>9, <1>10, <2>2, DecodesPopReg
    <3> QED BY <1>2, <2>2, <3>1
  <2> QED BY <2>1, <2>2
<1>12. Args(i) = <<i.a>>
  BY <1>1, PushArgs, OneArg, MeantRM
<1> QED BY <1>8, <1>11, <1>12, ReadsAsRead

(* push of an immediate.                                                    *)
LEMMA PushImmReads ==
  ASSUME NEW i, IsInstr(i), i.name = "push", IsImm(i.a),
         NEW c, NEW at \in Int, HasBytes(c, at, Encode(i))
  PROVE  ReadsAs(c, at, i, Args(i))
<1> DEFINE f == EncodePush(i)
           size == i.a.size
           stack == IF size = 2 THEN 2 ELSE 8
           op == IF size = 1 THEN 106 ELSE 104
<1>1. size # 8 /\ Encode(i) = Assemble(f)
  <2>1. ~IsRM(i.a)
    BY DEF IsRM, IsImm, IsReg, IsMem
  <2> QED BY <2>1, InstrOfName, ClassOfName
<1>2. size \in {1, 2, 4} /\ IsImmOperand(i.a) /\ i.a # None
  BY <1>1, OperandOfInstr
<1>3. f = Form(size, {i.a}, <<op>>, None, None, None, i.a)
  BY <1>1 DEF EncodePush, StackSize, IsReg, IsMem, IsImm
<1>4. /\ f.size = size /\ f.opcode = <<op>> /\ f.inOpcode = None
      /\ f.field = None /\ f.rm = None /\ f.imm = i.a
  BY <1>3 DEF Form
<1>5. op \in {104, 106} /\ (op = 106 <=> size = 1)
  OBVIOUS
<1> HIDE DEF f, op
<1>6. OneByteForm(f, op)
  BY <1>2, <1>4, <1>5 DEF OneByteForm
<1>7. HasForm(f, c, at) /\ End(f, at) = at + Len(Encode(i))
  BY <1>1 DEF HasForm, End
<1>8. IsDecodable(c, at) /\ Opcode(c, at) = op /\ SizeAt(c, at) = IF size = 2 THEN 2 ELSE 4
  BY <1>2, <1>4, <1>6, <1>7, ReadsOpcode
<1>9. StackSizeAt(c, at) = stack
  BY <1>8 DEF StackSizeAt
<1>10. OpcodeAt(c, at) + 1 + size = End(f, at) /\ ImmAt(c, OpcodeAt(c, at) + 1, size, stack) = Meant(i.a,
              stack)
  <2> HIDE DEF stack
  <2> QED BY <1>2, <1>4, <1>6, <1>7, ReadsImm
<1>11. Decode(c, at) = Read("push", <<Meant(i.a, stack)>>, End(f, at))
  <2>1. CASE size = 1
    <3>1. Decode(c, at) = Read("push", <<ImmAt(c, OpcodeAt(c, at) + 1, 1, stack)>>, OpcodeAt(c, at) + 2)
      BY <1>5, <1>8, <1>9, <2>1, DecodesPushImm8
    <3>2. OpcodeAt(c, at) + 2 = End(f, at)
      BY <1>8, <1>10, <2>1 DEF IsDecodable
    <3> QED BY <1>10, <2>1, <3>1, <3>2
  <2>2. CASE size # 1
    <3>1. Decode(c, at) = Read("push", <<ImmAt(c, OpcodeAt(c, at) + 1, Full(stack), stack)>>,
                               OpcodeAt(c, at) + 1 + Full(stack))
      BY <1>5, <1>8, <1>9, <2>2, DecodesPushImm
    <3>2. Full(stack) = size
      BY <1>2, <2>2 DEF Full
    <3> QED BY <1>10, <3>1, <3>2
  <2> QED BY <2>1, <2>2
<1>12. Args(i) = <<Meant(i.a, stack)>>
  BY PushArgs
<1> QED BY <1>7, <1>11, <1>12, ReadsAsRead

StackOp(name) == IF name = "pop" THEN 143 ELSE 255
StackExt(name) == CASE name = "push" -> 6 [] name = "pop" -> 0 [] name = "jmp" -> 4 [] name = "call" -> 2

(* One-operand instructions whose operand size is not that of the           *)
(* instruction.                                                             *)
LEMMA StackSizedReads ==
  ASSUME NEW i, i.name \in {"push", "pop", "jmp", "call"}, IsRM(i.a), IsRMOperand(i.a), i.a # None,
         i.a.size \in {2, 8}, Args(i) = <<i.a>>, NEW f, Encode(i) = Assemble(f),
         f.size = (IF i.a.size = 2 THEN 2 ELSE 0), f.rex = {i.a}, f.opcode = <<StackOp(i.name)>>,
         f.inOpcode = None, f.field = Ext(StackExt(i.name)), f.rm = i.a, f.imm = None,
         NEW c, NEW at \in Int, HasBytes(c, at, Encode(i))
  PROVE  ReadsAs(c, at, i, Args(i))
<1> DEFINE op == StackOp(i.name)
           m == OperandsAt(c, at, i.a.size)
<1>1. /\ i.name = "push" => op = 255 /\ StackExt(i.name) = 6
      /\ i.name = "pop" => op = 143 /\ StackExt(i.name) = 0
      /\ i.name = "jmp" => op = 255 /\ StackExt(i.name) = 4
      /\ i.name = "call" => op = 255 /\ StackExt(i.name) = 2
  BY DEF StackOp, StackExt
<1>2. op \in {143, 255} /\ StackExt(i.name) \in 0..7
  BY <1>1
<1>3. f.field.kind = "ext" /\ f.field.n = StackExt(i.name) /\ f.field # None
  BY DEF Ext, None
<1> HIDE DEF op
<1>4. OneByteForm(f, op)
  BY <1>2, <1>3 DEF OneByteForm, op
<1>5. HasForm(f, c, at) /\ End(f, at) = at + Len(Encode(i))
  BY DEF HasForm, End
<1>6. IsDecodable(c, at) /\ Opcode(c, at) = op /\ SizeAt(c, at) = IF i.a.size = 2 THEN 2 ELSE 4
  BY <1>4, <1>5, ReadsOpcode
<1>7. StackSizeAt(c, at) = i.a.size
  BY <1>6 DEF StackSizeAt
<1>8. m.rm = i.a /\ m.field = StackExt(i.name) /\ m.next = End(f, at)
  BY <1>3, <1>4, <1>5, ReadsOperands
<1> HIDE DEF m
<1>9. m = OperandsAt(c, at, StackSizeAt(c, at))
  BY <1>7 DEF m
<1>10. Decode(c, at) = Read(i.name, <<m.rm>>, m.next)
  <2>1. CASE i.name = "push"
    BY <1>1, <1>6, <1>8, <1>9, <2>1, DecodesPush
  <2>2. CASE i.name = "pop"
    BY <1>1, <1>6, <1>8, <1>9, <2>2, DecodesPop
  <2>3. CASE i.name = "jmp"
    BY <1>1, <1>6, <1>8, <1>9, <2>3, DecodesJmp
  <2>4. CASE i.name = "call"
    BY <1>1, <1>6, <1>8, <1>9, <2>4, DecodesCall
  <2> QED BY <2>1, <2>2, <2>3, <2>4
<1> QED BY <1>5, <1>8, <1>10, ReadsAsRead

(* push and pop of memory.                                                  *)
LEMMA PushPopMemReads ==
  ASSUME NEW i, IsInstr(i), i.name \in {"push", "pop"}, IsMem(i.a),
         NEW c, NEW at \in Int, HasBytes(c, at, Encode(i))
  PROVE  ReadsAs(c, at, i, Args(i))
<1> DEFINE f == IF i.name = "push" THEN EncodePush(i) ELSE EncodePop(i)
<1>1. i.b = None /\ i.a.size \in {2, 8} /\ Encode(i) = Assemble(f) /\ IsRM(i.a)
  <2>1. IsRM(i.a) /\ ~IsImm(i.a)
    BY DEF IsRM, IsMem, IsImm
  <2> QED BY <2>1, InstrOfName, ClassOfName
<1>2. IsRMOperand(i.a) /\ i.a # None
  BY <1>1, OperandOfInstr
<1>3. f = Form(StackSize(i.a), {i.a}, <<StackOp(i.name)>>, None, Ext(StackExt(i.name)), i.a, None)
  <2>1. CASE i.name = "push"
    <3>1. EncodePush(i) = Form(StackSize(i.a), {i.a}, <<255>>, None, Ext(6), i.a, None)
      BY DEF EncodePush, IsReg, IsMem, IsImm
    <3>2. StackOp(i.name) = 255 /\ StackExt(i.name) = 6
      BY <2>1 DEF StackOp, StackExt
    <3> QED BY <2>1, <3>1, <3>2
  <2>2. CASE i.name = "pop"
    <3>1. EncodePop(i) = Form(StackSize(i.a), {i.a}, <<143>>, None, Ext(0), i.a, None)
      BY DEF EncodePop, IsReg, IsMem
    <3>2. StackOp(i.name) = 143 /\ StackExt(i.name) = 0
      BY <2>2 DEF StackOp, StackExt
    <3> QED BY <2>2, <3>1, <3>2
  <2> QED BY <2>1, <2>2
<1>4. /\ f.size = StackSize(i.a) /\ f.opcode = <<StackOp(i.name)>> /\ f.inOpcode = None /\ f.rex = {i.a}
      /\ f.field = Ext(StackExt(i.name)) /\ f.rm = i.a /\ f.imm = None
  BY <1>3 DEF Form
<1>5. StackSize(i.a) = IF i.a.size = 2 THEN 2 ELSE 0
  BY <1>1 DEF StackSize
<1>6. Args(i) = <<i.a>>
  BY <1>1, PushArgs, OneArg, MeantRM
<1> HIDE DEF f
<1> QED BY <1>1, <1>2, <1>4, <1>5, <1>6, StackSizedReads

(* jmp and call through a register or memory.                               *)
LEMMA IndirectReads ==
  ASSUME NEW i, IsInstr(i), i.name \in {"jmp", "call"}, IsRM(i.a),
         NEW c, NEW at \in Int, HasBytes(c, at, Encode(i))
  PROVE  ReadsAs(c, at, i, Args(i))
<1> DEFINE f == EncodeIndirect(i)
<1>1. i.b = None /\ i.a.size = 8
  <2>1. i.a.kind # "block" /\ i.a.kind # "func"
    BY DEF IsRM, IsReg, IsMem
  <2> QED BY <2>1, InstrOfName
<1>2. IsRMOperand(i.a) /\ i.a # None
  BY OperandOfInstr
<1>3. Encode(i) = Assemble(f)
  <2>1. Encode(i) = EncodeControl(i)
    BY ClassOfName DEF ControlNames
  <2>2. EncodeControl(i) = Assemble(EncodeIndirect(i))
    BY DEF EncodeControl
  <2> QED BY <2>1, <2>2
<1>4. /\ f.size = 0 /\ f.opcode = <<255>> /\ f.inOpcode = None /\ f.rex = {i.a}
      /\ f.field = Ext(StackExt(i.name)) /\ f.rm = i.a /\ f.imm = None
  BY DEF EncodeIndirect, Form, StackExt
<1>5. StackOp(i.name) = 255
  BY DEF StackOp
<1>6. Args(i) = <<i.a>>
  BY <1>1, OneArg, MeantRM
<1> HIDE DEF f
<1> QED BY <1>1, <1>2, <1>3, <1>4, <1>5, <1>6, StackSizedReads

(* Without prefixes the opcode is where the instruction begins.             *)
LEMMA NoPrefix ==
  ASSUME NEW c, NEW at \in Int, NEW b \in Int, Byte(c, at) = b, b # 102, b \div 16 # 4
  PROVE  OpcodeAt(c, at) = at /\ SizeAt(c, at) = 4 /\ IsDecodable(c, at) /\ Opcode(c, at) = b
<1>1. OpcodeAt(c, at) = at /\ SizeAt(c, at) = 4
  BY DEF OpcodeAt, SizeAt, ReadPrefixes
<1> QED BY <1>1 DEF IsDecodable, Opcode

(* ret is read as it is written.                                            *)
LEMMA RetReads ==
  ASSUME NEW i, i.name = "ret", NEW c, NEW at \in Int, HasBytes(c, at, Encode(i))
  PROVE  ReadsAs(c, at, i, Args(i))
<1>1. Encode(i) = <<195>>
  <2>1. Encode(i) = EncodeControl(i)
    BY ClassOfName DEF ControlNames
  <2> QED BY <2>1 DEF EncodeControl
<1>2. Byte(c, at) = 195
  BY <1>1, HasOneByte
<1>3. 195 # 102 /\ 195 \div 16 # 4 /\ 195 \in Int
  OBVIOUS
<1>4. OpcodeAt(c, at) = at /\ IsDecodable(c, at) /\ Opcode(c, at) = 195
  BY <1>2, <1>3, NoPrefix
<1>5. Decode(c, at) = Read("ret", <<>>, at + 1)
  BY <1>4, DecodesRet
<1>6. Args(i) = <<>> /\ Len(Encode(i)) = 1
  BY <1>1 DEF Args, ZeroExtends
<1> QED BY <1>5, <1>6, ReadsAsRead

(* syscall is read as it is written.                                        *)
LEMMA SyscallReads ==
  ASSUME NEW i, i.name = "syscall", NEW c, NEW at \in Int, HasBytes(c, at, Encode(i))
  PROVE  ReadsAs(c, at, i, Args(i))
<1>1. Encode(i) = <<15, 5>>
  <2>1. Encode(i) = EncodeControl(i)
    BY ClassOfName DEF ControlNames
  <2> QED BY <2>1 DEF EncodeControl
<1>2. Byte(c, at) = 15 /\ Byte(c, at + 1) = 5
  <2>1. \A j \in 1..2 : Byte(c, at + j - 1) = <<15, 5>>[j]
    BY <1>1 DEF HasBytes
  <2>2. at + 1 - 1 = at /\ at + 2 - 1 = at + 1
    OBVIOUS
  <2> QED BY <2>1, <2>2
<1>3. 15 # 102 /\ 15 \div 16 # 4 /\ 15 \in Int
  OBVIOUS
<1>4. OpcodeAt(c, at) = at /\ IsDecodable(c, at) /\ Opcode(c, at) = 15
  BY <1>2, <1>3, NoPrefix
<1>5. Decode(c, at) = Read("syscall", <<>>, at + 2)
  BY <1>2, <1>4, DecodesSyscall
<1>6. Args(i) = <<>> /\ Len(Encode(i)) = 2
  BY <1>1 DEF Args, ZeroExtends
<1> QED BY <1>5, <1>6, ReadsAsRead

-----------------------------------------------------------------------------
(* Linked references.                                                       *)

(* A linked reference of an instruction at position at: its own bytes, and  *)
(* in its last four the distance d.                                         *)
HasReference(c, at, e, d) ==
    /\ \A j \in 1..Len(e) - 4 : Byte(c, at + j - 1) = e[j]
    /\ \A m \in 1..4 : Byte(c, at + Len(e) - 5 + m) = LowBytes(d, 4)[m]

(* What the concatenation of two sequences holds.                           *)
LEMMA Concatenated ==
  ASSUME NEW S, NEW s \in Seq(S), NEW t \in Seq(S)
  PROVE  /\ s \o t \in Seq(S) /\ Len(s \o t) = Len(s) + Len(t) /\ Len(s) \in Nat /\ Len(t) \in Nat
         /\ \A k \in 1..Len(s) : (s \o t)[k] = s[k]
         /\ \A k \in 1..Len(t) : (s \o t)[Len(s) + k] = t[k]
<1>1. s \o t \in Seq(S) /\ Len(s \o t) = Len(s) + Len(t) /\ Len(s) \in Nat /\ Len(t) \in Nat
  OBVIOUS
<1>2. ASSUME NEW k \in 1..Len(s) PROVE (s \o t)[k] = s[k]
  <2>1. k \in 1..Len(s \o t) /\ k <= Len(s)
    BY <1>1
  <2> QED BY <2>1
<1>3. ASSUME NEW k \in 1..Len(t) PROVE (s \o t)[Len(s) + k] = t[k]
  <2>1. Len(s) + k \in 1..Len(s \o t) /\ ~(Len(s) + k <= Len(s)) /\ (Len(s) + k) - Len(s) = k
    BY <1>1
  <2> QED BY <2>1
<1> QED BY <1>1, <1>2, <1>3

(* An opcode with the four bytes that are left to the linker.               *)
LEMMA SequenceAndUnlinked ==
  /\ \A a : Len(<<a>> \o Unlinked) = 5 /\ (<<a>> \o Unlinked)[1] = a
  /\ \A a, b : /\ Len(<<a, b>> \o Unlinked) = 6 /\ (<<a, b>> \o Unlinked)[1] = a
                /\ (<<a, b>> \o Unlinked)[2] = b
<1>1. Unlinked \in Seq({0}) /\ Len(Unlinked) = 4
  BY DEF Unlinked
<1>2. ASSUME NEW a PROVE Len(<<a>> \o Unlinked) = 5 /\ (<<a>> \o Unlinked)[1] = a
  <2> DEFINE s == <<a>>
             S == {a, 0}
  <2>1. s \in Seq(S) /\ Unlinked \in Seq(S) /\ Len(s) = 1 /\ s[1] = a
    BY <1>1
  <2> HIDE DEF s, S
  <2>2. 1 \in 1..Len(s)
    BY <2>1
  <2>3. Len(s \o Unlinked) = Len(s) + Len(Unlinked) /\ \A k \in 1..Len(s) : (s \o Unlinked)[k] = s[k]
    BY <2>1, Concatenated
  <2>4. Len(s) + Len(Unlinked) = 5
    BY <1>1, <2>1
  <2> QED BY <2>1, <2>2, <2>3, <2>4, Zenon DEF s
<1>3. ASSUME NEW a, NEW b
      PROVE  Len(<<a, b>> \o Unlinked) = 6 /\ (<<a, b>> \o Unlinked)[1] = a /\ (<<a, b>> \o Unlinked)[2] = b
  <2> DEFINE s == <<a, b>>
             S == {a, b, 0}
  <2>1. s \in Seq(S) /\ Unlinked \in Seq(S) /\ Len(s) = 2 /\ s[1] = a /\ s[2] = b
    BY <1>1
  <2> HIDE DEF s, S
  <2>2. 1 \in 1..Len(s) /\ 2 \in 1..Len(s)
    BY <2>1
  <2>3. Len(s \o Unlinked) = Len(s) + Len(Unlinked) /\ \A k \in 1..Len(s) : (s \o Unlinked)[k] = s[k]
    BY <2>1, Concatenated
  <2>4. Len(s) + Len(Unlinked) = 6
    BY <1>1, <2>1
  <2> QED BY <2>1, <2>2, <2>3, <2>4, Zenon DEF s
<1> QED BY <1>2, <1>3, Zenon

(* A patched distance is read back.                                         *)
LEMMA DistanceIsRead ==
  ASSUME NEW c, NEW q \in Int, NEW d \in Int32, \A m \in 1..4 : Byte(c, q + m - 1) = LowBytes(d, 4)[m]
  PROVE  Signed32(Bytes(c, q, 4)) = d
<1>1. HasBytes(c, q, LowBytes(d, 4))
  <2>1. d \in Int
    BY Int32IsInt
  <2>2. Len(LowBytes(d, 4)) = 4
    BY LowBytesLen
  <2> QED BY <2>2 DEF HasBytes
<1> QED BY <1>1, ReadDisp

(* A linked jmp is read as a jump to the address of the block.              *)
LEMMA JmpReferenceReads ==
  ASSUME NEW i, i.name = "jmp", i.b = None, i.a.kind = "block", NEW c, NEW at \in Int, NEW d \in Int32,
         HasReference(c, at, Encode(i), d), AddressOf(i.a) = at + Len(Encode(i)) + d
  PROVE  ReadsAs(c, at, i, Args(i))
<1>1. Encode(i) = <<233>> \o Unlinked
  <2>1. Encode(i) = EncodeControl(i)
    BY ClassOfName DEF ControlNames
  <2>2. ~IsRM(i.a)
    BY DEF IsRM, IsReg, IsMem
  <2> QED BY <2>1, <2>2 DEF EncodeControl
<1>2. Len(Encode(i)) = 5 /\ Encode(i)[1] = 233
  BY <1>1, SequenceAndUnlinked
<1>3. Byte(c, at) = 233
  <2>1. 1 \in 1..Len(Encode(i)) - 4 /\ at + 1 - 1 = at
    BY <1>2
  <2> QED BY <1>2, <2>1 DEF HasReference
<1>4. Signed32(Bytes(c, at + 1, 4)) = d
  <2>1. ASSUME NEW m \in 1..4 PROVE Byte(c, at + 1 + m - 1) = LowBytes(d, 4)[m]
    <3>1. at + Len(Encode(i)) - 5 + m = at + 1 + m - 1
      BY <1>2
    <3> QED BY <3>1 DEF HasReference
  <2>2. at + 1 \in Int
    OBVIOUS
  <2> QED BY <2>1, <2>2, DistanceIsRead
<1>5. OpcodeAt(c, at) = at /\ IsDecodable(c, at) /\ Opcode(c, at) = 233
  <2>1. 233 # 102 /\ 233 \div 16 # 4 /\ 233 \in Int
    OBVIOUS
  <2> QED BY <1>3, <2>1, NoPrefix
<1>6. Decode(c, at) = Read("jmp", <<Target(at + 5 + d)>>, at + 5)
  BY <1>4, <1>5, DecodesJmpTo
<1>7. Args(i) = <<Target(AddressOf(i.a))>>
  <2>1. Args(i) = <<Meant(i.a, i.a.size)>>
    BY OneArg
  <2> QED BY <2>1 DEF Meant, IsImm
<1>8. at + 5 = at + Len(Encode(i)) /\ Target(at + 5 + d) = Target(AddressOf(i.a))
  BY <1>2
<1> QED BY <1>6, <1>7, <1>8, ReadsAsRead, Zenon

(* A linked call is read as a call of the address of the function.          *)
LEMMA CallReferenceReads ==
  ASSUME NEW i, i.name = "call", i.b = None, i.a.kind = "func", NEW c, NEW at \in Int, NEW d \in Int32,
         HasReference(c, at, Encode(i), d), AddressOf(i.a) = at + Len(Encode(i)) + d
  PROVE  ReadsAs(c, at, i, Args(i))
<1>1. Encode(i) = <<232>> \o Unlinked
  <2>1. Encode(i) = EncodeControl(i)
    BY ClassOfName DEF ControlNames
  <2>2. ~IsRM(i.a)
    BY DEF IsRM, IsReg, IsMem
  <2> QED BY <2>1, <2>2 DEF EncodeControl
<1>2. Len(Encode(i)) = 5 /\ Encode(i)[1] = 232
  BY <1>1, SequenceAndUnlinked
<1>3. Byte(c, at) = 232
  <2>1. 1 \in 1..Len(Encode(i)) - 4 /\ at + 1 - 1 = at
    BY <1>2
  <2> QED BY <1>2, <2>1 DEF HasReference
<1>4. Signed32(Bytes(c, at + 1, 4)) = d
  <2>1. ASSUME NEW m \in 1..4 PROVE Byte(c, at + 1 + m - 1) = LowBytes(d, 4)[m]
    <3>1. at + Len(Encode(i)) - 5 + m = at + 1 + m - 1
      BY <1>2
    <3> QED BY <3>1 DEF HasReference
  <2>2. at + 1 \in Int
    OBVIOUS
  <2> QED BY <2>1, <2>2, DistanceIsRead
<1>5. OpcodeAt(c, at) = at /\ IsDecodable(c, at) /\ Opcode(c, at) = 232
  <2>1. 232 # 102 /\ 232 \div 16 # 4 /\ 232 \in Int
    OBVIOUS
  <2> QED BY <1>3, <2>1, NoPrefix
<1>6. Decode(c, at) = Read("call", <<Target(at + 5 + d)>>, at + 5)
  BY <1>4, <1>5, DecodesCallTo
<1>7. Args(i) = <<Target(AddressOf(i.a))>>
  <2>1. Args(i) = <<Meant(i.a, i.a.size)>>
    BY OneArg
  <2> QED BY <2>1 DEF Meant, IsImm
<1>8. at + 5 = at + Len(Encode(i)) /\ Target(at + 5 + d) = Target(AddressOf(i.a))
  BY <1>2
<1> QED BY <1>6, <1>7, <1>8, ReadsAsRead, Zenon

(* A linked conditional jump is read as one to the address of the block.    *)
LEMMA JccReferenceReads ==
  ASSUME NEW i, i.name = "jcc", i.cond \in 0..15, i.a.kind = "block", NEW c, NEW at \in Int, NEW d \in Int32,
         HasReference(c, at, Encode(i), d), AddressOf(i.a) = at + Len(Encode(i)) + d
  PROVE  ReadsAs(c, at, i, Args(i))
<1> DEFINE o == 128 + i.cond
<1>1. Encode(i) = <<15, o>> \o Unlinked
  <2>1. Encode(i) = EncodeControl(i)
    BY ClassOfName DEF ControlNames
  <2> QED BY <2>1 DEF EncodeControl
<1>2. Len(Encode(i)) = 6 /\ Encode(i)[1] = 15 /\ Encode(i)[2] = o
  BY <1>1, SequenceAndUnlinked
<1>3. o \in 128..143 /\ o % 16 = i.cond
  OBVIOUS
<1> HIDE DEF o
<1>4. Byte(c, at) = 15 /\ Byte(c, at + 1) = o
  <2>1. 1 \in 1..Len(Encode(i)) - 4 /\ 2 \in 1..Len(Encode(i)) - 4 /\ at + 1 - 1 = at /\ at + 2 - 1 = at + 1
    BY <1>2
  <2> QED BY <1>2, <2>1 DEF HasReference
<1>5. Signed32(Bytes(c, at + 2, 4)) = d
  <2>1. ASSUME NEW m \in 1..4 PROVE Byte(c, at + 2 + m - 1) = LowBytes(d, 4)[m]
    <3>1. at + Len(Encode(i)) - 5 + m = at + 2 + m - 1
      BY <1>2
    <3> QED BY <3>1 DEF HasReference
  <2>2. at + 2 \in Int
    OBVIOUS
  <2> QED BY <2>1, <2>2, DistanceIsRead
<1>6. OpcodeAt(c, at) = at /\ IsDecodable(c, at) /\ Opcode(c, at) = 15
  <2>1. 15 # 102 /\ 15 \div 16 # 4 /\ 15 \in Int
    OBVIOUS
  <2> QED BY <1>4, <2>1, NoPrefix
<1>7. Decode(c, at) = Read("jcc", <<i.cond, Target(at + 6 + d)>>, at + 6)
  BY <1>3, <1>4, <1>5, <1>6, DecodesJcc
<1>8. Args(i) = <<i.cond, Target(AddressOf(i.a))>>
  BY DEF Args, ZeroExtends, Meant, IsImm
<1>9. at + 6 = at + Len(Encode(i)) /\ Target(at + 6 + d) = Target(AddressOf(i.a))
  BY <1>2
<1> QED BY <1>7, <1>8, <1>9, ReadsAsRead, Zenon

-----------------------------------------------------------------------------
(* All instructions together.                                               *)

(* The classes of instructions are all there are.                           *)
LEMMA NameOfInstr ==
  ASSUME NEW i, IsInstr(i)
  PROVE  \/ i.name \in BinaryNames
         \/ i.name \in UnaryNames /\ i.b = None
         \/ i.name = "imul" /\ i.b # None
         \/ i.name \in {"sign_extend_a", "sign_extend_ad"}
         \/ i.name \in {"test", "mov", "xchg", "push", "pop", "setcc"}
         \/ i.name \in ControlNames
<1>1. /\ BinaryNames = {"add", "or", "adc", "sbb", "and", "sub", "xor", "cmp"}
      /\ UnaryNames = {"not", "neg", "mul", "imul", "div", "idiv"}
      /\ ControlNames = {"jcc", "jmp", "call", "syscall", "ret"}
  BY DEF BinaryNames, ALBase, UnaryNames, UnaryExt, ControlNames
<1> QED BY <1>1 DEF IsInstr

(* push and pop, all forms.                                                 *)
LEMMA PushPopReads ==
  ASSUME NEW i, IsInstr(i), i.name \in {"push", "pop"},
         NEW c, NEW at \in Int, HasBytes(c, at, Encode(i))
  PROVE  ReadsAs(c, at, i, Args(i))
<1>1. IsRM(i.a) \/ (i.name = "push" /\ IsImm(i.a))
  BY InstrOfName
<1> QED BY <1>1, PushPopRegReads, PushPopMemReads, PushImmReads DEF IsRM

(* The control flow instructions without a reference.                       *)
LEMMA ControlReads ==
  ASSUME NEW i, IsInstr(i), i.name \in ControlNames, Ref(i) = None,
         NEW c, NEW at \in Int, HasBytes(c, at, Encode(i))
  PROVE  ReadsAs(c, at, i, Args(i))
<1>1. ControlNames = {"jcc", "jmp", "call", "syscall", "ret"}
  BY DEF ControlNames
<1>2. CASE i.name \in {"jcc", "jmp", "call"}
  <2>1. i.name = "jcc" => i.a.kind = "block"
    BY InstrOfName
  <2>2. i.name \in {"jmp", "call"} => i.a.kind \in {"block", "func"} \/ IsRM(i.a)
    BY InstrOfName
  <2>3. i.a.kind \in {"block", "func"} => i.a # None /\ ~IsRM(i.a)
    BY DEF None, IsRM, IsReg, IsMem
  <2>4. i.name \in {"jmp", "call"} /\ IsRM(i.a)
    BY <1>2, <2>1, <2>2, <2>3 DEF Ref
  <2> QED BY <2>4, IndirectReads
<1>3. CASE i.name = "ret"
  BY <1>3, RetReads
<1>4. CASE i.name = "syscall"
  BY <1>4, SyscallReads
<1> QED BY <1>1, <1>2, <1>3, <1>4

(* Every class together.                                                    *)
LEMMA InstrReads ==
  ASSUME NEW i, IsInstr(i), ~Misencoded(i), Ref(i) = None,
         NEW c, NEW at \in Int, HasBytes(c, at, Encode(i))
  PROVE  ReadsAs(c, at, i, Args(i))
<1>1. CASE i.name \in BinaryNames
  BY <1>1, BinaryReads
<1>2. CASE i.name \in UnaryNames /\ i.b = None
  BY <1>2, UnaryReads
<1>3. CASE i.name = "imul" /\ i.b # None
  BY <1>3, ImulTwoReads, ImulImmReads
<1>4. CASE i.name \in {"sign_extend_a", "sign_extend_ad"}
  BY <1>4, SignExtendReads
<1>5. CASE i.name = "test"
  BY <1>5, TestRegReads, TestAccumulatorReads, TestImmReads
<1>6. CASE i.name = "mov"
  BY <1>6, MovReads
<1>7. CASE i.name = "xchg"
  BY <1>7, XchgShortReads, XchgLongReads
<1>8. CASE i.name \in {"push", "pop"}
  BY <1>8, PushPopReads
<1>9. CASE i.name = "setcc"
  BY <1>9, SetccReads
<1>10. CASE i.name \in ControlNames
  BY <1>10, ControlReads
<1> QED BY <1>1, <1>2, <1>3, <1>4, <1>5, <1>6, <1>7, <1>8, <1>9, <1>10, NameOfInstr

(* Jumps and calls are the instructions with a reference.                   *)
LEMMA NamesWithReference ==
  ASSUME NEW i, IsInstr(i), ~Misencoded(i), Ref(i) # None
  PROVE  /\ Ref(i) = i.a
         /\ \/ i.name = "jcc" /\ i.cond \in 0..15 /\ i.a.kind = "block"
            \/ i.name = "jmp" /\ i.b = None /\ i.a.kind = "block"
            \/ i.name = "call" /\ i.b = None /\ i.a.kind = "func"
<1>1. ~(i.name = "mov" /\ i.b.kind = "func")
  BY DEF Misencoded
<1>2. i.name \in {"jcc", "jmp", "call"} /\ ~IsRM(i.a) /\ Ref(i) = i.a
  BY <1>1 DEF Ref
<1> QED BY <1>2, InstrOfName

(* Every linked reference is read as the address it stands for.             *)
LEMMA ReferenceReads ==
  ASSUME NEW i, IsInstr(i), ~Misencoded(i), Ref(i) # None, NEW c, NEW at \in Int, NEW d \in Int32,
         HasReference(c, at, Encode(i), d), AddressOf(Ref(i)) = at + Len(Encode(i)) + d
  PROVE  ReadsAs(c, at, i, Args(i))
<1>1. AddressOf(i.a) = at + Len(Encode(i)) + d
  BY NamesWithReference
<1> QED BY <1>1, NamesWithReference, JccReferenceReads, JmpReferenceReads, CallReferenceReads

-----------------------------------------------------------------------------
(* Encodings are sequences.                                                 *)

IsSequence(s) == \E S : s \in Seq(S)

(* The concatenation of sequences over whatever sets.                       *)
LEMMA SequencesConcatenate ==
  ASSUME NEW s, IsSequence(s), NEW t, IsSequence(t)
  PROVE  /\ IsSequence(s \o t) /\ Len(s \o t) = Len(s) + Len(t) /\ Len(s) \in Nat /\ Len(t) \in Nat
         /\ \A k \in 1..Len(s) : (s \o t)[k] = s[k]
         /\ \A k \in 1..Len(t) : (s \o t)[Len(s) + k] = t[k]
<1>1. PICK S : s \in Seq(S)
  BY Zenon DEF IsSequence
<1>2. PICK T : t \in Seq(T)
  BY Zenon DEF IsSequence
<1> DEFINE U == S \cup T
<1>3. S \subseteq U /\ T \subseteq U
  OBVIOUS
<1> HIDE DEF U
<1>4. s \in Seq(U) /\ t \in Seq(U)
  BY <1>1, <1>2, <1>3, WiderSeq
<1>5. /\ s \o t \in Seq(U) /\ Len(s \o t) = Len(s) + Len(t) /\ Len(s) \in Nat /\ Len(t) \in Nat
      /\ \A k \in 1..Len(s) : (s \o t)[k] = s[k]
      /\ \A k \in 1..Len(t) : (s \o t)[Len(s) + k] = t[k]
  BY <1>4, Concatenated
<1> QED BY <1>5, Zenon DEF IsSequence

(* None, one or two elements are a sequence.                                *)
LEMMA ShortSequences ==
  IsSequence(<<>>) /\ \A a : IsSequence(<<a>>) /\ Len(<<a>>) = 1 /\ \A b : IsSequence(<<a, b>>)
<1>1. IsSequence(<<>>)
  <2>1. <<>> \in Seq({})
    OBVIOUS
  <2> QED BY <2>1, Zenon DEF IsSequence
<1>2. ASSUME NEW a PROVE IsSequence(<<a>>) /\ Len(<<a>>) = 1
  <2>1. <<a>> \in Seq({a}) /\ Len(<<a>>) = 1
    OBVIOUS
  <2> QED BY <2>1, Zenon DEF IsSequence
<1>3. ASSUME NEW a, NEW b PROVE IsSequence(<<a, b>>)
  <2>1. <<a, b>> \in Seq({a, b})
    OBVIOUS
  <2> QED BY <2>1, Zenon DEF IsSequence
<1> QED BY <1>1, <1>2, <1>3, Zenon

(* A form whose opcode, operand and immediate are what they should be.      *)
IsSoundForm(f) ==
    /\ IsSequence(f.opcode)
    /\ f.rm # None => IsRMOperand(f.rm)
    /\ f.imm # None => IsSequence(f.imm.bytes)

(* What InstrEncoder writes is a sequence and at least as long as the       *)
(* immediate.                                                               *)
LEMMA AssembledIsSequence ==
  ASSUME NEW f, IsSoundForm(f)
  PROVE  IsSequence(Assemble(f)) /\ Len(Assemble(f)) \in Nat /\ Len(Assemble(f)) >= Len(ImmBytes(f))
<1> DEFINE a1 == EncodeOperandSize(f)
           a2 == EncodeREX(f)
           a3 == OpcodeBytes(f)
           a4 == ModRMBytes(f)
           a5 == ImmBytes(f)
<1>1. IsSequence(a1)
  BY ShortSequences, Zenon DEF EncodeOperandSize
<1>2. IsSequence(a2)
  <2>1. a2 = <<>> \/ a2 = <<RexByte(f)>>
    BY RexEncoded
  <2> QED BY <2>1, ShortSequences, Zenon
<1>3. IsSequence(a3)
  <2>1. a3 = f.opcode \/ a3 = <<f.opcode[1] + (f.inOpcode.reg % 8)>>
    BY Zenon DEF OpcodeBytes
  <2> QED BY <2>1, ShortSequences, Zenon DEF IsSoundForm
<1>4. IsSequence(a4)
  <2>1. CASE f.rm = None
    BY <2>1, ShortSequences, Zenon DEF ModRMBytes
  <2>2. CASE f.rm # None
    <3> DEFINE h == <<Fields(EncodeRM(f.rm).mod, Field(f), EncodeRM(f.rm).rm)>>
    <3>1. a4 = h \o EncodeRM(f.rm).sib \o EncodeRM(f.rm).disp
      BY <2>2, Zenon DEF ModRMBytes
    <3>2. EncodeRM(f.rm).sib \in Seq(0..255) /\ EncodeRM(f.rm).disp \in Seq(0..255)
      <4>1. 0 \in Bits3 /\ IsRMOperand(f.rm)
        BY <2>2 DEF Bits3, IsSoundForm
      <4> QED BY <4>1, RMBytesOf
    <3>3. IsSequence(h)
      BY ShortSequences, Zenon
    <3> HIDE DEF h
    <3>4. IsSequence(EncodeRM(f.rm).sib) /\ IsSequence(EncodeRM(f.rm).disp)
      BY <3>2, Zenon DEF IsSequence
    <3>5. IsSequence(h \o EncodeRM(f.rm).sib)
      BY <3>3, <3>4, SequencesConcatenate, Zenon
    <3>6. IsSequence((h \o EncodeRM(f.rm).sib) \o EncodeRM(f.rm).disp)
      BY <3>4, <3>5, SequencesConcatenate, Zenon
    <3> QED BY <3>1, <3>6
  <2> QED BY <2>1, <2>2
<1>5. IsSequence(a5)
  BY ShortSequences, Zenon DEF ImmBytes, IsSoundForm
<1>6. Assemble(f) = a1 \o a2 \o a3 \o a4 \o a5
  BY AssembledParts
<1> HIDE DEF a1, a2, a3, a4, a5
<1> DEFINE s2 == a1 \o a2
           s3 == s2 \o a3
           s4 == s3 \o a4
<1>7. IsSequence(s2)
  BY <1>1, <1>2, SequencesConcatenate, Zenon
<1> HIDE DEF s2
<1>8. IsSequence(s3)
  BY <1>3, <1>7, SequencesConcatenate, Zenon
<1> HIDE DEF s3
<1>9. IsSequence(s4)
  BY <1>4, <1>8, SequencesConcatenate, Zenon
<1> HIDE DEF s4
<1>10. /\ IsSequence(s4 \o a5) /\ Len(s4 \o a5) = Len(s4) + Len(a5)
       /\ Len(s4) \in Nat /\ Len(a5) \in Nat
  BY <1>5, <1>9, SequencesConcatenate
<1>11. Assemble(f) = s4 \o a5
  BY <1>6, Zenon DEF s4, s3, s2
<1>12. Len(s4) + Len(a5) \in Nat /\ Len(s4) + Len(a5) >= Len(a5)
  BY <1>10
<1> QED BY <1>10, <1>11, <1>12 DEF a5

(* Forms of an opcode of one or two bytes with operands that can be built.  *)
LEMMA SoundForm ==
  ASSUME NEW f, \/ \E a : f.opcode = <<a>>
                \/ \E a, b : f.opcode = <<a, b>>,
         f.rm = None \/ IsRMOperand(f.rm),
         f.imm = None \/ IsImmOperand(f.imm) \/ f.imm = Imm(Unlinked)
  PROVE  IsSoundForm(f)
<1>1. IsSequence(f.opcode)
  BY ShortSequences, Zenon
<1>2. f.imm # None => IsSequence(f.imm.bytes)
  <2>1. IsImmOperand(f.imm) => f.imm.bytes \in Seq(0..255)
    BY DEF IsImmOperand, IsOperand, IsImm, IsReg, IsMem
  <2>2. Imm(Unlinked).bytes \in Seq({0})
    BY DEF Imm, Value, Unlinked
  <2>3. IsSequence(Imm(Unlinked).bytes)
    BY <2>2, Zenon DEF IsSequence
  <2>4. IsImmOperand(f.imm) => IsSequence(f.imm.bytes)
    BY <2>1, Zenon DEF IsSequence
  <2> QED BY <2>3, <2>4, Zenon
<1> QED BY <1>1, <1>2, Zenon DEF IsSoundForm

IsEncoded(e) == IsSequence(e) /\ Len(e) \in Nat

(* The encoding of a form is a sequence.                                    *)
LEMMA SoundFormIsEncoded ==
  ASSUME NEW f, IsSoundForm(f)
  PROVE  IsEncoded(Assemble(f))
  BY AssembledIsSequence DEF IsEncoded

(* Binary instructions have an encoding.                                    *)
LEMMA BinaryIsEncoded ==
  ASSUME NEW i, IsInstr(i), i.name \in BinaryNames
  PROVE  IsEncoded(Encode(i))
<1> DEFINE f == EncodeBinary(i)
<1>1. IsRM(i.a) /\ BinaryConstructible(i.a, i.b) /\ Encode(i) = Assemble(f)
  BY InstrOfName, ClassOfName
<1>2. IsImm(i.b) \/ IsRM(i.b)
  BY <1>1 DEF BinaryConstructible
<1>3. /\ IsRMOperand(i.a)
      /\ IsImm(i.b) => IsImmOperand(i.b)
      /\ IsRM(i.b) => IsRMOperand(i.b)
  BY <1>1, OperandOfInstr
<1>4. /\ \E a : f.opcode = <<a>>
      /\ f.rm \in {None, i.a, i.b} /\ (f.rm = i.b => ~IsImm(i.b) \/ i.b = i.a \/ i.b = None)
      /\ f.imm \in {None, i.b} /\ (f.imm = i.b => IsImm(i.b) \/ i.b = None)
  <2>1. CASE UsesRegA(i.a, i.b)
    <3>1. IsImm(i.b)
      BY <2>1 DEF UsesRegA, OpEncoding
    <3>2. f = Form(i.a.size, {i.a, i.b}, Wide(ALBase[i.name] + 4, i.a), None, None, None, i.b)
      BY <2>1, <3>1 DEF EncodeBinary, UsesRegA
    <3> QED BY <3>1, <3>2 DEF Form, Wide
  <2>2. CASE OpEncoding(i.a, i.b) = "RM_IMM" /\ ~UsesRegA(i.a, i.b)
    <3>1. IsImm(i.b)
      BY <2>2 DEF OpEncoding
    <3> QED BY <2>2, <3>1 DEF EncodeBinary, Form, Wide
  <2>3. CASE OpEncoding(i.a, i.b) = "RM_IMM8"
    <3>1. IsImm(i.b)
      BY <2>3 DEF OpEncoding
    <3> QED BY <2>3, <3>1 DEF EncodeBinary, Form, Wide, UsesRegA
  <2>4. CASE OpEncoding(i.a, i.b) \in {"RM_REG", "REG_RM"}
    <3>1. ~IsImm(i.b)
      BY <2>4 DEF OpEncoding
    <3> QED BY <2>4, <3>1 DEF EncodeBinary, Form, Wide, UsesRegA
  <2> QED BY <2>1, <2>2, <2>3, <2>4 DEF OpEncoding
<1> HIDE DEF f
<1>5. f.rm = None \/ IsRMOperand(f.rm)
  BY <1>2, <1>3, <1>4
<1>6. f.imm = None \/ IsImmOperand(f.imm)
  BY <1>3, <1>4
<1>7. IsSoundForm(f)
  BY <1>4, <1>5, <1>6, SoundForm
<1> QED BY <1>1, <1>7, SoundFormIsEncoded

(* Unary instructions have one.                                             *)
LEMMA UnaryIsEncoded ==
  ASSUME NEW i, IsInstr(i), i.name \in UnaryNames, i.b = None
  PROVE  IsEncoded(Encode(i))
<1> DEFINE f == EncodeUnary(i)
<1>1. IsRM(i.a) /\ Encode(i) = Assemble(f)
  BY InstrOfName, ClassOfName
<1>2. IsRMOperand(i.a)
  BY <1>1, OperandOfInstr
<1>3. (\E a : f.opcode = <<a>>) /\ f.rm = i.a /\ f.imm = None
  BY DEF EncodeUnary, Form, Wide
<1> HIDE DEF f
<1>4. IsSoundForm(f)
  BY <1>2, <1>3, SoundForm
<1> QED BY <1>1, <1>4, SoundFormIsEncoded

(* imul has one.                                                            *)
LEMMA ImulIsEncoded ==
  ASSUME NEW i, IsInstr(i), i.name = "imul", i.b # None
  PROVE  IsEncoded(Encode(i))
<1> DEFINE f == EncodeImul(i)
<1>1. /\ IsRM(i.b) /\ Encode(i) = Assemble(f)
      /\ IsImm(i.c) \/ i.c = None
  BY InstrOfName, ClassOfName DEF ImulConstructible
<1>2. IsRMOperand(i.b) /\ (IsImm(i.c) => IsImmOperand(i.c))
  BY <1>1, OperandOfInstr
<1>3. /\ (\E a : f.opcode = <<a>>) \/ (\E a, b : f.opcode = <<a, b>>)
      /\ f.rm = i.b /\ f.imm \in {None, i.c}
  BY DEF EncodeImul, Form
<1> HIDE DEF f
<1>4. IsSoundForm(f)
  BY <1>1, <1>2, <1>3, SoundForm
<1> QED BY <1>1, <1>4, SoundFormIsEncoded

(* The sign extensions have one.                                            *)
LEMMA SignExtendIsEncoded ==
  ASSUME NEW i, IsInstr(i), i.name \in {"sign_extend_a", "sign_extend_ad"}
  PROVE  IsEncoded(Encode(i))
<1> DEFINE f == EncodeSignExtend(i)
<1>1. Encode(i) = Assemble(f)
  BY ClassOfName
<1>2. (\E a : f.opcode = <<a>>) /\ f.rm = None /\ f.imm = None
  BY DEF EncodeSignExtend, Form
<1> HIDE DEF f
<1>3. IsSoundForm(f)
  BY <1>2, SoundForm
<1> QED BY <1>1, <1>3, SoundFormIsEncoded

(* test has one.                                                            *)
LEMMA TestIsEncoded ==
  ASSUME NEW i, IsInstr(i), i.name = "test"
  PROVE  IsEncoded(Encode(i))
<1> DEFINE f == EncodeTest(i)
<1>1. IsRM(i.a) /\ Encode(i) = Assemble(f)
  BY InstrOfName, ClassOfName DEF TestConstructible
<1>2. IsRMOperand(i.a) /\ (IsImm(i.b) => IsImmOperand(i.b))
  BY <1>1, OperandOfInstr
<1>3. /\ \E a : f.opcode = <<a>>
      /\ f.rm \in {None, i.a}
      /\ f.imm = None \/ (f.imm = i.b /\ IsImm(i.b))
  BY DEF EncodeTest, Form, Wide
<1> HIDE DEF f
<1>4. IsSoundForm(f)
  BY <1>2, <1>3, SoundForm
<1> QED BY <1>1, <1>4, SoundFormIsEncoded

(* xchg has one.                                                            *)
LEMMA XchgIsEncoded ==
  ASSUME NEW i, IsInstr(i), i.name = "xchg"
  PROVE  IsEncoded(Encode(i))
<1> DEFINE f == EncodeXchg(i)
<1>1. IsRM(i.a) /\ Encode(i) = Assemble(f)
  BY InstrOfName, ClassOfName
<1>2. IsRMOperand(i.a)
  BY <1>1, OperandOfInstr
<1>3. (\E a : f.opcode = <<a>>) /\ f.rm \in {None, i.a} /\ f.imm = None
  BY DEF EncodeXchg, Form, Wide
<1> HIDE DEF f
<1>4. IsSoundForm(f)
  BY <1>2, <1>3, SoundForm
<1> QED BY <1>1, <1>4, SoundFormIsEncoded

(* push has one.                                                            *)
LEMMA PushIsEncoded ==
  ASSUME NEW i, IsInstr(i), i.name = "push"
  PROVE  IsEncoded(Encode(i))
<1> DEFINE f == EncodePush(i)
<1>1. (IsRM(i.a) \/ IsImm(i.a)) /\ Encode(i) = Assemble(f)
  BY InstrOfName, ClassOfName
<1>2. (IsRM(i.a) => IsRMOperand(i.a)) /\ (IsImm(i.a) => IsImmOperand(i.a))
  BY <1>1, OperandOfInstr
<1>3. /\ \E a : f.opcode = <<a>>
      /\ f.rm = None \/ (f.rm = i.a /\ IsMem(i.a))
      /\ f.imm = None \/ (f.imm = i.a /\ IsImm(i.a))
  BY <1>1 DEF EncodePush, Form, IsRM, IsReg, IsMem, IsImm
<1> HIDE DEF f
<1>4. IsSoundForm(f)
  BY <1>2, <1>3, SoundForm DEF IsRM
<1> QED BY <1>1, <1>4, SoundFormIsEncoded

(* pop has one.                                                             *)
LEMMA PopIsEncoded ==
  ASSUME NEW i, IsInstr(i), i.name = "pop"
  PROVE  IsEncoded(Encode(i))
<1> DEFINE f == EncodePop(i)
<1>1. IsRM(i.a) /\ Encode(i) = Assemble(f)
  BY InstrOfName, ClassOfName
<1>2. IsRMOperand(i.a)
  BY <1>1, OperandOfInstr
<1>3. (\E a : f.opcode = <<a>>) /\ f.rm \in {None, i.a} /\ f.imm = None
  BY DEF EncodePop, Form
<1> HIDE DEF f
<1>4. IsSoundForm(f)
  BY <1>2, <1>3, SoundForm
<1> QED BY <1>1, <1>4, SoundFormIsEncoded

(* setcc has one.                                                           *)
LEMMA SetccIsEncoded ==
  ASSUME NEW i, IsInstr(i), i.name = "setcc"
  PROVE  IsEncoded(Encode(i))
<1> DEFINE f == EncodeSetcc(i)
<1>1. IsRM(i.a) /\ Encode(i) = Assemble(f)
  BY InstrOfName, ClassOfName
<1>2. IsRMOperand(i.a)
  BY <1>1, OperandOfInstr
<1>3. (\E a, b : f.opcode = <<a, b>>) /\ f.rm = i.a /\ f.imm = None
  BY DEF EncodeSetcc, Form
<1> HIDE DEF f
<1>4. IsSoundForm(f)
  BY <1>2, <1>3, SoundForm
<1> QED BY <1>1, <1>4, SoundFormIsEncoded

(* mov has one; that of a function reference has room for the distance.     *)
LEMMA MovIsEncoded ==
  ASSUME NEW i, IsInstr(i), i.name = "mov"
  PROVE  IsEncoded(Encode(i)) /\ (i.b.kind = "func" => Len(Encode(i)) >= 4)
<1> DEFINE f == EncodeMov(i)
<1>1. /\ IsRM(i.a) /\ Encode(i) = Assemble(f)
      /\ IsImm(i.b) \/ i.b.kind = "func" \/ IsRM(i.b)
  <2>1. MovConstructible(i.a, i.b) /\ Encode(i) = Assemble(f)
    BY InstrOfName, ClassOfName
  <2> QED BY <2>1 DEF MovConstructible
<1>2. /\ IsRMOperand(i.a) /\ (IsImm(i.b) => IsImmOperand(i.b))
      /\ IsRM(i.b) => IsRMOperand(i.b)
  BY <1>1, OperandOfInstr
<1>3. /\ \E a : f.opcode = <<a>>
      /\ f.rm = None \/ f.rm = i.a \/ (f.rm = i.b /\ IsRM(i.b))
      /\ \/ f.imm = None /\ i.b.kind # "func"
         \/ f.imm = i.b /\ IsImm(i.b)
         \/ f.imm = Imm(Unlinked)
  <2>1. CASE IsReg(i.b) /\ IsMem(i.a)
    BY <2>1 DEF EncodeMov, Form, Wide, IsReg, IsMem, IsRM
  <2>2. CASE IsRM(i.b) /\ IsReg(i.a)
    BY <2>2 DEF EncodeMov, Form, Wide, IsReg, IsMem, IsRM
  <2>3. CASE ~IsRM(i.b) /\ IsReg(i.a)
    <3>1. EncodeMov(i) = Form(i.b.size, {i.a, i.b}, <<IF i.b.size = 1 THEN 176 ELSE 184>>, i.a, None, None,
                              IF i.b.kind = "func" THEN Imm(Unlinked) ELSE i.b)
      BY <2>3 DEF EncodeMov, Unlinked, IsReg, IsMem, IsRM
    <3> QED BY <1>1, <2>3, <3>1 DEF Form
  <2>4. CASE ~IsRM(i.b) /\ IsMem(i.a)
    <3>1. EncodeMov(i) = Form(i.b.size, {i.a, i.b}, Wide(198, i.b), None, Ext(0), i.a,
                              IF i.b.kind = "func" THEN Imm(Unlinked) ELSE i.b)
      BY <2>4 DEF EncodeMov, Unlinked, IsReg, IsMem, IsRM
    <3> QED BY <1>1, <2>4, <3>1 DEF Form, Wide
  <2>5. ~(IsMem(i.a) /\ IsMem(i.b))
    <3>1. MovConstructible(i.a, i.b)
      BY InstrOfName
    <3> QED BY <3>1 DEF MovConstructible, IsMem, IsImm
  <2> QED BY <1>1, <2>1, <2>2, <2>3, <2>4, <2>5 DEF IsRM
<1> HIDE DEF f
<1>4. IsSoundForm(f)
  BY <1>2, <1>3, SoundForm
<1>5. i.b.kind = "func" => Len(ImmBytes(f)) = 4
  <2>1. i.b.kind = "func" => f.imm = Imm(Unlinked)
    BY <1>3 DEF IsImm
  <2>2. Imm(Unlinked) # None /\ Imm(Unlinked).bytes = Unlinked /\ Len(Unlinked) = 4
    BY DEF Imm, Value, None, Unlinked
  <2> QED BY <2>1, <2>2 DEF ImmBytes
<1> QED BY <1>1, <1>4, <1>5, AssembledIsSequence DEF IsEncoded

(* Control flow instructions have one; those with a reference have room for *)
(* the distance.                                                            *)
LEMMA ControlIsEncoded ==
  ASSUME NEW i, IsInstr(i), i.name \in ControlNames
  PROVE  IsEncoded(Encode(i)) /\ (Ref(i) # None => Len(Encode(i)) >= 4)
<1>1. Encode(i) = EncodeControl(i) /\ i.name \in {"jcc", "jmp", "call", "syscall", "ret"}
  BY ClassOfName DEF ControlNames
<1>2. Ref(i) # None => i.name \in {"jcc", "jmp", "call"} /\ ~IsRM(i.a)
  BY <1>1 DEF Ref
<1>3. CASE i.name \in {"jmp", "call"} /\ IsRM(i.a)
  <2> DEFINE f == EncodeIndirect(i)
  <2>1. Encode(i) = Assemble(f)
    BY <1>1, <1>3 DEF EncodeControl
  <2>2. IsRMOperand(i.a)
    BY <1>3, OperandOfInstr
  <2>3. (\E a : f.opcode = <<a>>) /\ f.rm = i.a /\ f.imm = None
    BY DEF EncodeIndirect, Form
  <2> HIDE DEF f
  <2>4. IsSoundForm(f)
    BY <2>2, <2>3, SoundForm
  <2> QED BY <1>2, <1>3, <2>1, <2>4, SoundFormIsEncoded
<1>4. CASE i.name \in {"syscall", "ret"}
  <2>1. (\E a : Encode(i) = <<a>>) \/ (\E a, b : Encode(i) = <<a, b>>)
    BY <1>1, <1>4 DEF EncodeControl
  <2>2. IsSequence(Encode(i))
    BY <2>1, ShortSequences, Zenon
  <2>3. Len(Encode(i)) \in Nat
    BY <2>2, ShortSequences, SequencesConcatenate
  <2> QED BY <1>2, <1>4, <2>2, <2>3 DEF IsEncoded
<1>5. CASE i.name = "jcc" \/ (i.name \in {"jmp", "call"} /\ ~IsRM(i.a))
  <2>1. (\E a : Encode(i) = <<a>> \o Unlinked) \/ (\E a, b : Encode(i) = <<a, b>> \o Unlinked)
    BY <1>1, <1>5 DEF EncodeControl
  <2>2. IsSequence(Unlinked)
    <3>1. Unlinked \in Seq({0})
      BY DEF Unlinked
    <3> QED BY <3>1, Zenon DEF IsSequence
  <2>3. IsSequence(Encode(i))
    <3>1. \A a, b : IsSequence(<<a>> \o Unlinked) /\ IsSequence(<<a, b>> \o Unlinked)
      BY <2>2, ShortSequences, SequencesConcatenate, Zenon
    <3> QED BY <2>1, <3>1, Zenon
  <2>4. Len(Encode(i)) \in {5, 6}
    <3>1. CASE \E a : Encode(i) = <<a>> \o Unlinked
      <4>1. PICK a : Encode(i) = <<a>> \o Unlinked
        BY <3>1
      <4>2. Len(<<a>> \o Unlinked) = 5
        BY SequenceAndUnlinked
      <4> QED BY <4>1, <4>2
    <3>2. CASE \E a, b : Encode(i) = <<a, b>> \o Unlinked
      <4>1. PICK a, b : Encode(i) = <<a, b>> \o Unlinked
        BY <3>2
      <4>2. Len(<<a, b>> \o Unlinked) = 6
        BY SequenceAndUnlinked
      <4> QED BY <4>1, <4>2
    <3> QED BY <2>1, <3>1, <3>2
  <2> QED BY <2>3, <2>4 DEF IsEncoded
<1> QED BY <1>1, <1>3, <1>4, <1>5

(* What an instruction encodes to, whichever it is.                         *)
LEMMA Encoded ==
  ASSUME NEW i, IsInstr(i)
  PROVE  IsSequence(Encode(i)) /\ Len(Encode(i)) \in Nat /\ (Ref(i) # None => Len(Encode(i)) >= 4)
<1>1. Ref(i) # None => i.name \in ControlNames \/ (i.name = "mov" /\ i.b.kind = "func")
  BY DEF Ref, ControlNames
<1>2. IsEncoded(Encode(i))
  BY NameOfInstr, BinaryIsEncoded, UnaryIsEncoded, ImulIsEncoded, SignExtendIsEncoded, TestIsEncoded,
     MovIsEncoded, XchgIsEncoded, PushIsEncoded, PopIsEncoded, SetccIsEncoded, ControlIsEncoded
<1>3. Ref(i) # None => Len(Encode(i)) >= 4
  BY <1>1, MovIsEncoded, ControlIsEncoded
<1> QED BY <1>2, <1>3 DEF IsEncoded

(* A set of numbers has a least element.                                    *)
LEMMA LeastOf ==
  ASSUME NEW T \in SUBSET Nat, T # {}
  PROVE  \E x \in T : \A y \in T : x <= y
<1>1. IsWellFoundedOn(OpToRel(<, Nat), Nat)
  BY NatLessThanWellFounded
<1>2. PICK x \in T : \A y \in T : ~(<<y, x>> \in OpToRel(<, Nat))
  BY <1>1, WFMin, Zenon
<1>3. ASSUME NEW y \in T PROVE x <= y
  <2>1. SUFFICES ASSUME y < x PROVE FALSE
    OBVIOUS
  <2>2. <<y, x>> \in OpToRel(<, Nat)
    BY <2>1 DEF OpToRel
  <2> QED
    BY <1>2, <2>2
<1> QED
  BY <1>3, Zenon

(* The sequences of seqs up to the i-th, one after the other.               *)
Flat(seqs, n) == CHOOSE f : f = [i \in 1..n |-> IF i = 1 THEN seqs[i] ELSE f[i - 1] \o seqs[i]]
IsFlat(seqs, n, f) == f = [i \in 1..n |-> IF i = 1 THEN seqs[i] ELSE f[i - 1] \o seqs[i]]

(* The sequences can be put together one after the other: were there a      *)
(* first that could not, the one before could not.                          *)
LEMMA FlatExists ==
  ASSUME NEW seqs, NEW n \in Nat
  PROVE  \E f : IsFlat(seqs, n, f)
<1> DEFINE Bad == {m \in Nat : ~\E f : IsFlat(seqs, m, f)}
<1>1. SUFFICES ASSUME Bad # {} PROVE FALSE
  OBVIOUS
<1>2. PICK m \in Bad : \A k \in Bad : m <= k
  <2>1. Bad \in SUBSET Nat
    OBVIOUS
  <2> HIDE DEF Bad
  <2> QED BY <1>1, <2>1, LeastOf, Zenon
<1>3. m # 0
  <2>1. IsFlat(seqs, 0, [i \in {} |-> 0])
    BY DEF IsFlat
  <2> QED BY <2>1
<1>4. m - 1 \in Nat /\ m \in Nat
  BY <1>3
<1>5. PICK f : IsFlat(seqs, m - 1, f)
  <2>1. m - 1 \notin Bad
    <3>1. m \in Nat /\ ~(m <= m - 1)
      BY <1>4
    <3> HIDE DEF Bad
    <3> QED BY <1>2, <3>1
  <2> QED BY <1>4, <2>1
<1> DEFINE last == IF m = 1 THEN seqs[m] ELSE f[m - 1] \o seqs[m]
           g == [i \in 1..m |-> IF i = m THEN last ELSE f[i]]
<1>6. ASSUME NEW i \in 1..m PROVE g[i] = IF i = 1 THEN seqs[i] ELSE g[i - 1] \o seqs[i]
  <2>1. CASE i = m
    <3>1. g[i] = last
      BY <2>1
    <3>2. i # 1 => g[i - 1] = f[i - 1]
      BY <1>4, <2>1
    <3> QED BY <2>1, <3>1, <3>2
  <2>2. CASE i # m
    <3>1. i \in 1..(m - 1) /\ g[i] = f[i] /\ (i # 1 => g[i - 1] = f[i - 1])
      BY <1>4, <2>2
    <3>2. f[i] = IF i = 1 THEN seqs[i] ELSE f[i - 1] \o seqs[i]
      BY <1>5, <3>1 DEF IsFlat
    <3> QED BY <3>1, <3>2
  <2> QED BY <2>1, <2>2
<1>7. g = [i \in 1..m |-> g[i]]
  OBVIOUS
<1> HIDE DEF g
<1>8. IsFlat(seqs, m, g)
  BY <1>6, <1>7 DEF IsFlat
<1> QED BY <1>8

(* So Flat is what its definition says.                                     *)
LEMMA FlatIs ==
  ASSUME NEW seqs, NEW n \in Nat
  PROVE  IsFlat(seqs, n, Flat(seqs, n))
<1>1. \E f : f = [i \in 1..n |-> IF i = 1 THEN seqs[i] ELSE f[i - 1] \o seqs[i]]
  BY FlatExists DEF IsFlat
<1>2. Flat(seqs, n) = [i \in 1..n |-> IF i = 1 THEN seqs[i] ELSE Flat(seqs, n)[i - 1] \o seqs[i]]
  BY <1>1 DEF Flat
<1> QED BY <1>2 DEF IsFlat

(* The elements stay in their set.                                          *)
LEMMA FlatInSeq ==
  ASSUME NEW S, NEW seqs \in Seq(Seq(S)), NEW f, IsFlat(seqs, Len(seqs), f), NEW n \in 1..Len(seqs)
  PROVE  f[n] \in Seq(S)
<1> DEFINE Bad == {m \in Nat : m \in 1..Len(seqs) /\ f[m] \notin Seq(S)}
<1>1. SUFFICES ASSUME Bad # {} PROVE FALSE
  <2>1. n \in Nat
    OBVIOUS
  <2> QED BY <2>1
<1>2. PICK m \in Bad : \A k \in Bad : m <= k
  <2>1. Bad \in SUBSET Nat
    OBVIOUS
  <2> HIDE DEF Bad
  <2> QED BY <1>1, <2>1, LeastOf, Zenon
<1>3. m \in 1..Len(seqs) /\ m \in Nat
  OBVIOUS
<1>4. f[m] = IF m = 1 THEN seqs[m] ELSE f[m - 1] \o seqs[m]
  BY <1>3 DEF IsFlat
<1>5. seqs[m] \in Seq(S)
  BY <1>3
<1>6. m # 1
  BY <1>4, <1>5
<1>7. m - 1 \in Nat /\ m - 1 \in 1..Len(seqs) /\ ~(m <= m - 1)
  BY <1>3, <1>6
<1>8. f[m - 1] \in Seq(S)
  BY <1>2, <1>7
<1>9. f[m - 1] \o seqs[m] \in Seq(S)
  <2> DEFINE s == f[m - 1]
             t == seqs[m]
  <2>1. s \in Seq(S) /\ t \in Seq(S)
    BY <1>5, <1>8
  <2> HIDE DEF s, t
  <2>2. s \o t \in Seq(S)
    BY <2>1
  <2> QED BY <2>2 DEF s, t
<1> QED BY <1>4, <1>6, <1>9

(* FlattenSeq of the community modules puts them together in this way.      *)
LEMMA FlattenSeqIs ==
  ASSUME NEW seqs, Len(seqs) # 0
  PROVE  FlattenSeq(seqs) = Flat(seqs, Len(seqs))[Len(seqs)]
  BY DEF FlattenSeq, Flat

(* What FlattenSeq gives is a sequence over the same set.                   *)
LEMMA FlattenSeqInSeq ==
  ASSUME NEW S, NEW seqs \in Seq(Seq(S))
  PROVE  FlattenSeq(seqs) \in Seq(S)
<1>1. CASE Len(seqs) = 0
  <2>1. FlattenSeq(seqs) = seqs
    BY <1>1 DEF FlattenSeq
  <2>2. seqs = <<>>
    BY <1>1
  <2> QED BY <2>1, <2>2
<1>2. CASE Len(seqs) # 0
  <2> DEFINE f == Flat(seqs, Len(seqs))
             n == Len(seqs)
  <2>1. n \in Nat /\ n \in 1..n
    BY <1>2
  <2>2. IsFlat(seqs, n, f)
    BY <2>1, FlatIs
  <2>3. FlattenSeq(seqs) = f[n]
    BY <1>2, FlattenSeqIs
  <2> HIDE DEF f
  <2>4. f[n] \in Seq(S)
    BY <2>1, <2>2, FlatInSeq
  <2> QED BY <2>3, <2>4
<1> QED BY <1>1, <1>2

StepBytes(s) == IF s.does = "instr" THEN Len(Encode(s.instr)) ELSE 0
IsCount(steps, n, f) == f = [k \in 0..n |-> IF k = 0 THEN 0 ELSE f[k - 1] + StepBytes(steps[k])]

(* Bytes can be counted step by step.                                       *)
LEMMA CountExists ==
  ASSUME NEW steps, NEW n \in Nat
  PROVE  \E f : IsCount(steps, n, f)
<1> DEFINE Bad == {m \in Nat : ~\E f : IsCount(steps, m, f)}
<1>1. SUFFICES ASSUME Bad # {} PROVE FALSE
  OBVIOUS
<1>2. PICK m \in Bad : \A k \in Bad : m <= k
  <2>1. Bad \in SUBSET Nat
    OBVIOUS
  <2> HIDE DEF Bad
  <2> QED BY <1>1, <2>1, LeastOf, Zenon
<1>3. m # 0
  <2>1. IsCount(steps, 0, [k \in 0..0 |-> 0])
    BY DEF IsCount
  <2> QED BY <2>1
<1>4. m - 1 \in Nat /\ m \in Nat
  BY <1>3
<1>5. PICK f : IsCount(steps, m - 1, f)
  <2>1. m - 1 \notin Bad
    <3>1. m \in Nat /\ ~(m <= m - 1)
      BY <1>4
    <3> HIDE DEF Bad
    <3> QED BY <1>2, <3>1
  <2> QED BY <1>4, <2>1
<1> DEFINE last == f[m - 1] + StepBytes(steps[m])
           g == [k \in 0..m |-> IF k = m THEN last ELSE f[k]]
<1>6. ASSUME NEW k \in 0..m PROVE g[k] = IF k = 0 THEN 0 ELSE g[k - 1] + StepBytes(steps[k])
  <2>1. CASE k = m
    <3>1. g[k] = last /\ k # 0
      BY <1>3, <2>1
    <3>2. g[k - 1] = f[k - 1]
      BY <1>4, <2>1
    <3> QED BY <2>1, <3>1, <3>2
  <2>2. CASE k # m
    <3>1. k \in 0..(m - 1) /\ g[k] = f[k] /\ (k # 0 => g[k - 1] = f[k - 1])
      BY <1>4, <2>2
    <3>2. f[k] = IF k = 0 THEN 0 ELSE f[k - 1] + StepBytes(steps[k])
      BY <1>5, <3>1 DEF IsCount
    <3> QED BY <3>1, <3>2
  <2> QED BY <2>1, <2>2
<1>7. g = [k \in 0..m |-> g[k]]
  OBVIOUS
<1> HIDE DEF g
<1>8. IsCount(steps, m, g)
  BY <1>6, <1>7 DEF IsCount
<1> QED BY <1>8

(* BytesUpTo does so.                                                       *)
LEMMA BytesAreCounted ==
  ASSUME NEW steps, Len(steps) \in Nat
  PROVE  IsCount(steps, Len(steps), BytesUpTo(steps))
<1>1. \E f : f = [k \in 0..Len(steps) |-> IF k = 0 THEN 0 ELSE f[k - 1] + StepBytes(steps[k])]
  BY CountExists DEF IsCount
<1>2. BytesUpTo(steps) = CHOOSE f : f = [k \in 0..Len(steps) |-> IF k =
              0 THEN 0 ELSE f[k - 1] + StepBytes(steps[k])]
  BY DEF BytesUpTo, StepBytes
<1> QED BY <1>1, <1>2 DEF IsCount

(* The bytes of one step more.                                              *)
LEMMA BytesUnfold ==
  ASSUME NEW steps, Len(steps) \in Nat
  PROVE  /\ BytesUpTo(steps)[0] = 0
         /\ \A n \in 1..Len(steps) : BytesUpTo(steps)[n] = BytesUpTo(steps)[n - 1] + StepBytes(steps[n])
<1> DEFINE f == BytesUpTo(steps)
<1>1. IsCount(steps, Len(steps), f)
  BY BytesAreCounted
<1> HIDE DEF f
<1>2. f[0] = 0 /\ \A n \in 1..Len(steps) : f[n] = f[n - 1] + StepBytes(steps[n])
  BY <1>1 DEF IsCount
<1> QED BY <1>2 DEF f

(* More steps never have fewer bytes.                                       *)
LEMMA BytesGrow ==
  ASSUME NEW steps, Len(steps) \in Nat, \A k \in 1..Len(steps) : StepBytes(steps[k]) \in Nat,
         NEW m \in 0..Len(steps)
  PROVE  /\ BytesUpTo(steps)[m] \in Nat
         /\ \A n \in m..Len(steps) : BytesUpTo(steps)[m] <= BytesUpTo(steps)[n]
<1> DEFINE f == BytesUpTo(steps)
<1>1. f[0] = 0 /\ \A n \in 1..Len(steps) : f[n] = f[n - 1] + StepBytes(steps[n])
  BY BytesUnfold
<1> HIDE DEF f
<1>2. \A n \in 0..Len(steps) : f[n] \in Nat
  <2> DEFINE Bad == {n \in Nat : n \in 0..Len(steps) /\ f[n] \notin Nat}
  <2>1. SUFFICES ASSUME Bad # {} PROVE FALSE
    OBVIOUS
  <2>2. PICK x \in Bad : \A y \in Bad : x <= y
    <3>1. Bad \in SUBSET Nat
      OBVIOUS
    <3> HIDE DEF Bad
    <3> QED BY <2>1, <3>1, LeastOf, Zenon
  <2>3. x # 0 /\ x \in 1..Len(steps) /\ x \in Nat
    BY <1>1
  <2>4. x - 1 \in Nat /\ x - 1 \in 0..Len(steps) /\ ~(x <= x - 1)
    BY <2>3
  <2>5. f[x - 1] \in Nat
    BY <2>2, <2>4
  <2>6. f[x] \in Nat
    BY <1>1, <2>3, <2>5
  <2> QED BY <2>6
<1>3. \A n \in m..Len(steps) : f[m] <= f[n]
  <2> DEFINE Bad == {n \in Nat : n \in m..Len(steps) /\ ~(f[m] <= f[n])}
  <2>1. SUFFICES ASSUME Bad # {} PROVE FALSE
    OBVIOUS
  <2>2. PICK x \in Bad : \A y \in Bad : x <= y
    <3>1. Bad \in SUBSET Nat
      OBVIOUS
    <3> HIDE DEF Bad
    <3> QED BY <2>1, <3>1, LeastOf, Zenon
  <2>3. f[m] <= f[m]
    BY <1>2
  <2>4. x # m /\ x \in 1..Len(steps) /\ x \in Nat /\ x \in m..Len(steps)
    BY <2>3
  <2>5. x - 1 \in Nat /\ x - 1 \in m..Len(steps) /\ ~(x <= x - 1)
    BY <2>4
  <2>6. f[m] <= f[x - 1]
    BY <2>2, <2>5
  <2>7. f[m] <= f[x]
    <3>1. f[m] \in Nat /\ f[x - 1] \in Nat /\ f[x] \in Nat /\ StepBytes(steps[x]) \in Nat
      BY <1>2, <2>4, <2>5
    <3> QED BY <1>1, <2>4, <2>6, <3>1
  <2> QED BY <2>7
<1> QED BY <1>2, <1>3 DEF f

-----------------------------------------------------------------------------
(* The steps of a program.                                                  *)

Nums(p) == {FuncNum(p, f) : f \in DOMAIN p.funcs}
             \cup UNION {{BlockNum(p, f, b) : b \in DOMAIN p.funcs[f]} : f \in DOMAIN p.funcs}
LayoutSteps(p) == {[does |-> d, num |-> n] : d \in {"func", "block"}, n \in Nums(p)}
InstrSteps == {[does |-> "instr", instr |-> x] : x \in Instrs}
StepSet(p) == LayoutSteps(p) \cup InstrSteps

(* A function or a block is a step.                                         *)
LEMMA LayoutStepIn ==
  ASSUME NEW p, NEW d \in {"func", "block"}, NEW n \in Nums(p)
  PROVE  [does |-> d, num |-> n] \in StepSet(p)
  BY DEF StepSet, LayoutSteps

(* The numbers of functions and blocks.                                     *)
LEMMA NumsAre ==
  ASSUME NEW p, NEW f \in DOMAIN p.funcs
  PROVE  FuncNum(p, f) \in Nums(p) /\ \A b \in DOMAIN p.funcs[f] : BlockNum(p, f, b) \in Nums(p)
<1>1. FuncNum(p, f) \in Nums(p)
  BY DEF Nums
<1>2. ASSUME NEW b \in DOMAIN p.funcs[f] PROVE BlockNum(p, f, b) \in Nums(p)
  <2> DEFINE B(g) == {BlockNum(p, g, x) : x \in DOMAIN p.funcs[g]}
  <2>1. BlockNum(p, f, b) \in B(f)
    OBVIOUS
  <2>2. Nums(p) = {FuncNum(p, g) : g \in DOMAIN p.funcs} \cup UNION {B(g) : g \in DOMAIN p.funcs}
    BY DEF Nums
  <2> HIDE DEF B
  <2> QED BY <2>1, <2>2
<1> QED BY <1>1, <1>2

(* A function on 1..n is a sequence.                                        *)
LEMMA SeqOfFunction ==
  ASSUME NEW S, NEW n \in Nat, NEW g \in [1..n -> S]
  PROVE  g \in Seq(S)
  OBVIOUS

(* The calls of Encode() of a program are functions, blocks and its         *)
(* instructions.                                                            *)
LEMMA StepsAreSteps ==
  ASSUME NEW p, p.funcs \in Seq(Seq(Seq(Instrs)))
  PROVE  Steps(p) \in Seq(StepSet(p))
<1> DEFINE S == StepSet(p)
           instrs(f, b) == [k \in DOMAIN p.funcs[f][b] |-> [does |-> "instr", instr |-> p.funcs[f][b][k]]]
           block(f, b) == <<[does |-> "block", num |-> BlockNum(p, f, b)]>> \o instrs(f, b)
           blocks(f) == [b \in DOMAIN p.funcs[f] |-> block(f, b)]
           func(f) == <<[does |-> "func", num |-> FuncNum(p, f)]>> \o FlattenSeq(blocks(f))
           funcs == [f \in DOMAIN p.funcs |-> func(f)]
<1>1. Steps(p) = FlattenSeq(funcs)
  BY DEF Steps
<1>2. ASSUME NEW f \in DOMAIN p.funcs, NEW b \in DOMAIN p.funcs[f]
      PROVE  block(f, b) \in Seq(S)
  <2> DEFINE q == p.funcs[f][b]
  <2>1. p.funcs[f] \in Seq(Seq(Instrs))
    OBVIOUS
  <2>2. q \in Seq(Instrs)
    BY <2>1
  <2>3. DOMAIN q = 1..Len(q) /\ Len(q) \in Nat /\ \A k \in 1..Len(q) : q[k] \in Instrs
    BY <2>2
  <2>4. instrs(f, b) = [k \in 1..Len(q) |-> [does |-> "instr", instr |-> q[k]]]
    BY <2>3
  <2>5. \A k \in 1..Len(q) : [does |-> "instr", instr |-> q[k]] \in S
    BY <2>3 DEF StepSet, InstrSteps
  <2> HIDE DEF S, q
  <2>6. instrs(f, b) \in Seq(S)
    <3>1. instrs(f, b) \in [1..Len(q) -> S]
      BY <2>4, <2>5, Zenon
    <3> QED BY <2>3, <3>1, SeqOfFunction
  <2>7. [does |-> "block", num |-> BlockNum(p, f, b)] \in S
    BY NumsAre, LayoutStepIn DEF S
  <2> HIDE DEF instrs
  <2>8. <<[does |-> "block", num |-> BlockNum(p, f, b)]>> \in Seq(S)
    BY <2>7
  <2> QED BY <2>6, <2>8, Concatenated, Zenon
<1>3. ASSUME NEW f \in DOMAIN p.funcs
      PROVE  func(f) \in Seq(S)
  <2> DEFINE q == p.funcs[f]
  <2>1. q \in Seq(Seq(Instrs))
    OBVIOUS
  <2>2. DOMAIN q = 1..Len(q) /\ Len(q) \in Nat
    BY <2>1
  <2>3. \A b \in DOMAIN q : block(f, b) \in Seq(S)
    BY <1>2
  <2> HIDE DEF S, block
  <2>4. blocks(f) = [b \in 1..Len(q) |-> block(f, b)]
    BY <2>2
  <2> HIDE DEF q, blocks
  <2>5. blocks(f) \in Seq(Seq(S))
    <3>1. blocks(f) \in [1..Len(q) -> Seq(S)]
      BY <2>2, <2>3, <2>4, Zenon
    <3> QED BY <2>2, <3>1, SeqOfFunction
  <2>6. FlattenSeq(blocks(f)) \in Seq(S)
    BY <2>5, FlattenSeqInSeq
  <2>7. [does |-> "func", num |-> FuncNum(p, f)] \in S
    BY NumsAre, LayoutStepIn DEF S
  <2>8. <<[does |-> "func", num |-> FuncNum(p, f)]>> \in Seq(S)
    BY <2>7
  <2> QED BY <2>6, <2>8, Concatenated, Zenon
<1>4. DOMAIN p.funcs = 1..Len(p.funcs) /\ Len(p.funcs) \in Nat
  OBVIOUS
<1> HIDE DEF S, func
<1>5. funcs \in Seq(Seq(S))
  BY <1>3, <1>4
<1> HIDE DEF funcs
<1>6. FlattenSeq(funcs) \in Seq(S)
  BY <1>5, FlattenSeqInSeq
<1> QED BY <1>1, <1>6 DEF S

-----------------------------------------------------------------------------
(* The invariant.                                                           *)

Done == Len(Steps(program)) - Len(todo)
EndOf(s) == s.at + Len(Encode(s.instr))
HasRef(s) == Ref(s.instr) # None
PatchOf(s) == [ref |-> Ref(s.instr), at |-> EndOf(s) - 4]
PatchSet == {[ref |-> Ref(i), at |-> n] : i \in Instrs, n \in Int}
Near(v) == v \in Int /\ \A at \in 1..Capacity : v - (at + 4) \in Int32

TodoInv ==
    /\ Len(todo) <= Len(Steps(program))
    /\ \A k \in 1..Len(todo) : todo[k] = Steps(program)[Done + k]
    /\ Len(code) = BytesUpTo(Steps(program))[Done]
    /\ stage = "linked" => todo = <<>> /\ patches = <<>>
    /\ stage = "failed" => todo # <<>> /\ ~Fits(Head(todo))

(* What has been passed has an address, near to the whole memory.           *)
AddressInv ==
    /\ \A n \in 1..Done : /\ Steps(program)[n].does = "func" => Steps(program)[n].num \in DOMAIN funcAddrs
                          /\ Steps(program)[n].does = "block" => Steps(program)[n].num \in DOMAIN blockAddrs
    /\ 0..Declared(program) - 1 \subseteq DOMAIN funcAddrs
    /\ \A n \in DOMAIN funcAddrs : Near(funcAddrs[n])
    /\ \A n \in DOMAIN blockAddrs : Near(blockAddrs[n])

(* The instructions lie one after the other.                                *)
StartsInv ==
    /\ \A k \in 1..Len(starts) : EndOf(starts[k]) = IF k = Len(starts) THEN Here ELSE starts[k + 1].at
    /\ \A k \in 1..Len(starts) : EndOf(starts[k]) <= Here
    /\ \A j \in 1..Len(starts), k \in 1..Len(starts) : j < k => EndOf(starts[j]) <= starts[k].at
    /\ \A k \in 1..Len(starts) :
          \E n \in 1..Done : Steps(program)[n].does = "instr" /\ Steps(program)[n].instr = starts[k].instr

(* Their bytes are in the code, but for the four of a reference.            *)
BytesInv ==
    \A k \in 1..Len(starts) : \A j \in 1..Len(Encode(starts[k].instr)) :
        ~HasRef(starts[k]) \/ j <= Len(Encode(starts[k].instr)) - 4 =>
            code[starts[k].at + j - 1] = Encode(starts[k].instr)[j]

(* These wait for the linker or hold the distance.                          *)
IsPatched(s) == \A m \in 1..4 : code[EndOf(s) - 5 + m] = PatchBytes(PatchOf(s))[m]
RefsInv ==
    /\ \A k \in 1..Len(starts) : HasRef(starts[k]) =>
          \/ \E n \in 1..Len(patches) : patches[n] = PatchOf(starts[k])
          \/ todo = <<>> /\ IsPatched(starts[k])
    /\ \A n \in 1..Len(patches) :
          \E k \in 1..Len(starts) : HasRef(starts[k]) /\ patches[n] = PatchOf(starts[k])

StartSet == [at : Nat \ {0}, instr : Instrs]
TypeInv ==
    /\ program \in Programs
    /\ stage \in {"encode", "failed", "linked"}
    /\ IsSequence(code) /\ Len(code) \in Nat /\ Len(code) <= Capacity
    /\ todo \in Seq(StepSet(program))
    /\ starts \in Seq(StartSet)
    /\ patches \in Seq(PatchSet)

MachineCodeInv == TypeInv /\ TodoInv /\ AddressInv /\ StartsInv /\ BytesInv /\ RefsInv

(* What a step is and how many bytes it has.                                *)
LEMMA StepIs ==
  ASSUME NEW p, NEW s \in StepSet(p)
  PROVE  /\ s.does \in {"func", "block", "instr"}
         /\ s.does = "instr" => s.instr \in Instrs
         /\ StepBytes(s) \in Nat
<1>1. s.does \in {"func", "block", "instr"} /\ (s.does = "instr" => s.instr \in Instrs)
  <2>1. CASE s \in LayoutSteps(p)
    BY <2>1 DEF LayoutSteps
  <2>2. CASE s \in InstrSteps
    BY <2>2 DEF InstrSteps
  <2> QED BY <2>1, <2>2 DEF StepSet
<1>2. s.does = "instr" => Len(Encode(s.instr)) \in Nat
  BY <1>1, MachineCodeAssumption, Encoded
<1> QED BY <1>1, <1>2 DEF StepBytes

(* The steps of a program are steps.                                        *)
LEMMA StepsOfProgram ==
  ASSUME NEW p \in Programs
  PROVE  /\ Steps(p) \in Seq(StepSet(p)) /\ Len(Steps(p)) \in Nat
         /\ \A k \in 1..Len(Steps(p)) : Steps(p)[k] \in StepSet(p) /\ StepBytes(Steps(p)[k]) \in Nat
<1> DEFINE q == Steps(p)
           S == StepSet(p)
<1>1. q \in Seq(S)
  <2>1. p.funcs \in Seq(Seq(Seq(Instrs)))
    BY MachineCodeAssumption DEF IsProgram
  <2> QED BY <2>1, StepsAreSteps
<1> HIDE DEF q, S
<1>2. Len(q) \in Nat /\ \A k \in 1..Len(q) : q[k] \in S
  BY <1>1
<1> QED BY <1>1, <1>2, StepIs DEF q, S

(* A function on 1..n is a sequence of length n.                            *)
LEMMA FunctionIsSequence ==
  ASSUME NEW n \in Nat, NEW g, g = [k \in 1..n |-> g[k]]
  PROVE  IsSequence(g) /\ Len(g) = n
<1> DEFINE S == {g[k] : k \in 1..n}
<1>1. g \in [1..n -> S]
  OBVIOUS
<1> HIDE DEF S
<1>2. g \in Seq(S) /\ Len(g) = n
  BY <1>1
<1> QED BY <1>2, Zenon DEF IsSequence

(* The domain of a sequence.                                                *)
LEMMA SequenceDomain ==
  ASSUME NEW s, IsSequence(s)
  PROVE  DOMAIN s = 1..Len(s) /\ Len(s) \in Nat
<1>1. PICK S : s \in Seq(S)
  BY Zenon DEF IsSequence
<1> QED BY <1>1

(* The assumption on the memory.                                            *)
LEMMA CapacityIs == Capacity \in Nat /\ Capacity >= 1 /\ Capacity + 4 \in Int32
<1>1. Capacity \in Nat \ {0} /\ Capacity + 4 \in Int32
  BY MachineCodeAssumption
<1> QED BY <1>1

(* An address in the memory is near to all of it.                           *)
LEMMA HereIsNear ==
  ASSUME NEW v \in 1..Capacity + 1
  PROVE  Near(v)
<1>1. v \in Int /\ \A at \in 1..Capacity : v - (at + 4) \in Int32
  BY CapacityIs, SMT DEF Int32
<1> QED BY <1>1 DEF Near

(* The facts of a state that the steps below need.                          *)
LEMMA StateFacts ==
  ASSUME TypeInv, TodoInv
  PROVE  /\ Done \in Nat /\ Done + Len(todo) = Len(Steps(program)) /\ Len(todo) \in Nat
         /\ Len(starts) \in Nat /\ Len(patches) \in Nat /\ Here = Len(code) + 1
         /\ \A k \in 1..Len(starts) : /\ starts[k].at \in Nat \ {0} /\ starts[k].instr \in Instrs
                                      /\ IsInstr(starts[k].instr)
                                      /\ IsSequence(Encode(starts[k].instr))
                                      /\ Len(Encode(starts[k].instr)) \in Nat
                                      /\ HasRef(starts[k]) => Len(Encode(starts[k].instr)) >= 4
<1>1. Len(Steps(program)) \in Nat /\ Len(todo) \in Nat /\ Len(todo) <= Len(Steps(program))
  BY StepsOfProgram DEF TypeInv, TodoInv
<1>2. Len(starts) \in Nat /\ Len(patches) \in Nat /\ \A k \in 1..Len(starts) : starts[k] \in StartSet
  BY DEF TypeInv
<1>3. \A k \in 1..Len(starts) : starts[k].at \in Nat \ {0} /\ starts[k].instr \in Instrs
  BY <1>2 DEF StartSet
<1>4. \A k \in 1..Len(starts) : IsInstr(starts[k].instr)
  BY <1>3, MachineCodeAssumption
<1>5. \A k \in 1..Len(starts) : /\ IsSequence(Encode(starts[k].instr))
                                /\ Len(Encode(starts[k].instr)) \in Nat
                                /\ HasRef(starts[k]) => Len(Encode(starts[k].instr)) >= 4
  BY <1>4, Encoded DEF HasRef
<1> HIDE DEF TypeInv, TodoInv
<1>6. Done \in Nat /\ Done + Len(todo) = Len(Steps(program))
  BY <1>1 DEF Done
<1> QED BY <1>1, <1>2, <1>3, <1>4, <1>5, <1>6 DEF Here

-----------------------------------------------------------------------------
(* The initial state.                                                       *)

(* Declared functions are near to the memory.                               *)
LEMMA InitialFuncAddrs ==
  ASSUME NEW p \in Programs, NEW n \in 0..Declared(p) - 1
  PROVE  Near(p.declared[n + 1])
<1>1. p.declared \in Seq(Int) /\ \A k \in DOMAIN p.declared,
              at \in 1..Capacity : p.declared[k] - (at + 4) \in Int32
  BY MachineCodeAssumption DEF IsProgram
<1>2. n + 1 \in DOMAIN p.declared /\ p.declared[n + 1] \in Int
  BY <1>1 DEF Declared
<1> QED BY <1>1, <1>2 DEF Near

(* The invariant holds when the encoding begins.                            *)
LEMMA InitInv == Init => MachineCodeInv
<1> SUFFICES ASSUME Init PROVE MachineCodeInv
  OBVIOUS
<1>1. /\ program \in Programs /\ todo = Steps(program) /\ code = <<>> /\ patches = <<>> /\ starts = <<>>
      /\ blockAddrs = <<>> /\ stage = "encode"
      /\ funcAddrs = [n \in 0..Declared(program) - 1 |-> program.declared[n + 1]]
  BY DEF Init
<1>2. Steps(program) \in Seq(StepSet(program)) /\ Len(Steps(program)) \in Nat
  BY <1>1, StepsOfProgram
<1>3. Done = 0
  BY <1>1, <1>2 DEF Done
<1>4. TypeInv
  <2>1. IsSequence(<<>>) /\ Len(<<>>) = 0 /\ 0 \in Nat /\ 0 <= Capacity
    BY ShortSequences, CapacityIs
  <2> QED BY <1>1, <1>2, <2>1 DEF TypeInv
<1>5. TodoInv
  <2>1. BytesUpTo(Steps(program))[0] = 0
    BY <1>2, BytesUnfold
  <2>2. \A k \in 1..Len(todo) : todo[k] = Steps(program)[Done + k]
    BY <1>1, <1>2, <1>3
  <2>3. Len(code) = 0 /\ Len(todo) <= Len(Steps(program))
    BY <1>1, <1>2
  <2> QED BY <1>1, <1>3, <2>1, <2>2, <2>3 DEF TodoInv
<1>6. AddressInv
  <2>1. \A n \in DOMAIN funcAddrs : Near(funcAddrs[n])
    BY <1>1, InitialFuncAddrs
  <2>2. DOMAIN funcAddrs = 0..Declared(program) - 1 /\ DOMAIN blockAddrs = {}
    BY <1>1
  <2> QED BY <1>3, <2>1, <2>2 DEF AddressInv
<1>7. Len(starts) = 0 /\ Len(patches) = 0
  BY <1>1
<1>8. StartsInv
  BY <1>7 DEF StartsInv
<1>9. BytesInv
  BY <1>7 DEF BytesInv
<1>10. RefsInv
  BY <1>7 DEF RefsInv
<1> QED BY <1>4, <1>5, <1>6, <1>8, <1>9, <1>10 DEF MachineCodeInv

-----------------------------------------------------------------------------
(* Layout steps.                                                            *)

-----------------------------------------------------------------------------
(* Functions and blocks.                                                    *)

(* Before the linker runs, every reference waits for it.                    *)
LEMMA Pending ==
  ASSUME TypeInv, RefsInv, todo # <<>>, NEW k \in 1..Len(starts), HasRef(starts[k])
  PROVE  \E n \in 1..Len(patches) : patches[n] = PatchOf(starts[k])
  BY DEF RefsInv

(* What a step taken from todo changes.                                     *)
LEMMA Passed ==
  ASSUME TypeInv, TodoInv, todo # <<>>, todo' = Tail(todo), program' = program
  PROVE  /\ Done' = Done + 1 /\ Done \in Nat /\ Done + 1 \in 1..Len(Steps(program))
         /\ Head(todo) = Steps(program)[Done + 1] /\ Head(todo) \in StepSet(program)
         /\ todo' \in Seq(StepSet(program)) /\ Len(todo') <= Len(Steps(program)) /\ Len(todo') \in Nat
         /\ \A k \in 1..Len(todo') : todo'[k] = Steps(program)[Done + 1 + k]
         /\ BytesUpTo(Steps(program))[Done + 1] = Len(code) + StepBytes(Head(todo))
<1> DEFINE S == StepSet(program)
           N == Len(Steps(program))
<1>1. todo \in Seq(S) /\ N \in Nat /\ program \in Programs
  BY StepsOfProgram DEF TypeInv
<1>2. /\ Len(todo) <= N /\ \A k \in 1..Len(todo) : todo[k] = Steps(program)[Done + k]
      /\ Len(code) = BytesUpTo(Steps(program))[Done]
  BY DEF TodoInv
<1> HIDE DEF S
<1>3. /\ Len(todo) \in Nat /\ Len(todo) >= 1 /\ Tail(todo) \in Seq(S) /\ Len(Tail(todo)) = Len(todo) - 1
      /\ Head(todo) = todo[1] /\ Head(todo) \in S
      /\ \A k \in 1..Len(Tail(todo)) : Tail(todo)[k] = todo[k + 1]
  BY <1>1
<1>4. Done = N - Len(todo) /\ Done' = N - Len(todo')
  BY DEF Done
<1> HIDE DEF N
<1>5. Done' = Done + 1 /\ Done \in Nat /\ Done + 1 \in 1..N
  BY <1>1, <1>2, <1>3, <1>4
<1>6. Head(todo) = Steps(program)[Done + 1]
  BY <1>2, <1>3
<1>7. \A k \in 1..Len(todo') : todo'[k] = Steps(program)[Done + 1 + k]
  <2> SUFFICES ASSUME NEW k \in 1..Len(todo') PROVE todo'[k] = Steps(program)[Done + 1 + k]
    OBVIOUS
  <2>1. k + 1 \in 1..Len(todo) /\ todo'[k] = todo[k + 1] /\ k \in Nat
    BY <1>3
  <2>2. Done + (k + 1) = Done + 1 + k
    BY <1>5, <2>1
  <2> QED BY <1>2, <2>1, <2>2
<1>8. BytesUpTo(Steps(program))[Done + 1] = Len(code) + StepBytes(Head(todo))
  <2>1. \A n \in 1..N : BytesUpTo(Steps(program))[n] =
                BytesUpTo(Steps(program))[n - 1] + StepBytes(Steps(program)[n])
    BY <1>1, BytesUnfold DEF N
  <2>2. (Done + 1) - 1 = Done
    BY <1>5
  <2> QED BY <1>2, <1>5, <1>6, <2>1, <2>2
<1> QED BY <1>1, <1>2, <1>3, <1>5, <1>6, <1>7, <1>8 DEF S, N

(* The address of a function or a block leaves the code as it is.           *)
LEMMA LayoutTypes ==
  ASSUME MachineCodeInv, todo # <<>>, todo' = Tail(todo), UNCHANGED <<program, code, patches, starts, stage>>,
         stage = "encode", Head(todo).does # "instr"
  PROVE  TypeInv' /\ TodoInv' /\ StartsInv' /\ BytesInv' /\ RefsInv'
<1> USE DEF MachineCodeInv
<1>1. TypeInv'
  BY Passed DEF TypeInv
<1>2. TodoInv'
  <2>1. StepBytes(Head(todo)) = 0 /\ Len(code) \in Nat
    BY DEF StepBytes, TypeInv
  <2>2. BytesUpTo(Steps(program))[Done + 1] = Len(code)
    BY <2>1, Passed
  <2>3. /\ Done' = Done + 1 /\ Len(todo') <= Len(Steps(program))
        /\ \A k \in 1..Len(todo') : todo'[k] = Steps(program)[Done + 1 + k]
    BY Passed
  <2> QED BY <2>2, <2>3 DEF TodoInv
<1>3. Done' = Done + 1 /\ Done \in Nat
  BY Passed
<1>4. Here' = Here
  BY DEF Here
<1>5. StartsInv'
  <2>1. /\ \A k \in 1..Len(starts) : EndOf(starts[k]) = IF k = Len(starts) THEN Here ELSE starts[k + 1].at
        /\ \A k \in 1..Len(starts) : EndOf(starts[k]) <= Here
        /\ \A j \in 1..Len(starts), k \in 1..Len(starts) : j < k => EndOf(starts[j]) <= starts[k].at
    BY DEF StartsInv
  <2>2. \A k \in 1..Len(starts) :
          \E n \in 1..Done' : Steps(program)[n].does = "instr" /\ Steps(program)[n].instr = starts[k].instr
    <3>1. 1..Done \subseteq 1..Done'
      BY <1>3
    <3> QED BY <3>1 DEF StartsInv
  <2> QED BY <1>4, <2>1, <2>2 DEF StartsInv
<1>6. BytesInv'
  BY DEF BytesInv
<1>7. RefsInv'
  <2>1. \A k \in 1..Len(starts) : HasRef(starts[k]) =>
           \E n \in 1..Len(patches) : patches[n] = PatchOf(starts[k])
    BY Pending
  <2> QED BY <2>1 DEF RefsInv
<1> QED BY <1>1, <1>2, <1>5, <1>6, <1>7

(* The next address is in the memory.                                       *)
LEMMA HereInMemory ==
  ASSUME TypeInv, Len(code) < Capacity
  PROVE  Near(Here)
<1>1. Here \in 1..Capacity + 1
  BY CapacityIs DEF Here, TypeInv
<1> QED BY <1>1, HereIsNear

(* The invariant is kept where a function begins.                           *)
LEMMA EncodeFuncInv ==
  ASSUME MachineCodeInv, EncodeFunc
  PROVE  MachineCodeInv'
<1>1. /\ stage = "encode" /\ todo # <<>> /\ Head(todo).does = "func" /\ Len(code) < Capacity
      /\ todo' = Tail(todo) /\ UNCHANGED <<program, code, blockAddrs, patches, starts, stage>>
      /\ funcAddrs' = [n \in DOMAIN funcAddrs \cup {Head(todo).num} |->
                          IF n = Head(todo).num THEN Here ELSE funcAddrs[n]]
  BY DEF EncodeFunc, Fits
<1>2. TypeInv' /\ TodoInv' /\ StartsInv' /\ BytesInv' /\ RefsInv'
  BY <1>1, LayoutTypes
<1>3. Near(Here)
  BY <1>1, HereInMemory DEF MachineCodeInv
<1>4. Done' = Done + 1 /\ Done \in Nat /\ Head(todo) = Steps(program)[Done + 1]
  BY <1>1, Passed DEF MachineCodeInv
<1>5. AddressInv'
  <2>1. AddressInv
    BY DEF MachineCodeInv
  <2>2. DOMAIN funcAddrs' = DOMAIN funcAddrs \cup {Head(todo).num}
    BY <1>1
  <2>3. \A n \in DOMAIN funcAddrs' : Near(funcAddrs'[n])
    BY <1>1, <1>3, <2>1 DEF AddressInv
  <2>4. \A n \in 1..Done' :
           /\ Steps(program)[n].does = "func" => Steps(program)[n].num \in DOMAIN funcAddrs'
           /\ Steps(program)[n].does = "block" => Steps(program)[n].num \in DOMAIN blockAddrs
    <3> SUFFICES ASSUME NEW n \in 1..Done'
                 PROVE  /\ Steps(program)[n].does = "func" => Steps(program)[n].num \in DOMAIN funcAddrs'
                        /\ Steps(program)[n].does = "block" => Steps(program)[n].num \in DOMAIN blockAddrs
      OBVIOUS
    <3>1. CASE n = Done + 1
      BY <1>1, <1>4, <2>2, <3>1
    <3>2. CASE n # Done + 1
      <4>1. n \in 1..Done
        BY <1>4, <3>2
      <4> QED BY <2>1, <2>2, <4>1 DEF AddressInv
    <3> QED BY <3>1, <3>2
  <2>5. 0..Declared(program) - 1 \subseteq DOMAIN funcAddrs'
    BY <2>1, <2>2 DEF AddressInv
  <2> QED BY <1>1, <2>1, <2>3, <2>4, <2>5 DEF AddressInv
<1> QED BY <1>2, <1>5 DEF MachineCodeInv

(* It is kept where a block begins.                                         *)
LEMMA EncodeBlockInv ==
  ASSUME MachineCodeInv, EncodeBlock
  PROVE  MachineCodeInv'
<1>1. /\ stage = "encode" /\ todo # <<>> /\ Head(todo).does = "block" /\ Len(code) < Capacity
      /\ todo' = Tail(todo) /\ UNCHANGED <<program, code, funcAddrs, patches, starts, stage>>
      /\ blockAddrs' = [n \in DOMAIN blockAddrs \cup {Head(todo).num} |->
                          IF n = Head(todo).num THEN Here ELSE blockAddrs[n]]
  BY DEF EncodeBlock, Fits
<1>2. TypeInv' /\ TodoInv' /\ StartsInv' /\ BytesInv' /\ RefsInv'
  BY <1>1, LayoutTypes
<1>3. Near(Here)
  BY <1>1, HereInMemory DEF MachineCodeInv
<1>4. Done' = Done + 1 /\ Done \in Nat /\ Head(todo) = Steps(program)[Done + 1]
  BY <1>1, Passed DEF MachineCodeInv
<1>5. AddressInv'
  <2>1. AddressInv
    BY DEF MachineCodeInv
  <2>2. DOMAIN blockAddrs' = DOMAIN blockAddrs \cup {Head(todo).num}
    BY <1>1
  <2>3. \A n \in DOMAIN blockAddrs' : Near(blockAddrs'[n])
    BY <1>1, <1>3, <2>1 DEF AddressInv
  <2>4. \A n \in 1..Done' :
           /\ Steps(program)[n].does = "func" => Steps(program)[n].num \in DOMAIN funcAddrs
           /\ Steps(program)[n].does = "block" => Steps(program)[n].num \in DOMAIN blockAddrs'
    <3> SUFFICES ASSUME NEW n \in 1..Done'
                 PROVE  /\ Steps(program)[n].does = "func" => Steps(program)[n].num \in DOMAIN funcAddrs
                        /\ Steps(program)[n].does = "block" => Steps(program)[n].num \in DOMAIN blockAddrs'
      OBVIOUS
    <3>1. CASE n = Done + 1
      BY <1>1, <1>4, <2>2, <3>1
    <3>2. CASE n # Done + 1
      <4>1. n \in 1..Done
        BY <1>4, <3>2
      <4> QED BY <2>1, <2>2, <4>1 DEF AddressInv
    <3> QED BY <3>1, <3>2
  <2> QED BY <1>1, <2>1, <2>3, <2>4 DEF AddressInv
<1> QED BY <1>2, <1>5 DEF MachineCodeInv

(* It is kept when the memory is too small.                                 *)
LEMMA DoesNotFitInv ==
  ASSUME MachineCodeInv, DoesNotFit
  PROVE  MachineCodeInv'
<1>1. /\ stage = "encode" /\ todo # <<>> /\ ~Fits(Head(todo)) /\ stage' = "failed"
      /\ UNCHANGED <<program, code, todo, funcAddrs, blockAddrs, patches, starts>>
  BY DEF DoesNotFit
<1>2. Done' = Done /\ Here' = Here /\ (Fits(Head(todo))' <=> Fits(Head(todo)))
  BY <1>1 DEF Done, Here, Fits
<1>3. TypeInv'
  BY <1>1 DEF TypeInv, MachineCodeInv
<1>4. TodoInv'
  BY <1>1, <1>2 DEF TodoInv, MachineCodeInv
<1>5. AddressInv' /\ StartsInv' /\ BytesInv'
  BY <1>1, <1>2 DEF AddressInv, StartsInv, BytesInv, MachineCodeInv
<1>6. RefsInv'
  BY <1>1, Pending DEF RefsInv, MachineCodeInv
<1> QED BY <1>3, <1>4, <1>5, <1>6 DEF MachineCodeInv

(* It is kept when there is nothing left to link.                           *)
LEMMA LinkedInv ==
  ASSUME MachineCodeInv, Linked
  PROVE  MachineCodeInv'
<1>1. /\ stage = "encode" /\ todo = <<>> /\ patches = <<>> /\ stage' = "linked"
      /\ UNCHANGED <<program, code, todo, funcAddrs, blockAddrs, patches, starts>>
  BY DEF Linked
<1>2. Done' = Done /\ Here' = Here /\ \A s : IsPatched(s)' <=> IsPatched(s)
  BY <1>1 DEF Done, Here, IsPatched, PatchBytes, AddressOf
<1>3. TypeInv'
  BY <1>1 DEF TypeInv, MachineCodeInv
<1>4. TodoInv'
  BY <1>1, <1>2 DEF TodoInv, MachineCodeInv
<1>5. AddressInv' /\ StartsInv' /\ BytesInv'
  BY <1>1, <1>2 DEF AddressInv, StartsInv, BytesInv, MachineCodeInv
<1>6. RefsInv'
  BY <1>1, <1>2 DEF RefsInv, MachineCodeInv, IsPatched, PatchBytes, AddressOf
<1> QED BY <1>3, <1>4, <1>5, <1>6 DEF MachineCodeInv

(* It is kept when nothing changes.                                         *)
LEMMA StutterInv ==
  ASSUME MachineCodeInv, UNCHANGED vars
  PROVE  MachineCodeInv'
  BY DEF vars, MachineCodeInv, TypeInv, TodoInv, AddressInv, StartsInv, BytesInv, RefsInv, Done, Here,
         IsPatched, PatchBytes, AddressOf, Fits

-----------------------------------------------------------------------------
(* Instructions.                                                            *)

(* What a sequence with one more element holds.                             *)
LEMMA Appended ==
  ASSUME NEW S, NEW s \in Seq(S), NEW x \in S
  PROVE  /\ Append(s, x) \in Seq(S) /\ Len(Append(s, x)) = Len(s) + 1 /\ Len(s) \in Nat
         /\ Append(s, x)[Len(s) + 1] = x
         /\ \A k \in 1..Len(s) : Append(s, x)[k] = s[k]
  OBVIOUS

(* The invariant is kept when an instruction is encoded: its bytes come     *)
(* behind all others, its reference waits.                                  *)
LEMMA EncodeInstrInv ==
  ASSUME MachineCodeInv, EncodeInstr
  PROVE  MachineCodeInv'
<1> DEFINE i == Head(todo).instr
           e == Encode(i)
           L == Len(e)
           new == [at |-> Here, instr |-> i]
           N == Len(starts)
<1>1. /\ stage = "encode" /\ todo # <<>> /\ Head(todo).does = "instr" /\ Len(code) + Room(i) <= Capacity
      /\ todo' = Tail(todo) /\ UNCHANGED <<program, funcAddrs, blockAddrs, stage>>
      /\ code' = code \o e /\ starts' = Append(starts, new)
      /\ patches' = IF Ref(i) = None THEN patches
                    ELSE Append(patches, [ref |-> Ref(i), at |-> Len(code) + L - 3])
  BY DEF EncodeInstr, Fits
<1>2. /\ TypeInv /\ TodoInv /\ AddressInv /\ StartsInv /\ BytesInv /\ RefsInv
  BY DEF MachineCodeInv
<1>3. /\ Done' = Done + 1 /\ Done \in Nat /\ Head(todo) = Steps(program)[Done + 1]
      /\ Head(todo) \in StepSet(program)
      /\ todo' \in Seq(StepSet(program)) /\ Len(todo') <= Len(Steps(program))
      /\ \A k \in 1..Len(todo') : todo'[k] = Steps(program)[Done + 1 + k]
      /\ BytesUpTo(Steps(program))[Done + 1] = Len(code) + StepBytes(Head(todo))
  BY <1>1, <1>2, Passed
<1>4. i \in Instrs
  BY <1>1, <1>3, StepIs
<1>5. IsSequence(e) /\ L \in Nat /\ (Ref(i) # None => L >= 4)
  BY <1>4, MachineCodeAssumption, Encoded
<1>6. Len(code) + L <= Capacity /\ Len(code) \in Nat /\ IsSequence(code)
  <2>1. Room(i) = L + 1 \/ Room(i) = L
    BY <1>5 DEF Room
  <2> QED BY <1>1, <1>2, <1>5, <2>1, CapacityIs DEF TypeInv
<1>7. new \in StartSet /\ new.at = Here /\ new.instr = i /\ Here = Len(code) + 1
  BY <1>4, <1>6 DEF StartSet, Here
<1>8. StepBytes(Head(todo)) = L
  BY <1>1 DEF StepBytes
<1>9. /\ IsSequence(code') /\ Len(code') = Len(code) + L
      /\ \A k \in 1..Len(code) : code'[k] = code[k]
      /\ \A k \in 1..L : code'[Len(code) + k] = e[k]
  BY <1>1, <1>5, <1>6, SequencesConcatenate
<1> HIDE DEF i, e, L, new
<1>10. /\ starts' \in Seq(StartSet) /\ Len(starts') = N + 1 /\ N \in Nat /\ starts'[N + 1] = new
       /\ \A k \in 1..N : starts'[k] = starts[k]
  BY <1>1, <1>2, <1>7, Appended DEF TypeInv
<1> HIDE DEF N
<1> DEFINE patch == [ref |-> Ref(i), at |-> Len(code) + L - 3]
<1>11. EndOf(new) = Here + L /\ (HasRef(new) <=> Ref(i) # None) /\ Here' = Here + L
  BY <1>5, <1>6, <1>7, <1>9 DEF EndOf, HasRef, Here, L, e
<1>12. PatchOf(new) = patch
  <2>1. EndOf(new) - 4 = Len(code) + L - 3
    BY <1>5, <1>6, <1>7, <1>11
  <2> QED BY <1>7, <2>1 DEF PatchOf
<1>13. patch \in PatchSet
  <2>1. Len(code) + L - 3 \in Int
    BY <1>5, <1>6
  <2> QED BY <1>4, <2>1 DEF PatchSet
<1> HIDE DEF patch
<1>14. /\ patches' \in Seq(PatchSet) /\ Len(patches) \in Nat
       /\ Ref(i) = None => patches' = patches
       /\ Ref(i) # None => Len(patches') = Len(patches) + 1 /\ patches'[Len(patches) + 1] = patch
       /\ Len(patches') >= Len(patches)
       /\ \A n \in 1..Len(patches) : patches'[n] = patches[n]
  <2>1. patches \in Seq(PatchSet)
    BY <1>2 DEF TypeInv
  <2>2. Len(patches) \in Nat
    BY <2>1
  <2>3. CASE Ref(i) = None
    BY <1>1, <2>1, <2>2, <2>3
  <2>4. CASE Ref(i) # None
    <3>1. patches' = Append(patches, patch)
      BY <1>1, <2>4 DEF patch
    <3>2. /\ Append(patches, patch) \in Seq(PatchSet) /\ Len(Append(patches, patch)) = Len(patches) + 1
          /\ Append(patches, patch)[Len(patches) + 1] = patch
          /\ \A k \in 1..Len(patches) : Append(patches, patch)[k] = patches[k]
      BY <1>13, <2>1, Appended
    <3> QED BY <2>2, <2>4, <3>1, <3>2
  <2> QED BY <2>3, <2>4
<1>15. TypeInv'
  <2>1. Len(code') \in Nat /\ Len(code') <= Capacity
    BY <1>5, <1>6, <1>9
  <2> QED BY <1>1, <1>2, <1>3, <1>9, <1>10, <1>14, <2>1 DEF TypeInv
<1>16. TodoInv'
  BY <1>1, <1>3, <1>8, <1>9 DEF TodoInv
<1>17. AddressInv'
  <2>1. \A n \in 1..Done' : Steps(program)[n].does = "instr" \/ n \in 1..Done
    BY <1>1, <1>3
  <2>2. \A n \in 1..Done' :
           /\ Steps(program)[n].does = "func" => Steps(program)[n].num \in DOMAIN funcAddrs
           /\ Steps(program)[n].does = "block" => Steps(program)[n].num \in DOMAIN blockAddrs
    BY <1>2, <2>1 DEF AddressInv
  <2> QED BY <1>1, <1>2, <2>2 DEF AddressInv
<1>18. /\ \A k \in 1..N : starts[k].at \in Nat \ {0} /\ Len(Encode(starts[k].instr)) \in Nat
       /\ \A k \in 1..N : EndOf(starts[k]) = IF k = N THEN Here ELSE starts[k + 1].at
       /\ \A k \in 1..N : EndOf(starts[k]) <= Here /\ EndOf(starts[k]) \in Int
       /\ \A j \in 1..N, k \in 1..N : j < k => EndOf(starts[j]) <= starts[k].at
  <2>1. \A k \in 1..N : starts[k].at \in Nat \ {0} /\ Len(Encode(starts[k].instr)) \in Nat
    BY <1>2, StateFacts DEF N
  <2>2. \A k \in 1..N : EndOf(starts[k]) \in Int
    BY <2>1 DEF EndOf
  <2> QED BY <1>2, <2>1, <2>2 DEF StartsInv, N
<1>19. StartsInv'
  <2>1. \A k \in 1..Len(starts') : EndOf(starts'[k]) = IF k = Len(starts') THEN Here' ELSE starts'[k + 1].at
    <3> SUFFICES ASSUME NEW k \in 1..Len(starts')
                 PROVE  EndOf(starts'[k]) = IF k = Len(starts') THEN Here' ELSE starts'[k + 1].at
      OBVIOUS
    <3>1. CASE k = N + 1
      BY <1>10, <1>11, <3>1
    <3>2. CASE k = N
      BY <1>7, <1>10, <1>18, <3>2
    <3>3. CASE k \in 1..N - 1
      <4>1. k \in 1..N /\ k + 1 \in 1..N /\ k # N /\ k # N + 1
        BY <1>10, <3>3
      <4>2. EndOf(starts[k]) = starts[k + 1].at
        BY <1>18, <4>1
      <4> QED BY <1>10, <4>1, <4>2
    <3> QED BY <1>10, <3>1, <3>2, <3>3
  <2>2. \A k \in 1..Len(starts') : EndOf(starts'[k]) <= Here'
    <3> SUFFICES ASSUME NEW k \in 1..Len(starts') PROVE EndOf(starts'[k]) <= Here'
      OBVIOUS
    <3>1. CASE k = N + 1
      BY <1>5, <1>6, <1>7, <1>10, <1>11, <3>1
    <3>2. CASE k \in 1..N
      BY <1>5, <1>6, <1>7, <1>10, <1>11, <1>18, <3>2
    <3> QED BY <1>10, <3>1, <3>2
  <2>3. \A j \in 1..Len(starts'), k \in 1..Len(starts') : j < k => EndOf(starts'[j]) <= starts'[k].at
    <3> SUFFICES ASSUME NEW j \in 1..Len(starts'), NEW k \in 1..Len(starts'), j < k
                 PROVE  EndOf(starts'[j]) <= starts'[k].at
      OBVIOUS
    <3>1. j \in 1..N
      BY <1>10
    <3>2. CASE k = N + 1
      BY <1>7, <1>10, <1>18, <3>1, <3>2
    <3>3. CASE k \in 1..N
      BY <1>10, <1>18, <3>1, <3>3
    <3> QED BY <1>10, <3>2, <3>3
  <2>4. \A k \in 1..Len(starts') :
          \E n \in 1..Done' : Steps(program)[n].does = "instr" /\ Steps(program)[n].instr = starts'[k].instr
    <3> SUFFICES ASSUME NEW k \in 1..Len(starts')
                 PROVE  \E n \in 1..Done' : Steps(program)[n].does = "instr" /\ Steps(program)[n].instr =
                               starts'[k].instr
      OBVIOUS
    <3>1. CASE k = N + 1
      <4>1. Done + 1 \in 1..Done'
        BY <1>3
      <4>2. Steps(program)[Done + 1].does = "instr" /\ Steps(program)[Done + 1].instr = i
        BY <1>1, <1>3 DEF i
      <4> QED BY <1>7, <1>10, <3>1, <4>1, <4>2
    <3>2. CASE k \in 1..N
      <4>1. \E n \in 1..Done : Steps(program)[n].does = "instr" /\ Steps(program)[n].instr = starts[k].instr
        BY <1>2, <3>2 DEF StartsInv, N
      <4>2. 1..Done \subseteq 1..Done'
        BY <1>3
      <4> QED BY <1>10, <3>2, <4>1, <4>2
    <3> QED BY <1>10, <3>1, <3>2
  <2> QED BY <1>1, <2>1, <2>2, <2>3, <2>4 DEF StartsInv
<1>20. BytesInv'
  <2> SUFFICES ASSUME NEW k \in 1..Len(starts'), NEW j \in 1..Len(Encode(starts'[k].instr)),
                      ~HasRef(starts'[k]) \/ j <= Len(Encode(starts'[k].instr)) - 4
               PROVE  code'[starts'[k].at + j - 1] = Encode(starts'[k].instr)[j]
    BY DEF BytesInv
  <2>1. CASE k = N + 1
    <3>1. starts'[k].at = Here /\ starts'[k].instr = i
      BY <1>7, <1>10, <2>1
    <3>2. j \in 1..L /\ Here + j - 1 = Len(code) + j
      BY <1>5, <1>6, <1>7, <3>1 DEF L, e
    <3> QED BY <1>9, <3>1, <3>2 DEF e
  <2>2. CASE k \in 1..N
    <3>1. starts'[k] = starts[k] /\ Len(Encode(starts[k].instr)) \in Nat /\ starts[k].at \in Nat \ {0}
      BY <1>10, <1>18, <2>2
    <3>2. code[starts[k].at + j - 1] = Encode(starts[k].instr)[j]
      BY <1>2, <2>2, <3>1 DEF BytesInv, N
    <3>3. starts[k].at + Len(Encode(starts[k].instr)) <= Here
      BY <1>18, <2>2 DEF EndOf
    <3>4. j \in 1..Len(Encode(starts[k].instr))
      BY <3>1
    <3>5. starts[k].at + j - 1 \in 1..Len(code)
      BY <1>6, <1>7, <3>1, <3>3, <3>4
    <3> QED BY <1>9, <3>1, <3>2, <3>5
  <2> QED BY <1>10, <2>1, <2>2
<1>21. RefsInv'
  <2>1. \A k \in 1..Len(starts') : HasRef(starts'[k]) =>
           \E n \in 1..Len(patches') : patches'[n] = PatchOf(starts'[k])
    <3> SUFFICES ASSUME NEW k \in 1..Len(starts'), HasRef(starts'[k])
                 PROVE  \E n \in 1..Len(patches') : patches'[n] = PatchOf(starts'[k])
      OBVIOUS
    <3>1. CASE k = N + 1
      <4>1. Ref(i) # None
        BY <1>10, <1>11, <3>1
      <4>2. Len(patches) + 1 \in 1..Len(patches')
        BY <1>14, <4>1
      <4> QED BY <1>10, <1>12, <1>14, <3>1, <4>1, <4>2
    <3>2. CASE k \in 1..N
      <4>1. starts'[k] = starts[k]
        BY <1>10, <3>2
      <4>2. PICK n \in 1..Len(patches) : patches[n] = PatchOf(starts[k])
        BY <1>1, <1>2, <3>2, <4>1, Pending DEF N
      <4>3. n \in 1..Len(patches') /\ patches'[n] = patches[n]
        <5>1. patches' \in Seq(PatchSet) /\ Len(patches') >= Len(patches) /\ Len(patches) \in Nat
          BY <1>14
        <5>2. Len(patches') \in Nat
          BY <5>1
        <5> QED BY <1>14, <5>1, <5>2
      <4> QED BY <4>1, <4>2, <4>3
    <3> QED BY <1>10, <3>1, <3>2
  <2>2. \A n \in 1..Len(patches') :
           \E k \in 1..Len(starts') : HasRef(starts'[k]) /\ patches'[n] = PatchOf(starts'[k])
    <3> SUFFICES ASSUME NEW n \in 1..Len(patches')
                 PROVE  \E k \in 1..Len(starts') : HasRef(starts'[k]) /\ patches'[n] = PatchOf(starts'[k])
      OBVIOUS
    <3>1. CASE n \in 1..Len(patches)
      <4>1. PICK k \in 1..N : HasRef(starts[k]) /\ patches[n] = PatchOf(starts[k])
        BY <1>2, <3>1 DEF RefsInv, N
      <4>2. k \in 1..Len(starts') /\ starts'[k] = starts[k] /\ patches'[n] = patches[n]
        BY <1>10, <1>14, <3>1
      <4> QED BY <4>1, <4>2
    <3>2. CASE n \notin 1..Len(patches)
      <4>1. Ref(i) # None
        BY <1>14, <3>2
      <4>2. n = Len(patches) + 1
        BY <1>14, <3>2, <4>1
      <4>3. N + 1 \in 1..Len(starts') /\ starts'[N + 1] = new /\ HasRef(new) /\ patches'[n] = PatchOf(new)
        BY <1>10, <1>11, <1>12, <1>14, <4>1, <4>2
      <4> QED BY <4>3
    <3> QED BY <3>1, <3>2
  <2> QED BY <2>1, <2>2 DEF RefsInv
<1> QED BY <1>15, <1>16, <1>17, <1>19, <1>20, <1>21 DEF MachineCodeInv

-----------------------------------------------------------------------------
(* Patches.                                                                 *)

(* What a sequence without its first element holds.                         *)
LEMMA TailOf ==
  ASSUME NEW S, NEW s \in Seq(S), s # <<>>
  PROVE  /\ Tail(s) \in Seq(S) /\ Len(Tail(s)) = Len(s) - 1 /\ Len(s) \in Nat /\ Len(s) >= 1 /\ Head(s) = s[1]
         /\ \A k \in 1..Len(Tail(s)) : Tail(s)[k] = s[k + 1]
  OBVIOUS

(* The invariant is kept when the linker applies a patch: the four bytes    *)
(* belong to one instruction only, and hold its distance from now on.       *)
LEMMA ApplyPatchInv ==
  ASSUME MachineCodeInv, ApplyPatch
  PROVE  MachineCodeInv'
<1> DEFINE patch == Head(patches)
           N == Len(starts)
<1>1. /\ stage = "encode" /\ todo = <<>> /\ patches # <<>> /\ code' = Patched(code, patch)
      /\ patches' = Tail(patches)
      /\ UNCHANGED <<program, todo, funcAddrs, blockAddrs, starts, stage>>
  BY DEF ApplyPatch
<1>2. /\ TypeInv /\ TodoInv /\ AddressInv /\ StartsInv /\ BytesInv /\ RefsInv
  BY DEF MachineCodeInv
<1>3. /\ patches' \in Seq(PatchSet) /\ Len(patches') = Len(patches) - 1 /\ Len(patches) \in Nat
      /\ Len(patches) >= 1 /\ patch = patches[1]
      /\ \A k \in 1..Len(patches') : patches'[k] = patches[k + 1]
  BY <1>1, <1>2, TailOf DEF TypeInv
<1>4. N \in Nat /\ Len(code) \in Nat /\ Here = Len(code) + 1
  BY <1>2, StateFacts DEF TypeInv
<1>5. DOMAIN code = 1..Len(code)
  BY <1>2, SequenceDomain DEF TypeInv
<1>6. code' = [k \in 1..Len(code) |-> IF k \in patch.at..patch.at + 3 THEN PatchBytes(patch)[k - patch.at + 1]
                                      ELSE code[k]]
  BY <1>1, <1>5 DEF Patched
<1>7. \A k \in 1..Len(code) : code'[k] =
              IF k \in patch.at..patch.at + 3 THEN PatchBytes(patch)[k - patch.at + 1]
                                         ELSE code[k]
  BY <1>6
<1>8. IsSequence(code') /\ Len(code') = Len(code)
  <2>1. code' = [k \in 1..Len(code) |-> code'[k]]
    BY <1>6
  <2> QED BY <1>4, <2>1, FunctionIsSequence
<1>9. Here' = Here /\ Done' = Done
  BY <1>1, <1>8 DEF Here, Done
<1> HIDE DEF patch
<1>11. PICK k0 \in 1..N : HasRef(starts[k0]) /\ patch = PatchOf(starts[k0])
  <2>1. 1 \in 1..Len(patches)
    BY <1>3
  <2> QED BY <1>2, <1>3, <2>1 DEF RefsInv
<1>12. /\ \A k \in 1..N : starts[k].at \in Nat \ {0} /\ Len(Encode(starts[k].instr)) \in Nat
                          /\ (HasRef(starts[k]) => Len(Encode(starts[k].instr)) >= 4)
       /\ \A k \in 1..N : EndOf(starts[k]) = starts[k].at + Len(Encode(starts[k].instr))
                     /\ EndOf(starts[k]) <= Here
       /\ \A j \in 1..N, k \in 1..N : j < k => EndOf(starts[j]) <= starts[k].at
  BY <1>2, StateFacts DEF StartsInv, EndOf
<1>13. patch.at = EndOf(starts[k0]) - 4
  BY <1>11 DEF PatchOf
<1>14. patch.at \in Int /\ patch.at >= starts[k0].at /\ EndOf(starts[k0]) \in Int
  BY <1>11, <1>12, <1>13
<1> HIDE DEF N
(* The bytes of another instruction are not touched.                        *)
<1>15. ASSUME NEW k \in 1..N, NEW x \in Int, k # k0, starts[k].at <= x, x < EndOf(starts[k])
       PROVE  x \in 1..Len(code) /\ code'[x] = code[x]
  <2>1. starts[k].at \in Nat \ {0} /\ EndOf(starts[k]) \in Int /\ EndOf(starts[k]) <= Here
    BY <1>12
  <2>2. x \in 1..Len(code)
    BY <1>4, <1>15, <2>1
  <2>3. x \notin patch.at..patch.at + 3
    <3>1. CASE k < k0
      <4>1. EndOf(starts[k]) <= starts[k0].at
        BY <1>11, <1>12, <3>1
      <4>2. starts[k0].at \in Int
        BY <1>11, <1>12
      <4> QED BY <1>14, <1>15, <2>1, <4>1, <4>2
    <3>2. CASE k0 < k
      <4>1. EndOf(starts[k0]) <= starts[k].at
        BY <1>11, <1>12, <3>2
      <4> QED BY <1>13, <1>14, <1>15, <2>1, <4>1
    <3> QED BY <1>15, <1>4, <3>1, <3>2 DEF N
  <2> QED BY <1>7, <2>2, <2>3
<1>16. TypeInv'
  <2>1. Len(code') \in Nat /\ Len(code') <= Capacity
    BY <1>2, <1>8 DEF TypeInv
  <2> QED BY <1>1, <1>2, <1>3, <1>8, <2>1 DEF TypeInv
<1>17. TodoInv'
  <2>1. Len(code) = BytesUpTo(Steps(program))[Done] /\ Len(todo) <= Len(Steps(program))
        /\ \A k \in 1..Len(todo) : todo[k] = Steps(program)[Done + k]
    BY <1>2 DEF TodoInv
  <2> QED BY <1>1, <1>8, <1>9, <2>1 DEF TodoInv
<1>18. AddressInv' /\ StartsInv'
  BY <1>1, <1>2, <1>9 DEF AddressInv, StartsInv
<1>19. BytesInv'
  <2> SUFFICES ASSUME NEW k \in 1..N, NEW j \in 1..Len(Encode(starts[k].instr)),
                      ~HasRef(starts[k]) \/ j <= Len(Encode(starts[k].instr)) - 4
               PROVE  code'[starts[k].at + j - 1] = Encode(starts[k].instr)[j]
    BY <1>1 DEF BytesInv, N
  <2> DEFINE x == starts[k].at + j - 1
  <2>1. code[x] = Encode(starts[k].instr)[j]
    BY <1>2 DEF BytesInv, N
  <2>2. /\ starts[k].at \in Nat \ {0} /\ Len(Encode(starts[k].instr)) \in Nat
        /\ EndOf(starts[k]) = starts[k].at + Len(Encode(starts[k].instr)) /\ EndOf(starts[k]) <= Here
    BY <1>12
  <2>3. x \in Int /\ starts[k].at <= x /\ x < EndOf(starts[k])
    BY <2>2
  <2>4. CASE k # k0
    BY <1>15, <2>1, <2>3, <2>4
  <2>5. CASE k = k0
    <3>1. x \in 1..Len(code)
      BY <1>4, <2>2, <2>3
    <3>2. x <= EndOf(starts[k0]) - 5
      BY <1>11, <2>2, <2>5
    <3>3. x \notin patch.at..patch.at + 3
      BY <1>13, <1>14, <2>3, <3>2
    <3> QED BY <1>7, <2>1, <3>1, <3>3
  <2> QED BY <2>4, <2>5
<1>20. ASSUME NEW k \in 1..N, HasRef(starts[k]), NEW m \in 1..4
       PROVE  LET x == EndOf(starts[k]) - 5 + m
              IN  /\ x \in Int /\ starts[k].at <= x /\ x < EndOf(starts[k]) /\ x \in 1..Len(code)
                  /\ PatchOf(starts[k]) = patch => code'[x] = PatchBytes(patch)[m]
                  /\ k # k0 => code'[x] = code[x]
  <2> DEFINE x == EndOf(starts[k]) - 5 + m
  <2>1. /\ starts[k].at \in Nat \ {0} /\ Len(Encode(starts[k].instr)) \in Nat
        /\ Len(Encode(starts[k].instr)) >= 4
        /\ EndOf(starts[k]) = starts[k].at + Len(Encode(starts[k].instr)) /\ EndOf(starts[k]) <= Here
    BY <1>12, <1>20
  <2>2. x \in Int /\ starts[k].at <= x /\ x < EndOf(starts[k]) /\ x \in 1..Len(code)
    <3> DEFINE a == starts[k].at
               l == Len(Encode(starts[k].instr))
               e == EndOf(starts[k])
    <3>1. a \in Nat /\ a >= 1 /\ l \in Nat /\ l >= 4 /\ e = a + l /\ e <= Len(code) + 1 /\ Len(code) \in Nat
      BY <1>4, <2>1
    <3> HIDE DEF a, l, e
    <3>2. e - 5 + m \in Int /\ a <= e - 5 + m /\ e - 5 + m < e /\ e - 5 + m \in 1..Len(code)
      BY <3>1
    <3> QED BY <3>2 DEF a, e
  <2>3. PatchOf(starts[k]) = patch => code'[x] = PatchBytes(patch)[m]
    <3> SUFFICES ASSUME PatchOf(starts[k]) = patch PROVE code'[x] = PatchBytes(patch)[m]
      OBVIOUS
    <3>1. patch.at = EndOf(starts[k]) - 4
      <4>1. PatchOf(starts[k]).at = EndOf(starts[k]) - 4
        BY DEF PatchOf
      <4> QED BY <4>1
    <3>2. x \in patch.at..patch.at + 3 /\ x - patch.at + 1 = m
      <4> DEFINE e == EndOf(starts[k])
                 p == patch.at
      <4>1. e \in Int /\ p \in Int /\ p = e - 4
        BY <1>14, <2>1, <3>1
      <4> HIDE DEF e, p
      <4>2. e - 5 + m \in p..p + 3 /\ (e - 5 + m) - p + 1 = m
        BY <4>1
      <4> QED BY <4>2 DEF e, p
    <3> QED BY <1>7, <2>2, <3>2
  <2>4. k # k0 => code'[x] = code[x]
    BY <1>15, <2>2
  <2> QED BY <2>2, <2>3, <2>4
<1>21. RefsInv'
  <2>1. \A k \in 1..N : HasRef(starts[k]) =>
           \/ \E n \in 1..Len(patches') : patches'[n] = PatchOf(starts[k])
           \/ \A m \in 1..4 : code'[EndOf(starts[k]) - 5 + m] = PatchBytes(PatchOf(starts[k]))[m]
    <3> SUFFICES ASSUME NEW k \in 1..N, HasRef(starts[k])
                 PROVE  \/ \E n \in 1..Len(patches') : patches'[n] = PatchOf(starts[k])
                        \/ \A m \in 1..4 : code'[EndOf(starts[k]) - 5 + m] = PatchBytes(PatchOf(starts[k]))[m]
      OBVIOUS
    <3>1. CASE PatchOf(starts[k]) = patch
      <4>1. \A m \in 1..4 : code'[EndOf(starts[k]) - 5 + m] = PatchBytes(patch)[m]
        BY <1>20, <3>1
      <4> QED BY <3>1, <4>1
    <3>2. CASE PatchOf(starts[k]) # patch
      <4>1. k # k0
        BY <1>11, <3>2
      <4>2. CASE \E n \in 1..Len(patches) : patches[n] = PatchOf(starts[k])
        <5>1. PICK n \in 1..Len(patches) : patches[n] = PatchOf(starts[k])
          BY <4>2
        <5>2. n # 1
          BY <1>3, <3>2, <5>1
        <5>3. n - 1 \in 1..Len(patches') /\ (n - 1) + 1 = n
          BY <1>3, <5>2
        <5>4. patches'[n - 1] = patches[n]
          BY <1>3, <5>3
        <5> QED BY <5>1, <5>3, <5>4
      <4>3. CASE IsPatched(starts[k])
        <5>1. \A m \in 1..4 : code[EndOf(starts[k]) - 5 + m] = PatchBytes(PatchOf(starts[k]))[m]
          BY <4>3 DEF IsPatched
        <5>2. \A m \in 1..4 : code'[EndOf(starts[k]) - 5 + m] = code[EndOf(starts[k]) - 5 + m]
          BY <1>20, <4>1
        <5> QED BY <5>1, <5>2
      <4> QED BY <1>2, <4>2, <4>3 DEF RefsInv, N
    <3> QED BY <3>1, <3>2
  <2>2. \A n \in 1..Len(patches') : \E k \in 1..N : HasRef(starts[k]) /\ patches'[n] = PatchOf(starts[k])
    <3> SUFFICES ASSUME NEW n \in 1..Len(patches')
                 PROVE  \E k \in 1..N : HasRef(starts[k]) /\ patches'[n] = PatchOf(starts[k])
      OBVIOUS
    <3>1. n + 1 \in 1..Len(patches) /\ patches'[n] = patches[n + 1]
      BY <1>3
    <3> QED BY <1>2, <3>1 DEF RefsInv, N
  <2>3. \A k \in 1..N : IsPatched(starts[k])' <=>
           \A m \in 1..4 : code'[EndOf(starts[k]) - 5 + m] = PatchBytes(PatchOf(starts[k]))[m]
    BY <1>1 DEF IsPatched, PatchBytes, AddressOf
  <2>4. starts' = starts /\ todo' = <<>>
    BY <1>1
  <2>5. \A k \in 1..N : HasRef(starts[k]) =>
           \/ \E n \in 1..Len(patches') : patches'[n] = PatchOf(starts[k])
           \/ IsPatched(starts[k])'
    BY <2>1, <2>3
  <2> QED BY <2>2, <2>4, <2>5 DEF RefsInv, N, IsPatched, PatchBytes, AddressOf
<1> QED BY <1>16, <1>17, <1>18, <1>19, <1>21 DEF MachineCodeInv

-----------------------------------------------------------------------------
(* The invariant and what follows from it.                                  *)

(* Every step keeps the invariant.                                          *)
LEMMA NextInv == MachineCodeInv /\ [Next]_vars => MachineCodeInv'
<1> SUFFICES ASSUME MachineCodeInv, [Next]_vars PROVE MachineCodeInv'
  OBVIOUS
<1> QED BY EncodeFuncInv, EncodeBlockInv, EncodeInstrInv, DoesNotFitInv, ApplyPatchInv, LinkedInv, StutterInv
        DEF Next

(* The invariant holds in every state, for every capacity, all instructions *)
(* and all programs.                                                        *)
THEOREM MachineCodeIsInvariant == Spec => []MachineCodeInv
<1>1. Init => MachineCodeInv
  BY InitInv
<1>2. MachineCodeInv /\ [Next]_vars => MachineCodeInv'
  BY NextInv
<1> QED BY <1>1, <1>2, PTL DEF Spec

(* The step that does not fit fills the memory with the steps before it.    *)
LEMMA OnlyFullMemoryIsRefused == MachineCodeInv => RefusesOnlyFullMemory
<1> SUFFICES ASSUME MachineCodeInv, stage = "failed" PROVE Capacity <= TotalBytes(Steps(program))
  BY DEF RefusesOnlyFullMemory
<1> DEFINE q == Steps(program)
           f == BytesUpTo(q)
<1>1. TypeInv /\ TodoInv /\ todo # <<>> /\ ~Fits(Head(todo))
  BY DEF MachineCodeInv, TodoInv
<1>2. program \in Programs /\ todo \in Seq(StepSet(program)) /\ Len(code) \in Nat
  BY <1>1 DEF TypeInv
<1>3. Len(q) \in Nat /\ \A k \in 1..Len(q) : q[k] \in StepSet(program) /\ StepBytes(q[k]) \in Nat
  BY <1>2, StepsOfProgram
<1>4. Len(todo) \in Nat /\ Len(todo) >= 1 /\ Head(todo) = todo[1]
  BY <1>1, <1>2, TailOf
<1>5. Done \in Nat /\ Done + Len(todo) = Len(q)
  BY <1>1, StateFacts
<1>6. Done + 1 \in 1..Len(q) /\ Done \in 0..Len(q) /\ Done + 1 \in 0..Len(q) /\ Len(q) \in Done..Len(q)
      /\ Len(q) \in Done + 1..Len(q)
  BY <1>3, <1>4, <1>5
<1>7. Head(todo) = q[Done + 1] /\ Len(code) = f[Done]
  <2>1. 1 \in 1..Len(todo)
    BY <1>4
  <2> QED BY <1>1, <1>4, <2>1 DEF TodoInv
<1>8. f[Done + 1] = f[Done] + StepBytes(q[Done + 1])
  <2>1. \A n \in 1..Len(q) : f[n] = f[n - 1] + StepBytes(q[n])
    BY <1>3, BytesUnfold
  <2>2. (Done + 1) - 1 = Done
    BY <1>5
  <2> QED BY <1>6, <2>1, <2>2
<1>9. f[Done] <= f[Len(q)] /\ f[Done + 1] <= f[Len(q)] /\ f[Len(q)] \in Nat /\ f[Done + 1] \in Nat
  <2>1. Len(q) \in 0..Len(q)
    BY <1>3
  <2> QED BY <1>3, <1>6, <2>1, BytesGrow
<1>10. TotalBytes(q) = f[Len(q)]
  BY DEF TotalBytes
<1>11. Capacity <= f[Done] \/ Capacity <= f[Done + 1]
  <2>1. CASE ~(Len(code) < Capacity)
    BY <1>2, <1>7, <2>1, CapacityIs
  <2>2. CASE Head(todo).does = "instr" /\ ~(Len(code) + Room(Head(todo).instr) <= Capacity)
    <3> DEFINE L == Len(Encode(Head(todo).instr))
    <3>1. StepBytes(q[Done + 1]) = L /\ L \in Nat
      BY <1>3, <1>6, <1>7, <2>2 DEF StepBytes
    <3>2. Room(Head(todo).instr) = L \/ Room(Head(todo).instr) = L + 1
      BY <3>1 DEF Room
    <3> HIDE DEF L
    <3> DEFINE R == Room(Head(todo).instr)
    <3>3. Capacity <= Len(code) + L
      <4>1. (R = L \/ R = L + 1) /\ ~(Len(code) + R <= Capacity)
        BY <1>2, <2>2, <3>1, <3>2, CapacityIs
      <4> HIDE DEF R
      <4> QED BY <1>2, <3>1, <4>1, CapacityIs
    <3>4. f[Done + 1] = Len(code) + L
      BY <1>7, <1>8, <3>1
    <3> HIDE DEF f
    <3> QED BY <3>3, <3>4
  <2>3. ~(Len(code) < Capacity) \/ (Head(todo).does = "instr"
                /\ ~(Len(code) + Room(Head(todo).instr) <= Capacity))
    BY <1>1, Zenon DEF Fits
  <2> QED BY <2>1, <2>2, <2>3, Zenon
<1> HIDE DEF f, q
<1> QED BY <1>2, <1>7, <1>9, <1>10, <1>11, CapacityIs DEF q

(* Program::Encode() and Linker never refuse a program that leaves a byte   *)
(* of the memory free: RefusesOnlyFullMemory in every state.                *)
THEOREM OnlyFullMemory == Spec => []RefusesOnlyFullMemory
  BY MachineCodeIsInvariant, OnlyFullMemoryIsRefused, PTL

(* Every instruction's reference is to something that has an address near   *)
(* to the memory.                                                           *)
LEMMA ReferencesAreNear ==
  ASSUME MachineCodeInv, todo = <<>>, NEW k \in 1..Len(starts), HasRef(starts[k]),
         Ref(starts[k].instr).kind \in {"func", "block"}
  PROVE  Near(AddressOf(Ref(starts[k].instr)))
<1> DEFINE q == Steps(program)
           ref == Ref(starts[k].instr)
<1>1. TypeInv /\ AddressInv /\ StartsInv
  BY DEF MachineCodeInv
<1>2. program \in Programs /\ Len(q) \in Nat /\ q \in Seq(StepSet(program))
  BY <1>1, StepsOfProgram DEF TypeInv
<1>3. Done = Len(q)
  BY <1>2 DEF Done
<1>4. DOMAIN q = 1..Len(q)
  BY <1>2
<1>5. PICK n \in 1..Len(q) : q[n].does = "instr" /\ q[n].instr = starts[k].instr
  BY <1>1, <1>3 DEF StartsInv
<1>6. \/ ref.kind = "func" /\ ref.num \in 0..Declared(program) - 1
      \/ \E m \in 1..Len(q) : q[m].does = ref.kind /\ q[m].num = ref.num
  <2>1. q[n] \in ToSet(q) /\ \A t \in ToSet(q) : \E m \in 1..Len(q) : t = q[m]
    BY <1>4, <1>5 DEF ToSet
  <2>2. \/ Ref(q[n].instr).kind = "func" /\ Ref(q[n].instr).num \in 0..Declared(program) - 1
        \/ \E t \in ToSet(q) : t.does = Ref(q[n].instr).kind /\ t.num = Ref(q[n].instr).num
    <3>1. \A s \in ToSet(q) : s.does = "instr" /\ Ref(s.instr) # None =>
             \/ Ref(s.instr).kind = "func" /\ Ref(s.instr).num \in 0..Declared(program) - 1
             \/ \E t \in ToSet(q) : t.does = Ref(s.instr).kind /\ t.num = Ref(s.instr).num
      BY <1>2, MachineCodeAssumption, Zenon DEF IsProgram
    <3> QED BY <1>5, <2>1, <3>1, Zenon DEF HasRef
  <2> QED BY <1>5, <2>1, <2>2, Zenon
<1> HIDE DEF q, ref
<1>7. ref.kind = "func" => ref.num \in DOMAIN funcAddrs
  <2> SUFFICES ASSUME ref.kind = "func" PROVE ref.num \in DOMAIN funcAddrs
    OBVIOUS
  <2>1. CASE ref.num \in 0..Declared(program) - 1
    BY <1>1, <2>1, Zenon DEF AddressInv
  <2>2. CASE \E m \in 1..Len(q) : q[m].does = ref.kind /\ q[m].num = ref.num
    BY <1>1, <1>3, <2>2, Zenon DEF AddressInv, q
  <2> QED BY <1>6, <2>1, <2>2, Zenon
<1>8. ref.kind = "block" => ref.num \in DOMAIN blockAddrs
  <2> SUFFICES ASSUME ref.kind = "block" PROVE ref.num \in DOMAIN blockAddrs
    OBVIOUS
  <2>1. \E m \in 1..Len(q) : q[m].does = ref.kind /\ q[m].num = ref.num
    BY <1>6
  <2> QED BY <1>1, <1>3, <2>1, Zenon DEF AddressInv, q
<1>9. ref.kind = "func" => Near(funcAddrs[ref.num])
  BY <1>1, <1>7, Zenon DEF AddressInv
<1>10. ref.kind = "block" => Near(blockAddrs[ref.num])
  BY <1>1, <1>8, Zenon DEF AddressInv
<1>11. ref.kind \in {"func", "block"}
  BY DEF ref
<1> QED BY <1>9, <1>10, <1>11 DEF AddressOf, ref

(* Within the code the decoder reads the code.                              *)
LEMMA ByteOfCode == ASSUME NEW c, NEW x \in DOMAIN c PROVE Byte(c, x) = c[x]
  BY DEF Byte

(* In linked code every instruction is read as it is written, with a        *)
(* reference or without.                                                    *)
LEMMA LinkedIsRead ==
  ASSUME MachineCodeInv, stage = "linked", NEW k \in 1..Len(starts), ~Misencoded(starts[k].instr)
  PROVE  ReadsAs(code, starts[k].at, starts[k].instr, Args(starts[k].instr))
<1> DEFINE i == starts[k].instr
           at == starts[k].at
           e == Encode(i)
           end == EndOf(starts[k])
<1>1. TypeInv /\ TodoInv /\ StartsInv /\ BytesInv /\ RefsInv /\ todo = <<>> /\ patches = <<>>
  BY DEF MachineCodeInv, TodoInv
<1>2. at \in Nat /\ at >= 1 /\ IsInstr(i) /\ Len(e) \in Nat /\ (HasRef(starts[k]) => Len(e) >= 4)
  BY <1>1, StateFacts
<1>3. end = at + Len(e) /\ end <= Len(code) + 1
  BY <1>1, StateFacts DEF EndOf, StartsInv
<1>4. DOMAIN code = 1..Len(code) /\ Len(code) \in Nat /\ Len(code) <= Capacity
  BY <1>1, SequenceDomain DEF TypeInv
<1>5. ASSUME NEW j \in 1..Len(e), ~HasRef(starts[k]) \/ j <= Len(e) - 4
      PROVE  Byte(code, at + j - 1) = e[j]
  <2>1. code[at + j - 1] = e[j]
    BY <1>1, <1>5 DEF BytesInv
  <2>2. at + j - 1 \in DOMAIN code
    <3> HIDE DEF e, at, end
    <3> QED BY <1>2, <1>3, <1>4
  <2> QED BY <2>1, <2>2, ByteOfCode
<1>6. CASE Ref(i) = None
  <2>1. HasBytes(code, at, e)
    BY <1>5, <1>6 DEF HasBytes, HasRef
  <2>2. at \in Int
    BY <1>2
  <2> QED BY <1>2, <1>6, <2>1, <2>2, InstrReads
<1>7. CASE Ref(i) # None
  <2> DEFINE a == AddressOf(Ref(i))
             d == a - (end - 4 + 4)
  <2>1. HasRef(starts[k])
    BY <1>7 DEF HasRef
  <2>2. Near(a)
    <3>1. Ref(i).kind \in {"func", "block"}
      BY <1>2, <1>7, NamesWithReference
    <3> QED BY <1>1, <2>1, <3>1, ReferencesAreNear
  <2>3. end - 4 \in 1..Capacity /\ end \in Int
    <3>1. Capacity \in Nat
      BY CapacityIs
    <3> HIDE DEF e, at, end
    <3> QED BY <1>2, <1>3, <1>4, <2>1, <3>1
  <2>4. a \in Int /\ d \in Int32
    <3> HIDE DEF a, end
    <3> QED BY <2>2, <2>3, Zenon DEF Near
  <2>5. IsPatched(starts[k])
    <3>1. ~\E n \in 1..Len(patches) : patches[n] = PatchOf(starts[k])
      BY <1>1
    <3> QED BY <1>1, <2>1, <3>1 DEF RefsInv
  <2>6. PatchBytes(PatchOf(starts[k])) = LowBytes(d, 4)
    BY DEF PatchBytes, PatchOf
  <2>7. HasReference(code, at, e, d)
    <3>1. ASSUME NEW j \in 1..Len(e) - 4 PROVE Byte(code, at + j - 1) = e[j]
      <4>1. j \in 1..Len(e) /\ j <= Len(e) - 4
        BY <1>2
      <4> QED BY <1>5, <4>1
    <3>2. ASSUME NEW m \in 1..4 PROVE Byte(code, at + Len(e) - 5 + m) = LowBytes(d, 4)[m]
      <4>1. code[end - 5 + m] = LowBytes(d, 4)[m]
        BY <2>5, <2>6 DEF IsPatched
      <4>2. end - 5 + m \in DOMAIN code /\ at + Len(e) - 5 + m = end - 5 + m
        <5> HIDE DEF e, at, end
        <5> QED BY <1>2, <1>3, <1>4, <2>1
      <4> QED BY <4>1, <4>2, ByteOfCode
    <3> QED BY <3>1, <3>2 DEF HasReference
  <2>8. a = at + Len(e) + d
    <3> HIDE DEF a, e, at, end
    <3> QED BY <1>2, <1>3, <2>4
  <2>9. at \in Int
    BY <1>2
  <2> HIDE DEF d
  <2> QED BY <1>2, <1>7, <2>4, <2>7, <2>8, <2>9, ReferenceReads
<1> QED BY <1>6, <1>7

(* The invariant says what has to be shown of linked code.                  *)
LEMMA LinkedRunsAsWritten == MachineCodeInv => RunsAsWritten
<1> SUFFICES ASSUME MachineCodeInv, stage = "linked", NEW k \in DOMAIN starts, ~Misencoded(starts[k].instr)
             PROVE  LET read == Decode(code, starts[k].at)
                    IN  /\ read.op = starts[k].instr.name
                        /\ SameArgs(starts[k].instr.name, read.args, Args(starts[k].instr))
                        /\ read.next = IF k = Len(starts) THEN Here ELSE starts[k + 1].at
  BY Zenon DEF RunsAsWritten
<1>1. TypeInv /\ StartsInv
  BY DEF MachineCodeInv
<1>2. k \in 1..Len(starts)
  BY <1>1 DEF TypeInv
<1>3. ReadsAs(code, starts[k].at, starts[k].instr, Args(starts[k].instr))
  BY <1>2, LinkedIsRead
<1>4. EndOf(starts[k]) = IF k = Len(starts) THEN Here ELSE starts[k + 1].at
  BY <1>1, <1>2 DEF StartsInv
<1> QED BY <1>3, <1>4, Zenon DEF ReadsAs, EndOf

(* Code that is encoded and linked is read by the processor as the          *)
(* instructions of the program: RunsAsWritten in every state.               *)
THEOREM LinkedCodeIsRight == Spec => []RunsAsWritten
  BY MachineCodeIsInvariant, LinkedRunsAsWritten, PTL
=============================================================================
