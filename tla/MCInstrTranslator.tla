------------------------- MODULE MCInstrTranslator -------------------------
(* Instructions for InstrTranslator: five registers (two of them saved by  *)
(* callees) and two slots of the frame.                                    *)
EXTENDS InstrTranslator

MCArgColors == <<1, 2>>
MCResultColors == <<0, 2>>

Instr(op, sz, signed, a, b, args, results, va, vb, through, extra) ==
  [op |-> op, sz |-> sz, signed |-> signed, a |-> a, b |-> b, args |-> args, results |-> results,
   va |-> va, vb |-> vb, through |-> through, extra |-> extra]

Throughs == {{}, {1}, Regs, Colors}
Extras == {{}, {0, 2}}
Placed == {Val(c) : c \in {0, 1, 5, 6}}

\* Equal operands have equal values, constants their own.
Consistent(a, b, va, vb, sz) ==
  /\ a = b => va = vb
  /\ a.k = "const" => va = Low(a.v, sz)
  /\ b.k = "const" => vb = Low(b.v, sz)

Binary(ops, sz, signed, consts, vs, results) ==
  {Instr(op, sz, signed, p[1], p[2], <<>>, <<r>>, v[1], v[2], t \ {r}, e) :
     op \in ops, r \in results, t \in Throughs, e \in Extras,
     <<p, v>> \in {x \in (((Placed \cup consts) \X (Placed \cup consts)) \X vs) :
                     /\ x[1][1].k = "val" \/ x[1][2].k = "val"
                     /\ Consistent(x[1][1], x[1][2], x[2][1], x[2][2], sz)}}

Unary(ops, sz, as, vs, results) ==
  {Instr(op, sz, TRUE, x[1], Const(0), <<>>, <<r>>, x[2], 0, t \ {r}, e) :
     op \in ops, r \in results, t \in Throughs, e \in Extras,
     x \in {x \in as \X vs : x[1].k = "const" => x[1].v = x[2]}}

Bools == {0, 1}
Places == {0, 5}

IntCases ==
  Binary({"lss", "geq", "add", "sub", "mul"}, 64, TRUE, {Const(6), Const(14)}, {<<6, 11>>, <<11, 14>>, <<14, 14>>, <<6, 6>>}, Places)
  \cup Binary({"gtr", "sub"}, 64, FALSE, {Const(2), Const(9), Const(1)}, {<<2, 11>>, <<11, 1>>, <<9, 9>>, <<9, 3>>}, Places)
  \cup Binary({"leq", "xor", "sub"}, 32, FALSE, {Const(3)}, {<<1, 2>>, <<3, 3>>, <<3, 1>>, <<2, 3>>}, Places)
  \cup Binary({"mul", "add"}, 8, TRUE, {Const(3)}, {<<1, 3>>, <<3, 2>>}, Places)
  \cup Unary({"not", "neg"}, 64, Placed, {6, 11}, Places)

BoolCases ==
  Binary({"bool_eq", "bool_neq", "bool_and", "bool_or"}, 8, FALSE, {}, Bools \X Bools, Places)
  \cup Unary({"bool_not"}, 8, Placed, Bools, Places)
  \cup {Instr("jumpcond", 8, FALSE, a, Const(0), <<>>, <<>>, v, 0, {}, {}) : a \in Placed, v \in Bools}
  \cup {Instr("jumpcond", 8, FALSE, Const(v), Const(0), <<>>, <<>>, v, 0, {}, {}) : v \in Bools}

PointerCases ==
  Binary({"offset"}, 64, TRUE, {Const(6), Const(1)}, {<<2, 6>>, <<3, 1>>, <<2, 11>>}, Places)
  \cup Unary({"niltest"}, 64, Placed, {0, 9}, Places)
  \cup UNION {Unary({"load"}, sz, Placed \cup {Const(v) : v \in {0, 1, 6, 14}}, {0, 1, 2, 6, 9, 14}, Places) : sz \in {64, 32}}
  \cup {[i EXCEPT !.results = <<>>] :
          i \in Binary({"store"}, 64, TRUE, {Const(6), Const(1)}, {<<2, 6>>, <<3, 1>>, <<2, 11>>, <<1, 6>>, <<6, 11>>}, {0})}

MovCases ==
  Unary({"mov"}, 64, Placed, {6, 13}, Places)
  \cup {Instr("mov", 64, s, Const(v), Const(0), <<>>, <<r>>, v, 0, {}, {}) :
          s \in BOOLEAN, v \in {1, 2, 6, 14}, r \in Places}

CallArgs == {<<>>} \cup {<<x>> : x \in {Val(1), Val(2), Const(6)}}
                   \cup {<<x, y>> : x, y \in {Val(0), Val(1), Val(2), Const(6)}}
CallCases ==
  {Instr("call", 64, TRUE, f, Const(0), args, rs, IF f.k = "val" THEN 13 ELSE f.v, 0, t \ ToSet(rs), {}) :
     f \in {Const(9), Val(1), Val(3), Val(5)}, args \in CallArgs,
     rs \in {<<>>, <<0>>, <<1>>, <<1, 0>>, <<2, 5>>}, t \in Throughs}
ReturnCases ==
  {Instr("return", 64, TRUE, Const(0), Const(0), args, <<>>, 0, 0, {}, {}) :
     args \in {<<x>> : x \in Placed \cup {Const(6)}}
              \cup {<<x, y>> : x, y \in Placed \cup {Val(2), Const(6)}}}
FrameCases ==
  {Instr("frame", 64, TRUE, Const(0), Const(0), <<>>, rs, 0, 0, {}, used) :
     used \in SUBSET {3, 4}, rs \in {<<>>, <<5>>, <<6>>}}

AllCases ==
  IntCases \cup BoolCases \cup PointerCases \cup MovCases \cup CallCases \cup ReturnCases \cup FrameCases
=============================================================================
