----------------------- MODULE MCRegisterAllocation -----------------------
(* Families of small functions for RegisterAllocation.                     *)
EXTENDS RegisterAllocation

Op(defs, uses) == [op |-> "op", defs |-> defs, uses |-> uses, to |-> {}]
Phi(d, from) == [op |-> "phi", defs |-> <<d>>, uses |-> <<>>, from |-> from, to |-> {}]
Jump(c) == [op |-> "jump", defs |-> <<>>, uses |-> <<>>, to |-> {c}]
Cond(v, t, e) == [op |-> "cond", defs |-> <<>>, uses |-> <<v>>, to |-> {t, e}]
Ret(uses) == [op |-> "ret", defs |-> <<>>, uses |-> uses, to |-> {}]

\* A call with two results between an instruction and the return.
StraightLine ==
  {[args |-> <<1, 2>>,
    blocks |-> << <<Op(<<3>>, u), Op(<<4, 5>>, w), Ret(r)>> >>] :
      u \in {<<1>>, <<1, 2>>}, w \in {<<>>, <<3, 0>>},
      r \in {<<>>, <<3>>} \cup {<<a, b>> : a \in {2, 3, 4}, b \in {1, 4, 5}}}

\* Four arguments: the registers of the last two are wanted by others.
ManyArgs ==
  {[args |-> <<1, 2, 3, 4>>,
    blocks |-> << <<Op(<<5>>, <<a>>), Op(<<6>>, <<5, b>>), Ret(<<6, 5>>)>> >>] :
      a \in {1, 4}, b \in {1, 3}}

\* A value chosen by a branch, with a value defined before it.
Diamond ==
  {[args |-> <<1, 2>>,
    blocks |-> << <<Op(<<3>>, <<1>>), Cond(1, 2, 3)>>, <<Op(<<4>>, u), Jump(4)>>, <<Jump(4)>>,
                  <<Phi(5, [b \in {2, 3} |-> IF b = 2 THEN s ELSE t]), Ret(<<5, r>>)>> >>] :
      u \in {<<2>>, <<3>>}, s \in {0, 2, 3, 4}, t \in {0, 1, 3}, r \in {1, 2, 3}}

\* One branch only: the edge from block 1 to block 3 is critical.
Triangle ==
  {[args |-> <<1, 2>>,
    blocks |-> << <<Cond(1, 2, 3)>>, <<Op(<<3>>, <<2>>), Jump(3)>>,
                  <<Phi(4, [b \in {1, 2} |-> IF b = 1 THEN s ELSE 3]), Ret(r)>> >>] :
      s \in {0, 2}, r \in {<<1>>, <<4>>, <<2, 4>>}}

\* Two values carried around a loop.
Loop ==
  {[args |-> <<1, 2>>,
    blocks |-> << <<Jump(2)>>,
                  <<Phi(3, [b \in {1, 3} |-> IF b = 1 THEN 1 ELSE s]),
                    Phi(4, [b \in {1, 3} |-> IF b = 1 THEN 2 ELSE t]), Cond(u, 3, 4)>>,
                  <<Op(<<5>>, <<v>>), Jump(2)>>,
                  <<Ret(r)>> >>] :
      s \in {0, 3, 4, 5}, t \in {2, 3, 4, 5}, u \in {1, 3}, v \in {3, 4}, r \in {<<3>>, <<2, 4>>}}

\* A block that is its own parent, without a phi, and with one or two.
SelfLoop ==
  {[args |-> <<1, 2>>,
    blocks |-> << <<Jump(2)>>, phis \o <<Op(<<3>>, <<u>>), end>>, <<Ret(<<r, 1>>)>> >>] :
      phis \in {<<>>, <<Phi(4, [b \in {1, 2} |-> b])>>,
               <<Phi(4, [b \in {1, 2} |-> 1]), Phi(5, [b \in {1, 2} |-> IF b = 1 THEN 2 ELSE 3])>>},
      u \in {1, 2}, end \in {Cond(3, 2, 3), Jump(2)}, r \in {2, 3}}

\* Two nested loops: the value of the outer one is live through the inner one.
Nested ==
  {[args |-> <<1>>,
    blocks |-> << <<Op(<<2>>, <<1>>), Jump(2)>>, <<Op(<<3>>, <<u>>), Jump(3)>>,
                  <<Op(<<4>>, <<3>>), Cond(v, 3, 4)>>, <<Cond(3, 2, 5)>>, <<Ret(<<r>>)>> >>] :
      u \in {1, 2}, v \in {2, 4}, r \in {1, 2, 4}}

AllFuncs == StraightLine \cup ManyArgs \cup Diamond \cup Triangle \cup Loop \cup SelfLoop \cup Nested
=============================================================================
