------------------------------ MODULE MCIrText ------------------------------
(***************************************************************************)
(* Functions with every instruction of the format once or a few times,     *)
(* and pairs of blocks of which one defines the value that another uses.   *)
(***************************************************************************)
EXTENDS IrFile

LOCAL Ty(name) == Basic(name)
Shared(t, strong) == [k |-> "lshared_ptr", of |-> t, strong |-> strong]
Unique(t) == [k |-> "lunique_ptr", of |-> t]
Struct(fields) == [k |-> "lstruct", fields |-> fields]
Array(t, n) == [k |-> "larray", of |-> t, count |-> n]
Interface(methods) == [k |-> "linterface", methods |-> methods]
Method(params) == [name |-> "m", params |-> params, results |-> <<>>]

MCTypes ==
  {Ty("b"), Ty("i8"), Ty("u8"), Ty("i64"), Ty("ptr"), Ty("func"), Ty("lstr"),
   Shared(Ty("i64"), TRUE), Shared(Unique(Ty("i8")), FALSE), Unique(Struct(<<>>)),
   Struct(<<[name |-> "a", type |-> Array(Ty("i8"), -1)], [name |-> "b", type |-> Ty("ptr")]>>),
   Array(Ty("i64"), 3), Interface(<<>>), Interface(<<Method(<<>>), Method(<<>>)>>),
   Interface(<<Method(<<Ty("i8")>>)>>)}

IntC(n, t) == Constant("int", n, Ty(t))
Bool(b) == Constant("bool", b, Ty("b"))
Ptr(n) == Constant("pointer", n, Ty("ptr"))
Fun(n) == Constant("func", n, Ty("func"))
Text(s) == Constant("string", s, Ty("lstr"))

Arg == Computed(0, Ty("i64"))
Sh == Shared(Ty("i64"), TRUE)
Args == <<Arg, Computed(1, Ty("ptr")), Computed(2, Ty("b")), Computed(3, Sh)>>

R(t) == <<Computed(6, t)>>
I(op, results, args) == [op |-> op, results |-> results, args |-> args, blocks |-> <<>>]
J(op, args, blocks) == [op |-> op, results |-> <<>>, args |-> args, blocks |-> blocks]

\* Instructions that use the value x of type t, each use that the format has for t
Users(x) ==
  LET t == x.type IN
  {J("ret", <<x>>, <<>>), I("mov", R(t), <<x>>),
   I("call", <<>>, <<Fun(1), x>>), I("store", <<>>, <<Ptr(0), x>>)}
  \cup IF t = Ty("i64")
       THEN {I("iadd", R(t), <<x, IntC(1, "i64")>>), I("ineg", R(t), <<x>>), I("malloc", R(Ty("ptr")), <<x>>),
             I("ilss", R(Ty("b")), <<IntC(1, "i64"), x>>), I("ilss", R(Ty("b")), <<x, IntC(1, "i64")>>),
             I("ishl", R(t), <<x, IntC(1, "u8")>>), I("syscall", R(t), <<x, x>>), I("conv", R(Ty("i8")), <<x>>)}
       ELSE IF t = Ty("i8") THEN {I("isub", R(t), <<IntC(-1, "i8"), x>>)}
       ELSE IF t = Ty("b") THEN {I("bnot", R(t), <<x>>), I("band", R(t), <<Bool(TRUE), x>>)}
       ELSE IF t = Ty("ptr") THEN {I("load", R(Ty("i8")), <<x>>), I("free", <<>>, <<x>>),
                                   I("niltest", R(Ty("b")), <<x>>),
                                   I("poff", R(t), <<x, IntC(8, "i64")>>)}
       ELSE IF t = Ty("func") THEN {I("call", <<Computed(6, t), Computed(7, Ty("b"))>>, <<x>>)}
       ELSE IF t = Ty("lstr") THEN {I("str_cat", R(t), <<Text("abc"), x>>),
                                    I("str_index", R(Ty("i8")), <<x, IntC(0, "i64")>>),
                                    J("panic", <<x>>, <<>>)}
       ELSE IF t.k = "lshared_ptr" THEN {I("delete_shared", <<>>, <<x>>),
                                         I("copy_shared", R(Shared(t.of, FALSE)), <<x, IntC(0, "i64")>>)}
       ELSE IF t.k = "lunique_ptr" THEN {I("delete_unique", <<>>, <<x>>)}
       ELSE {}

\* Instructions without a use of a computed value, among them ones with a string
Makers ==
  {I("mov", R(Ty("u8")), <<IntC(200, "u8")>>), I("mov", R(Ty("b")), <<Bool(FALSE)>>),
   I("mov", R(Ty("ptr")), <<Ptr(1)>>), I("mov", R(Ty("func")), <<Fun(0)>>), I("mov", R(Ty("lstr")), <<Text("abc")>>),
   I("mov", R(Ty("lstr")), <<Text("abcd")>>), I("make_shared", R(Sh), <<IntC(1, "i64")>>),
   I("make_unique", R(Unique(Ty("i8"))), <<IntC(1, "i64")>>), I("call", <<>>, <<Fun(0)>>),
   I("call", <<>>, <<Fun(0), Text("abc")>>), I("str_index", R(Ty("i8")), <<Text("abc"), IntC(0, "i64")>>)}

Fn(name, entry, blocks) ==
  [num |-> 0, name |-> name, args |-> Args, results |-> <<Ty("i64"), Sh>>, entry |-> entry, blocks |-> blocks]
Blk(n, name, instrs) == [num |-> n, name |-> name, instrs |-> instrs]
Ret == J("ret", <<>>, <<>>)

UsersOfArgs == UNION {Users(Args[i]) : i \in DOMAIN Args}

OneBlock(name, instr) == Fn(name, 0, <<Blk(0, "", <<instr, Ret>>)>>)

\* A value of type t is computed in block d and used in block u.
Loaded(t) == I("load", <<Computed(5, t)>>, <<Ptr(8)>>)
DefUse(d, u, t, user) ==
  Fn("main", 0, <<Blk(0, "entry", <<J("jmp", <<>>, <<d>>)>>), Blk(d, "", <<Loaded(t), J("jmp", <<>>, <<u>>)>>),
                  Blk(u, "exit", <<user, J("jcc", <<Args[3]>>, <<0, u>>)>>)>>)
MCDefUse == UNION {{DefUse(d, 3 - d, t, user) : user \in Users(Computed(5, t)), d \in {1, 2}} : t \in MCTypes}

MCEdited ==
  {OneBlock("", i) : i \in UsersOfArgs \cup Makers}
  \cup {DefUse(1, 2, Ty("i8"), I("isub", R(Ty("i8")), <<IntC(-1, "i8"), Computed(5, Ty("i8"))>>))}

MCOthers ==
  {OneBlock("", I("store", <<>>, <<Ptr(0), Text(s)>>)) : s \in {"", "a\\b", "\\", "a\"b", "\"", "\"\""}} \cup
  {Fn("", 0, <<Blk(0, "", <<J("jmp", <<>>, <<1>>)>>),
              Blk(1, "", <<[op |-> "phi", results |-> R(Ty("i64")), args |-> <<Arg, IntC(0, "i64")>>, blocks |-> <<0, 1>>],
                           J("jmp", <<>>, <<1>>)>>)>>),
   Fn("", 1, <<Blk(1, "", <<J("jmp", <<>>, <<0>>)>>), Blk(0, "", <<Ret>>)>>)}

MCFuncs == MCEdited \cup MCDefUse \cup MCOthers
\* Single tokens, and types as they are given to a value
MCSpares ==
  {<<t>> : t \in {Tok(","), Tok(":"), Tok("%"), Tok("{"), Tok("}"), Tok("NL"), Tok("("), Id("ret"), Id("i8"),
                  Id("b"), Id("lstr"), Num(1), Num(300)}}
  \cup {<<Tok(":"), Id("i8")>>,
        <<Tok(":"), Id("lunique_ptr"), Tok("<"), Id("i8"), Tok(">")>>,
        <<Tok(":"), Id("lunique_ptr"), Tok("<"), Tok(">")>>,
        <<Id("lshared_ptr"), Tok("<"), Tok(","), Id("s"), Tok(">")>>}
MCOffsets == {0, 2}

ScrapLength == 4
ScrapChars == {"a", "x", "_", "0", "-", "=", ">", "\"", "\\", " ", "\n", "#"}
RECURSIVE ScrapsUpTo(_)
ScrapsUpTo(n) ==
  IF n = 0 THEN {""} ELSE {""} \cup {c \o rest : c \in ScrapChars, rest \in ScrapsUpTo(n - 1)}
MCScraps == ScrapsUpTo(ScrapLength) \ {""}
=============================================================================
