----------------------------- MODULE LangTypes -----------------------------
(* The types of the language and the questions the type checker asks about  *)
(* them (src/lang/representation/types: info_builder.cc, types_util.cc).    *)
(*                                                                          *)
(* A type is a record: its kind, a name (of a basic, named or parameter     *)
(* type, the pointer's kind, the array's length, the fields of a struct,    *)
(* the methods of an interface), the types it is made of, the results of a  *)
(* signature or the generic type of an instance, and its type parameters.   *)
(* Types the code compares by address have names that are unique.           *)
EXTENDS Atomics

LangType(k, n, ts, rs, ps) == [k |-> k, n |-> n, ts |-> ts, rs |-> rs, ps |-> ps]
NoType           == LangType("none", "", <<>>, <<>>, <<>>)
Basic(n)         == LangType("basic", n, <<>>, <<>>, <<>>)
Pointer(kind, t) == LangType("pointer", kind, <<t>>, <<>>, <<>>)
Slice(t)         == LangType("slice", "", <<t>>, <<>>, <<>>)
Named(n, t)      == LangType("named", n, <<t>>, <<>>, <<>>)
Tuple(ts)        == LangType("tuple", "", ts, <<>>, <<>>)
Signature(ps, params, results) == LangType("signature", "", params, results, ps)

\* Basic::Kind, as the number of the enumerator.
BasicKinds == <<"bool", "int", "int8", "int16", "int32", "int64", "uint", "uint8", "uint16",
                "uint32", "uint64", "string", "untyped bool", "untyped int", "untyped rune",
                "untyped string", "untyped nil">>
KindNumber(n) == (CHOOSE i \in DOMAIN BasicKinds : BasicKinds[i] = n) - 1

\* The flags a predeclared type is created with.
UntypedBasics == {"untyped bool", "untyped int", "untyped rune", "untyped string", "untyped nil"}
BooleanBasics == {"bool", "untyped bool"}
UnsignedBasics == {"uint", "uint8", "uint16", "uint32", "uint64"}
IntegerBasics == UnsignedBasics \cup {"int", "int8", "int16", "int32", "int64",
                                      "untyped int", "untyped rune"}
StringBasics  == {"string", "untyped string"}
IsUntyped(t) == t.k = "basic" /\ t.n \in UntypedBasics

ConvertIfUntyped(n) ==
  CASE n \notin UntypedBasics -> n
    [] n = "untyped bool" -> "bool"
    [] n = "untyped int" -> "int"
    [] n = "untyped rune" -> "int32"
    [] n = "untyped string" -> "string"
    [] n = "untyped nil" -> "fail"

IntTypeOf(n) ==
  CASE n = "int8" -> "i8" [] n = "int16" -> "i16" [] n = "int32" -> "i32"
    [] n \in {"int", "int64", "untyped int"} -> "i64"
    [] n = "uint8" -> "u8" [] n = "uint16" -> "u16" [] n = "uint32" -> "u32"
    [] n \in {"uint", "uint64"} -> "u64"
    [] OTHER -> "fail"

ConvertUntypedValue(c, n) ==
  CASE c.k = "bool" -> IF n = "bool" THEN c ELSE Failed
    [] c.k = "int" ->
         IF IntTypeOf(n) = "fail" \/ n = "untyped int" THEN Failed
         ELSE IntConst(IntTypeOf(n), Cast(IntTypeOf(n), c.v))
    [] c.k = "string" -> IF n = "string" THEN c ELSE Failed

\* InfoBuilder::InstantiateType: the type with its parameters replaced.
RECURSIVE Instantiate(_, _)
InstantiateAll(ts, args) == [i \in DOMAIN ts |-> Instantiate(ts[i], args)]
Instantiate(t, args) ==
  IF t.k = "typeparam" THEN args[t.n]
  ELSE IF t.k \in {"basic", "named", "alias"} THEN t
  ELSE IF t.k = "instance" THEN [t EXCEPT !.ts = InstantiateAll(@, args)]
  ELSE [t EXCEPT !.ts = InstantiateAll(@, args), !.rs = InstantiateAll(@, args)]

ArgsFor(params, ts) ==
  [n \in {params[i].n : i \in DOMAIN params} |->
     ts[CHOOSE i \in DOMAIN params : params[i].n = n]]

UnderlyingOf(t) ==
  CASE t.k \in {"typeparam", "named", "alias"} -> t.ts[1]
    [] t.k = "instance" /\ t.rs[1].ps = <<>> -> t.rs[1].ts[1]
    [] t.k = "instance" /\ t.rs[1].ps # <<>> ->
         Instantiate(t.rs[1].ts[1], ArgsFor(t.rs[1].ps, t.ts))
    [] OTHER -> t

ResolveAlias(t) == IF t.k = "alias" THEN t.ts[1] ELSE t

RECURSIVE IsIdentical(_, _)
AllIdentical(as, bs) ==
  Len(as) = Len(bs) /\ \A i \in DOMAIN as : IsIdentical(as[i], bs[i])
SameParts(a, b) ==
  /\ a.k = b.k /\ a.n = b.n /\ a.ps = b.ps
  /\ a.k \notin {"basic", "typeparam", "named"}
  /\ AllIdentical(a.ts \o a.rs, b.ts \o b.rs)
  /\ Len(a.rs) = Len(b.rs)
EitherIdentical(a, b) ==
  \/ a = b
  \/ a.k = "typeparam" /\ b.k = "interface" /\ IsIdentical(a.ts[1], b)
  \/ a.k = "interface" /\ b.k = "typeparam" /\ IsIdentical(a, b.ts[1])
  \/ SameParts(a, b)
IsIdentical(a, b) == EitherIdentical(ResolveAlias(a), ResolveAlias(b))

\* A named type implements every interface: the comparison is not written.
ImplementsInterface(impl, interface) ==
  \/ interface.ts = <<>>
  \/ impl.k \in {"named", "alias", "instance"}
  \/ impl.k = "interface" /\ IsIdentical(impl, interface)
  \/ impl.k = "typeparam" /\ IsIdentical(impl.ts[1], interface)
Implements(impl, t) ==
  UnderlyingOf(t).k = "interface" /\ ImplementsInterface(impl, UnderlyingOf(t))

Declared == {"typeparam", "named", "alias", "instance"}

\* What a constant without a type may become; nil becomes anything that can
\* be without a value.
UntypedFits(src, dst) ==
  CASE src.n = "untyped nil" -> dst.k \in {"pointer", "slice", "typeparam", "signature", "interface"}
    [] src.n = "untyped bool" -> dst.k = "basic" /\ dst.n \in BooleanBasics
    [] src.n \in {"untyped int", "untyped rune"} -> dst.k = "basic" /\ dst.n \in IntegerBasics
    [] src.n = "untyped string" -> dst.k = "basic" /\ dst.n \in StringBasics
    [] OTHER -> FALSE

IsAssignableTo(src, dst) ==
  \/ IsIdentical(src, dst)
  \/ /\ src.k \notin Declared \/ dst.k \notin Declared
     /\ IsIdentical(UnderlyingOf(src), UnderlyingOf(dst))
  \/ Implements(src, dst)
  \/ src.k = "basic" /\ UntypedFits(src, dst)
=============================================================================
