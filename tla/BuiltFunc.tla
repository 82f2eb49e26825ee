----------------------------- MODULE BuiltFunc -----------------------------
(* What becomes of a built function: the checks of the IR                   *)
(* (src/ir/check, src/lang/processors/ir/check) and its execution           *)
(* (src/ir/interpreter).                                                    *)
(*                                                                          *)
(* The instructions for shared pointers are executed as the runtime's       *)
(* functions do it: the owners of an object are counted, and when the last  *)
(* one is deleted the object is destroyed and so is a pointer in it.  The   *)
(* functions that are called add themselves to a trace and answer at once.  *)
(* Whether a definition dominates a use is answered by the graph; how the   *)
(* code finds dominators is the subject of DominatorTree.                   *)
EXTENDS Atomics, FiniteSets

CONSTANT MaxSteps       \* the number of instructions a run may execute

BlocksOf(f) == DOMAIN f.blocks
ParentsOf(f, b) == {e[1] : e \in {d \in f.edges : d[2] = b}}
ChildrenOf(f, b) == {e[2] : e \in {d \in f.edges : d[1] = b}}
LastOf(instrs) == instrs[Len(instrs)]

----------------------------------------------------------------------------
(* Definitions and uses.                                                    *)
RECURSIVE ReachedFrom(_, _, _)
ReachedFrom(f, bs, without) ==
  LET more == {e[2] : e \in {d \in f.edges : d[1] \in bs}} \ (bs \cup without) IN
  IF more = {} THEN bs ELSE ReachedFrom(f, bs \cup more, without)
Reached(f) == ReachedFrom(f, {1}, {})
DominatesBlock(f, a, b) == a = b \/ (b \in Reached(f) /\ b \notin ReachedFrom(f, {1} \ {a}, {a}))

Places(f) == UNION {{<<b, i>> : i \in DOMAIN f.blocks[b]} : b \in BlocksOf(f)}
At(f, p) == f.blocks[p[1]][p[2]]
\* Where each computed value is defined: <<number, place>>.
Definitions(f) ==
  UNION {{<<At(f, p).res[i].n, p>> : i \in DOMAIN At(f, p).res} : p \in Places(f)}
ArgNumbers(f) == {f.args[i].n : i \in DOMAIN f.args}
\* A phi uses a value at the end of the block it is inherited from.
UsePlace(f, p, i) ==
  IF At(f, p).op = "phi" THEN <<At(f, p).dst[i], Len(f.blocks[At(f, p).dst[i]]) + 1>> ELSE p
UsesAt(f, p) ==
  {<<At(f, p).args[i].n, UsePlace(f, p, i)>> :
     i \in {j \in DOMAIN At(f, p).args : At(f, p).args[j].k = "computed"}}
DominatesUse(f, at, use) ==
  IF at[1] = use[1] THEN at[2] < use[2] ELSE DominatesBlock(f, at[1], use[1])

CheckUse(f, defs, use) ==
  \/ use[1] \in ArgNumbers(f)
  \/ \E d \in defs : d[1] = use[1] /\ DominatesUse(f, d[2], use[2])
CheckUses(f, defs) ==
  \A p \in Places(f) : \A use \in UsesAt(f, p) : CheckUse(f, defs, use)
CheckValuesInFunc(f) == CheckUses(f, Definitions(f))
\* No value has two definitions: the builder never uses a number again.

(* The dominator tree is needed for a value used outside of the block of    *)
(* its definition; it is not found where a block that is not reached leads  *)
(* to one that is.                                                          *)
NeedsDominators(f) ==
  \E d \in Definitions(f) : \E p \in Places(f) : \E u \in UsesAt(f, p) :
    d[1] = u[1] /\ d[2][1] # u[2][1]
TreeFails(f) ==
  LET reached == Reached(f) IN \E e \in f.edges : e[1] \notin reached /\ e[2] \in reached

----------------------------------------------------------------------------
(* Instructions.  CheckInstr leaves an instruction with a null operand,     *)
(* which is an issue of its own.                                            *)
Types(vs) == [i \in DOMAIN vs |-> vs[i].t]
IsInt(t) == t[1] \in IntTypes
IsPointer(t) == t[1] \in {"strong", "weak"}
IsConvertible(t) == t[1] \in IntTypes \cup {"bool", "ptr", "func"}
IsNilPointer(v) == v.k = "nil"

CheckPhi(f, b, i) ==
  /\ {i.dst[j] : j \in DOMAIN i.dst} = ParentsOf(f, b)
  /\ Len(i.dst) = Cardinality(ParentsOf(f, b)) /\ Len(i.dst) >= 2
  /\ \A j \in DOMAIN i.args : i.args[j].t = i.res[1].t
CheckCall(i, signatures) ==
  /\ i.args[1].t = <<"func">>
  /\ i.args[1].k = "func" =>
       /\ i.args[1].n \in DOMAIN signatures
       /\ Types(Tail(i.args)) = signatures[i.args[1].n].args
       /\ Types(i.res) = signatures[i.args[1].n].results
CheckLoad(i) ==
  IF IsPointer(i.args[1].t) THEN Tail(i.args[1].t) = i.res[1].t ELSE i.args[1].t = <<"ptr">>
CheckStore(i) ==
  IF IsPointer(i.args[1].t) THEN IsNilPointer(i.args[2]) \/ Tail(i.args[1].t) = i.args[2].t
  ELSE i.args[1].t = <<"ptr">>
CheckCopy(i) ==
  /\ IsPointer(i.res[1].t) /\ IsPointer(i.args[1].t)
  /\ Tail(i.res[1].t) = Tail(i.args[1].t)
  /\ i.res[1].t[1] = "strong" => i.args[1].t[1] = "strong"

CheckInstr(f, b, i, signatures) ==
  CASE i.op = "phi" -> CheckPhi(f, b, i)
    [] i.op = "convert" -> IsConvertible(i.args[1].t) /\ IsConvertible(i.res[1].t)
    [] i.op \in {"bool_not", "bool_binary"} -> \A j \in DOMAIN i.args : i.args[j].t = <<"bool">>
    [] i.op = "int_unary" -> IsInt(i.args[1].t)
    [] i.op = "int_compare" -> IsInt(i.args[1].t) /\ i.args[1].t = i.args[2].t
    [] i.op = "int_binary" ->
         /\ IsInt(i.args[1].t)
         /\ i.args[1].t = i.args[2].t /\ i.res[1].t = i.args[1].t
    [] i.op = "int_shift" ->
         /\ IsInt(i.args[1].t) /\ IsInt(i.args[2].t)
         /\ i.res[1].t = i.args[1].t
    [] i.op = "make" -> i.res[1].t[1] = "strong"
    [] i.op = "copy" -> CheckCopy(i)
    [] i.op = "delete" -> IsPointer(i.args[1].t)
    [] i.op = "load" -> CheckLoad(i)
    [] i.op = "store" -> CheckStore(i)
    [] i.op = "string_index" ->
         i.res[1].t = <<"i8">> /\ i.args[1].t = <<"string">> /\ i.args[2].t = <<"i64">>
    [] i.op = "concat" -> \A j \in DOMAIN i.args : i.args[j].t = <<"string">>
    [] i.op = "jump" -> ChildrenOf(f, b) = {i.dst[1]}
    [] i.op = "jump_cond" ->
         /\ i.args[1].t = <<"bool">>
         /\ i.dst[1] # i.dst[2] /\ ChildrenOf(f, b) = {i.dst[1], i.dst[2]}
    [] i.op = "call" -> CheckCall(i, signatures)
    [] i.op = "return" -> ChildrenOf(f, b) = {} /\ Types(i.args) = f.results

IsControlFlow(i) == i.op \in {"jump", "jump_cond", "return"}
CheckBlock(f, b, signatures) ==
  LET instrs == f.blocks[b] IN
  /\ (b = 1) = (ParentsOf(f, b) = {})
  /\ instrs # <<>> /\ IsControlFlow(LastOf(instrs))
  /\ \A i \in DOMAIN instrs :
       /\ IsControlFlow(instrs[i]) => i = Len(instrs)
       /\ instrs[i].op = "phi" => \A j \in 1..i : instrs[j].op = "phi"
       /\ \A j \in DOMAIN instrs[i].args : instrs[i].args[j].k # "null"
       /\ CheckInstr(f, b, instrs[i], signatures)

\* What the check finds: the program ends, there are issues, or there are none.
CheckFunc(f, signatures) ==
  IF NeedsDominators(f) /\ TreeFails(f) THEN "crash"
  ELSE IF CheckValuesInFunc(f) /\ \A b \in BlocksOf(f) : CheckBlock(f, b, signatures) THEN "ok"
  ELSE "issues"

----------------------------------------------------------------------------
(* Execution.  m holds the values computed, the objects, where the          *)
(* execution is, the calls made, and how it ended with which results.       *)
Object0(t) == [t |-> t, owners |-> 1, v |-> 0]
Machine(f, regs, objects) ==
  [f |-> f, regs |-> regs, objects |-> objects, block |-> 1, before |-> 0, index |-> 1,
   trace |-> <<>>, steps |-> 0, out |-> "runs", results |-> <<>>]
Stop(m, why) == [m EXCEPT !.out = why]
Evaluate(m, v) == IF v.k = "computed" THEN m.regs[v.n] ELSE v.n
Advance(m) == [m EXCEPT !.index = @ + 1]
Set(m, i, x) == [Advance(m) EXCEPT !.regs[i.res[1].n] = x]
GoTo(m, b) == [m EXCEPT !.before = m.block, !.block = b, !.index = 1]

\* An access to an object through a pointer.
Access(m, p) ==
  CASE p = 0 -> Stop(m, "nil")
    [] p # 0 /\ m.objects[p].owners = 0 -> Stop(m, "freed")
    [] OTHER -> m
RECURSIVE DeleteShared(_, _, _)
DestroyElement(m, p, t) ==
  IF m.objects[p].owners > 0 \/ ~IsPointer(t) THEN m ELSE DeleteShared(m, m.objects[p].v, Tail(t))
DeleteShared(m, p, t) ==
  CASE p = 0 -> m
    [] p # 0 /\ m.objects[p].owners = 0 -> Stop(m, "freed")
    [] OTHER -> DestroyElement([m EXCEPT !.objects[p].owners = @ - 1], p, t)

ExecuteMake(m, i) ==
  Set([m EXCEPT !.objects = Append(@, Object0(Tail(i.res[1].t)))], i, Len(m.objects) + 1)
ExecuteCopy(m, i, p) ==
  LET accessed == Access(m, p) IN
  IF accessed.out # "runs" THEN accessed ELSE Set([m EXCEPT !.objects[p].owners = @ + 1], i, p)
ExecuteLoad(m, i, p) ==
  LET accessed == Access(m, p) IN
  IF accessed.out # "runs" THEN accessed ELSE Set(m, i, m.objects[p].v)
ExecuteStore(m, p, x) ==
  LET accessed == Access(m, p) IN
  IF accessed.out # "runs" THEN accessed ELSE Advance([m EXCEPT !.objects[p].v = x])

\* The conversions the interpreter supports, of Booleans and integers to
\* integers that can hold them, and of integers to Booleans.
ExecuteConversion(m, i, from, x, to) ==
  CASE IsInt(<<from>>) /\ IsInt(<<to>>) ->
         IF CanConvertTo(from, x, to) THEN Set(m, i, Cast(to, x)) ELSE Stop(m, "failed")
    [] from = "bool" /\ IsInt(<<to>>) -> Set(m, i, BoolConvertTo(x))
    [] IsInt(<<from>>) /\ to = "bool" -> Set(m, i, IsTrue(x # 0))
    [] OTHER -> Stop(m, "unsupported")
ExecutePhi(m, i) ==
  LET from == {j \in DOMAIN i.dst : i.dst[j] = m.before} IN
  IF from = {} THEN Stop(m, "failed") ELSE Set(m, i, Evaluate(m, i.args[CHOOSE j \in from : TRUE]))
ExecuteIntBinary(m, i, t, a, b) ==
  IF Traps(i.name, t, a, b) THEN Stop(m, "trap") ELSE Set(m, i, IntCompute(i.name, t, a, b))
ExecuteIntShift(m, i, t, a, b) ==
  IF ShiftDefined(t, b) THEN Set(m, i, IntShift(i.name, t, a, b)) ELSE Stop(m, "undefined")

\* What the called functions answer: the first adds one, the second negates,
\* the third has two results, the last none.
Answer(n, args) ==
  CASE n = 1 -> <<Cast("i8", args[1] + 1)>>
    [] n = 2 -> <<1 - args[1]>>
    [] n = 3 -> <<2, 1>>
    [] n = 4 -> <<>>
RECURSIVE SetAll(_, _, _)
SetAll(m, res, xs) ==
  IF res = <<>> THEN m ELSE SetAll([m EXCEPT !.regs[Head(res).n] = Head(xs)], Tail(res), Tail(xs))
ExecuteCall(m, i, n, args) ==
  IF n = 0 THEN Stop(m, "nil")
  ELSE SetAll([Advance(m) EXCEPT !.trace = Append(@, <<n, args>>)], i.res, Answer(n, args))
Evaluated(m, vs) == [j \in DOMAIN vs |-> Evaluate(m, vs[j])] \o <<>>

ExecuteInstr(m, i) ==
  LET X(j) == Evaluate(m, i.args[j]) IN
  CASE i.op = "phi" -> ExecutePhi(m, i)
    [] i.op = "convert" -> ExecuteConversion(m, i, i.args[1].t[1], X(1), i.res[1].t[1])
    [] i.op = "int_binary" -> ExecuteIntBinary(m, i, i.args[1].t[1], X(1), X(2))
    [] i.op = "int_compare" -> Set(m, i, IntCompare(i.name, X(1), X(2)))
    [] i.op = "int_shift" -> ExecuteIntShift(m, i, i.args[1].t[1], X(1), X(2))
    [] i.op = "make" -> ExecuteMake(m, i)
    [] i.op = "copy" -> ExecuteCopy(m, i, X(1))
    [] i.op = "delete" -> Advance(DeleteShared(m, X(1), Tail(i.args[1].t)))
    [] i.op = "load" -> ExecuteLoad(m, i, X(1))
    [] i.op = "store" -> ExecuteStore(m, X(1), X(2))
    [] i.op = "jump" -> GoTo(m, i.dst[1])
    [] i.op = "jump_cond" -> GoTo(m, IF X(1) = 1 THEN i.dst[1] ELSE i.dst[2])
    [] i.op = "call" -> ExecuteCall(m, i, X(1), Evaluated(m, Tail(i.args)))
    [] i.op = "return" -> [Stop(m, "returned") EXCEPT !.results = Evaluated(m, i.args)]
    [] OTHER -> Stop(m, "unsupported")

ExecuteStep(m) == ExecuteInstr([m EXCEPT !.steps = @ + 1], m.f.blocks[m.block][m.index])
RECURSIVE Execute(_)
Execute(m) ==
  IF m.out # "runs" THEN m
  ELSE IF m.steps = MaxSteps THEN Stop(m, "long")
  ELSE Execute(ExecuteStep(m))
============================================================================
