---------------------------- MODULE CheckedFunc ----------------------------
(***************************************************************************)
(* A function on its way through katara-ir: the parser connects its blocks *)
(* (src/src/ir/serialization/func_parser.cc), the checker looks for issues *)
(* (src/src/ir/check/checker.cc), and a function without any is            *)
(* interpreted (src/src/ir/interpreter/interpreter.cc).                    *)
(*                                                                         *)
(* What the checker promises the interpreter is about the places at which  *)
(* values are defined and used: an instruction is a phi or a mov, which    *)
(* stands for every instruction that uses at most one value and computes   *)
(* at most one. Types and what values are is left out, so that a           *)
(* conditional jump may go either way.                                     *)
(***************************************************************************)
EXTENDS DominatorTree

CONSTANTS
  Values,    \* numbers of the computed values
  Constant,  \* an operand that is no computed value, or a result nothing uses
  MaxEdges,  \* bound on the edges of the control-flow graph
  MaxWrong,  \* bound on the blocks whose last instruction alone is a reason to reject
  MaxInstrs, \* bound on the instructions
  Kinds      \* of instructions that functions have: "mov", "phi"

ASSUME SizeAssumption == MaxEdges \in Nat /\ MaxWrong \in Nat /\ MaxInstrs \in Nat
ASSUME KindsAssumption == Kinds \subseteq {"mov", "phi"}
ASSUME ConstantAssumption == Constant \notin Values
ASSUME NumbersAssumption == Blocks = 1..Cardinality(Blocks) /\ Entry = 1 /\ NoBlock = 0

Operands == Values \cup {Constant}
Terminators == {"absent", "none", "jump", "jump_cond", "return"}
Stages == {"parse", "rejected", "crashed", "run", "returned", "failed"}

VARIABLES
  terminator, \* the control flow instruction at the end of each block, or "absent"
              \* if there is no such block
  instrs,     \* the instructions of each block before it
  stage,
  current,    \* the block executed
  previous,   \* the block executed before it
  index,      \* of the next instruction
  computed    \* the values computed so far

program == <<children, terminator, instrs>>
execution == <<current, previous, index, computed>>
tree == <<phase, context, depthFirst, dominators>>
funcVars == <<program, tree, stage, execution>>

IsInstr(i) ==
  /\ i.kind \in {"mov", "phi"} /\ i.result \in Operands
  /\ i.uses \subseteq Operands /\ i.args \subseteq Blocks \X Operands

FuncTypeOK ==
  /\ TypeOK
  /\ terminator \in [Blocks -> Terminators]
  /\ \A b \in Blocks : \A i \in DOMAIN instrs[b] : IsInstr(instrs[b][i])
  /\ stage \in Stages
  /\ current \in Blocks
  /\ previous \in Blocks \cup {NoBlock}
  /\ index \in 1..(Len(instrs[current]) + 1)
  /\ computed \subseteq Values

FuncInit ==
  /\ children = [b \in Blocks |-> {}]
  /\ phase = "edit"
  /\ NoContext
  /\ depthFirst = TRUE
  /\ dominators = [b \in Blocks |-> NoBlock]
  /\ terminator = [b \in Blocks |-> "absent"]
  /\ instrs = [b \in Blocks |-> <<>>]
  /\ stage = "parse"
  /\ current = Entry /\ previous = NoBlock /\ index = 1 /\ computed = {}

-----------------------------------------------------------------------------
(* The parser. Every program text is accepted that names existing blocks;   *)
(* a block whose text has no control flow instruction is connected to none. *)
(* Numbers of blocks mean nothing, so that blocks are numbered in the order *)
(* in which they are first named.                                          *)
Present == {b \in Blocks : terminator[b] # "absent"}
Named == {Entry} \cup Present \cup UNION {children[b] : b \in Present}

Edges == UNION {{b} \X children[b] : b \in Present}

IsWrong(kind, targets) ==
  \/ kind = "none"
  \/ kind = "jump_cond" /\ Cardinality(targets) = 1
  \/ Entry \in targets
Wrong == {b \in Present : IsWrong(terminator[b], children[b])}

Targets(kind) ==
  {t \in SUBSET Blocks : Cardinality(t) \in
     CASE kind \in {"none", "return"} -> {0} [] kind = "jump" -> {1} [] kind = "jump_cond" -> {1, 2}}

(* ParseBlock, and ConnectBlocks for the block                             *)
ParseBlock(kind, targets) ==
  LET b == Cardinality(Present) + 1
      named == Named \cup {b} \cup targets IN
  /\ b \in Blocks
  /\ named = 1..Cardinality(named)
  /\ Cardinality(Edges) + Cardinality(targets) <= MaxEdges
  /\ IsWrong(kind, targets) => Cardinality(Wrong) < MaxWrong
  /\ terminator' = [terminator EXCEPT ![b] = kind]
  /\ children' = [children EXCEPT ![b] = targets]
  /\ UNCHANGED <<instrs, tree, stage, execution>>

Mov(v, uses) == [kind |-> "mov", result |-> v, uses |-> uses, args |-> {}]
Phi(v, args) == [kind |-> "phi", result |-> v, uses |-> {}, args |-> args]

BlockIsRight(b) ==
  /\ b = Entry <=> Parents(b) = {}
  /\ terminator[b] # "none"
  /\ terminator[b] = "jump_cond" => Cardinality(children[b]) = 2

Places == UNION {{<<b, i>> : i \in DOMAIN instrs[b]} : b \in Blocks}
InstrAt(place) == instrs[place[1]][place[2]]

(* The blocks are connected when all instructions are parsed, and the       *)
(* checker finds the dominator tree when it asks for the first dominator;   *)
(* neither depends on the instructions, which are added here afterwards. A  *)
(* function that is rejected for its blocks needs none.                    *)
RoomForInstr ==
  /\ stage = "parse" /\ phase \in {"ok", "threw"}
  /\ Cardinality(Places) < MaxInstrs
  /\ \A b \in Present : BlockIsRight(b)

ParseInstr(b, instr) ==
  /\ instr.kind \in Kinds
  /\ \A c \in Present : c > b => instrs[c] = <<>>
  /\ instrs' = [instrs EXCEPT ![b] = Append(@, instr)]
  /\ UNCHANGED <<children, terminator, tree, stage, execution>>

(* A phi's arguments come from the parents of its block, or all but one.   *)
PhiArgs(b) ==
  UNION {{{<<o, f[o]>> : o \in origins} : f \in [origins -> Operands]} :
           origins \in {Parents(b)} \cup {Parents(b) \ {p} : p \in Parents(b)}}

-----------------------------------------------------------------------------
(* The checker                                                             *)
DefinitionsOf(v) == {p \in Places : InstrAt(p).result = v}

(* What is used where: a phi uses a value at the end of the block it is     *)
(* inherited from.                                                         *)
UsesOf(v) ==
  {p \in Places : v \in InstrAt(p).uses} \cup
  UNION {{<<a[1], Len(instrs[a[1]]) + 1>> : a \in {b \in InstrAt(p).args : b[2] = v}} : p \in Places}

DominatorsOf(b) ==
  LET up[n \in 0..Cardinality(Blocks)] ==
        IF n = 0 THEN b ELSE IF up[n - 1] = NoBlock THEN NoBlock ELSE dominators[up[n - 1]]
  IN SeqToSet(up)

(* mutant: an instruction may use its own result *)
CheckDefinitionDominatesUseOrIsUse(definition, use) ==
  IF definition[1] = use[1] THEN definition[2] <= use[2]
  ELSE definition[1] \in DominatorsOf(use[1])

CheckDefinitionDominatesUse(definition, use) ==
  IF definition[1] = use[1] THEN definition[2] < use[2]
  ELSE definition[1] \in DominatorsOf(use[1])

CheckValuesInFunc ==
  \A v \in Values :
    /\ Cardinality(DefinitionsOf(v)) <= 1
    /\ UsesOf(v) # {} => DefinitionsOf(v) # {}
    /\ \A d \in DefinitionsOf(v), u \in UsesOf(v) : CheckDefinitionDominatesUse(d, u)

CheckPhiInstr(b, phi) ==
  /\ Cardinality(Parents(b)) >= 2
  /\ {a[1] : a \in phi.args} = Parents(b)
  /\ Cardinality(phi.args) = Cardinality(Parents(b))

CheckBlock(b) ==
  /\ BlockIsRight(b)
  /\ \A i \in DOMAIN instrs[b] : instrs[b][i].kind = "phi" =>
       /\ CheckPhiInstr(b, instrs[b][i])
       /\ \A j \in 1..(i - 1) : instrs[b][j].kind = "phi"

(* The dominator tree is only needed if a value is used outside of the      *)
(* block of its definition, the first if there are several.                 *)
NeedsDominators ==
  \E v \in Values : \E d \in DefinitionsOf(v), u \in UsesOf(v) :
    d[1] # u[1] /\ \A e \in DefinitionsOf(v) : d[1] <= e[1]

CheckFunc ==
  /\ stage = "parse" /\ phase \in {"ok", "threw"}
  /\ stage' = IF phase = "threw" /\ NeedsDominators THEN "crashed"
              ELSE IF CheckValuesInFunc /\ \A b \in Present : CheckBlock(b) THEN "run"
              ELSE "rejected"
  /\ UNCHANGED <<program, tree, execution>>

-----------------------------------------------------------------------------
(* The interpreter                                                         *)
Instr == instrs[current][index]
AtInstr == stage = "run" /\ index \in DOMAIN instrs[current]
AtTerminator == stage = "run" /\ index = Len(instrs[current]) + 1

(* Evaluate: an operand that is not computed is not found in the frame's    *)
(* values, and at() throws.                                                *)
Compute(operands) ==
  /\ IF operands \subseteq computed \cup {Constant}
       THEN /\ computed' = computed \cup ({Instr.result} \cap Values)
            /\ index' = index + 1
            /\ UNCHANGED stage
       ELSE stage' = "failed" /\ UNCHANGED <<computed, index>>
  /\ UNCHANGED <<program, tree, current, previous>>

ExecuteMovInstr ==
  /\ AtInstr /\ Instr.kind = "mov"
  /\ Compute(Instr.uses)

(* "could not find inherited value for previous block", or there was none.  *)
ExecutePhiInstr ==
  LET inherited == {a[2] : a \in {b \in Instr.args : b[1] = previous}} IN
  /\ AtInstr /\ Instr.kind = "phi"
  /\ IF inherited # {} THEN \E o \in inherited : Compute({o})
     ELSE stage' = "failed" /\ UNCHANGED <<program, tree, execution>>

ExecuteJumpInstr(b) ==
  /\ AtTerminator /\ terminator[current] \in {"jump", "jump_cond"}
  /\ b \in children[current]
  /\ previous' = current /\ current' = b /\ index' = 1
  /\ UNCHANGED <<program, tree, stage, computed>>

(* After a block's last instruction the interpreter is at the function's    *)
(* exit, where it finds no results if that was no return.                   *)
ExecuteFuncExit ==
  /\ AtTerminator /\ terminator[current] \in {"return", "none"}
  /\ stage' = IF terminator[current] = "return" THEN "returned" ELSE "failed"
  /\ UNCHANGED <<program, tree, execution>>

-----------------------------------------------------------------------------
OtherVars == <<terminator, instrs, stage, execution>>

ParseBlocks ==
  /\ stage = "parse" /\ phase = "edit"
  /\ \E kind \in Terminators \ {"absent"} : \E targets \in Targets(kind) : ParseBlock(kind, targets)

ParseInstrs ==
  /\ RoomForInstr
  /\ \E b \in Present, v \in Operands :
       \/ \E o \in Operands : (v # Constant \/ o # Constant) /\ ParseInstr(b, Mov(v, {o}))
       \/ \E args \in PhiArgs(b) : ParseInstr(b, Phi(v, args))

UpdateTree == stage = "parse" /\ Present = Named /\ Next /\ UNCHANGED OtherVars

Interpret ==
  \/ ExecuteMovInstr
  \/ ExecutePhiInstr
  \/ \E b \in Blocks : ExecuteJumpInstr(b)
  \/ ExecuteFuncExit

FuncNext == ParseBlocks \/ ParseInstrs \/ UpdateTree \/ CheckFunc \/ Interpret

FuncSpec == FuncInit /\ [][FuncNext]_funcVars

-----------------------------------------------------------------------------
(* "check Katara IR files for syntactic and semantic correctness": a        *)
(* function the checker accepts is interpreted without a failure. Every     *)
(* value is computed before it is used, every phi inherits a value from the *)
(* block executed before.                                                  *)
AcceptedFuncRuns == stage # "failed"

(* It is, if the dominators come from the tree of a depth-first search.     *)
AcceptedFuncRunsIfDepthFirst == depthFirst => AcceptedFuncRuns
=============================================================================
