------------------------ MODULE RegisterAllocation ------------------------
(***************************************************************************)
(* How katara gives the values of an IR function registers                 *)
(* (cmd/katara/run.cc, BuildX86_64Program): live ranges are found by a     *)
(* worklist (ir/analyzers/live_range_analyzer.cc), the interference graph  *)
(* is built from them (interference_graph_builder.cc), the phi             *)
(* instructions become movs in the parents (processors/phi_resolver.cc),   *)
(* and the graph is colored greedily                                       *)
(* (interference_graph_colorer.cc, ir_translator/register_allocator.cc).   *)
(* The allocated function is then run beside the function itself: a        *)
(* register holds a token that says which dynamic value was written to it. *)
(*                                                                         *)
(* An instruction is a record of its kind ("phi", "op", "cond", "jump",    *)
(* "ret"), the values it defines and uses, and where it jumps.  A phi has  *)
(* a function from its origins to values.  0 stands for a constant.        *)
(***************************************************************************)
EXTENDS Integers, Sequences, FiniteSets, SequencesExt, FiniteSetsExt

CONSTANT Funcs  \* records [args, blocks]; block 1 is the entry block

VARIABLES func, phase, queue, ranges, graph, colors, pos, env, regs

vars == <<func, phase, queue, ranges, graph, colors, pos, env, regs>>
run == <<pos, env, regs>>

NoColor == -1
Null == 0  \* a null Instr pointer; instructions are positions in their block

Blocks(f) == DOMAIN f.blocks
LastInstr(f, b) == f.blocks[b][Len(f.blocks[b])]
Children(f, b) == LastInstr(f, b).to
Parents(f, b) == {p \in Blocks(f) : b \in Children(f, p)}
IsPhi(instr) == instr.op = "phi"
NumPhis(f, b) == CHOOSE n \in 0 .. Len(f.blocks[b]) : \A i \in DOMAIN f.blocks[b] : IsPhi(f.blocks[b][i]) <=> i <= n
Phis(f, b) == SubSeq(f.blocks[b], 1, NumPhis(f, b))
Sources(phi) == {phi.from[o] : o \in DOMAIN phi.from}

-----------------------------------------------------------------------------
(* Live ranges of a block: a function from its values to [start, end].     *)

DefinedBy(f, b, v) ==
  {i \in DOMAIN f.blocks[b] : ~IsPhi(f.blocks[b][i]) /\ v \in ToSet(f.blocks[b][i].defs)}
UsedBy(f, b, v) ==
  {i \in DOMAIN f.blocks[b] : ~IsPhi(f.blocks[b][i]) /\ v \in ToSet(f.blocks[b][i].uses)}
InheritedFrom(f, b) ==
  ({phi.from[b] : phi \in UNION {ToSet(Phis(f, c)) : c \in Children(f, b)}}) \ {0}

UsedIn(f, b) == (UNION {ToSet(f.blocks[b][i].uses) : i \in DOMAIN f.blocks[b]}) \ {0}
DefinedIn(f, b) == UNION {ToSet(f.blocks[b][i].defs) : i \in DOMAIN f.blocks[b]}
AllValues(f) == ToSet(f.args) \cup (UNION {DefinedIn(f, b) : b \in Blocks(f)})

\* The blocks some path from b leads to that leaves none of the stops.
ReachedAround(f, b, stops) ==
  LET walk[n \in 0 .. Cardinality(Blocks(f))] ==
        IF n = 0 THEN {b}
        ELSE walk[n - 1] \cup (UNION {Children(f, c) : c \in walk[n - 1] \ stops})
  IN walk[Cardinality(Blocks(f))]

-----------------------------------------------------------------------------
(* The functions the allocation is written for: what the checker of the IR  *)
(* (ir/check/checker.cc) demands of blocks, of phis and of the places of    *)
(* definitions and uses, and no more arguments than OperandForArg knows.    *)
IsSeq(s) == s \in Seq(ToSet(s))

IsInstr(f, b, i) ==
  LET instr == f.blocks[b][i] IN
  /\ IsSeq(instr.defs) /\ IsInjective(instr.defs) /\ 0 \notin ToSet(instr.defs)
  /\ IsSeq(instr.uses) /\ ToSet(instr.uses) \subseteq AllValues(f) \cup {0}
  /\ IF i < Len(f.blocks[b]) THEN instr.op \in {"phi", "op"}
     ELSE instr.op \in {"jump", "cond", "ret"} /\ instr.defs = <<>> /\ instr.to \subseteq Blocks(f)
  /\ instr.op = "phi" => b # 1 /\ Len(instr.defs) = 1 /\ instr.uses = <<>> /\ DOMAIN instr.from = Parents(f, b)
  /\ instr.op = "jump" => instr.uses = <<>>
  /\ instr.op = "cond" => Cardinality(instr.to) = 2
  /\ instr.op = "ret" => instr.to = {}

IsBlock(f, b) ==
  /\ IsSeq(f.blocks[b]) /\ f.blocks[b] # <<>>
  /\ \A i \in DOMAIN f.blocks[b] : IsInstr(f, b, i)
  /\ \E n \in 0 .. Len(f.blocks[b]) : \A i \in DOMAIN f.blocks[b] : IsPhi(f.blocks[b][i]) <=> i <= n

Definitions(f, v) ==
  {p \in UNION {{b} \X DOMAIN f.blocks[b] : b \in Blocks(f)} : v \in ToSet(f.blocks[p[1]][p[2]].defs)}

\* Before the instruction, on every path to it.
DefinedBefore(f, b, i, v) ==
  \/ v \in ToSet(f.args)
  \/ \E d \in Definitions(f, v) : d[1] = b /\ d[2] < i
  \/ b \notin ReachedAround(f, 1, {d[1] : d \in Definitions(f, v)})

DefinedBeforeUse(f, b) ==
  /\ \A i \in DOMAIN f.blocks[b] : \A v \in ToSet(f.blocks[b][i].uses) \ {0} :
       DefinedBefore(f, b, i, v) /\ \A d \in Definitions(f, v) : d[1] = b => d[2] < i
  /\ \A v \in InheritedFrom(f, b) : v \in AllValues(f) /\ DefinedBefore(f, b, Len(f.blocks[b]) + 1, v)

IsFunc(f) ==
  /\ IsSeq(f.args) /\ IsInjective(f.args) /\ Len(f.args) <= 6 /\ 0 \notin ToSet(f.args)
  /\ IsSeq(f.blocks) /\ f.blocks # <<>>
  /\ \A b \in Blocks(f) : IsBlock(f, b) /\ DefinedBeforeUse(f, b)
  /\ \A v \in AllValues(f) : \A d, e \in Definitions(f, v) : d = e
  /\ \A v \in ToSet(f.args) : Definitions(f, v) = {}

ASSUME FuncsAssumption == \A f \in Funcs : IsFunc(f)

-----------------------------------------------------------------------------
\* AddValueDefinition, AddValueUse and PropagateBackwardsFromExitSet, called
\* from the last instruction to the first.
BacktraceBlock(f, b) ==
  [v \in {v \in AllValues(f) : DefinedBy(f, b, v) \cup UsedBy(f, b, v) # {}
                                 \/ v \in InheritedFrom(f, b)} |->
     [start |-> Max(DefinedBy(f, b, v) \cup {Null}),
      end   |-> IF v \in InheritedFrom(f, b) THEN Null
                ELSE Max(UsedBy(f, b, v) \cup DefinedBy(f, b, v))]]

EntrySet(r) == {v \in DOMAIN r : r[v].start = Null}
ExitSet(r) == {v \in DOMAIN r : r[v].end = Null}

PropagateBackwards(r, values) ==
  [v \in DOMAIN r \cup values |->
     IF v \notin DOMAIN r THEN [start |-> Null, end |-> Null]
     ELSE IF v \in values THEN [r[v] EXCEPT !.end = Null]
     ELSE r[v]]

-----------------------------------------------------------------------------
(* The interference graph: nodes and undirected edges.                     *)

AddEdgesIn(group) == {e \in SUBSET group : Cardinality(e) = 2}
AddEdgesBetween(group, v) == {{w, v} : w \in group \ {v}}

\* The live set when the scan from below arrives at instruction i.
LiveAfter(f, b, exit, i) ==
  {v \in AllValues(f) :
     /\ v \in exit \/ \E j \in UsedBy(f, b, v) : j > i
     /\ \A j \in DOMAIN f.blocks[b] : v \in ToSet(f.blocks[b][j].defs) => j <= i}

\* A defined value that is not live gets edges to the live set, from which
\* the instruction's earlier results are gone already; a used value that is
\* not live gets edges to the live set, and becomes live but for a phi.
EdgesAtInstr(instr, live) ==
  LET uses == (IF IsPhi(instr) THEN Sources(instr) ELSE ToSet(instr.uses)) \ {0}
      Earlier(i) == {instr.defs[j] : j \in 1 .. (i - 1)}
      through == live \ ToSet(instr.defs)
      group == IF IsPhi(instr) THEN through ELSE through \cup uses
  IN (UNION {AddEdgesBetween(live \ Earlier(i), instr.defs[i]) :
               i \in {i \in DOMAIN instr.defs : instr.defs[i] \notin live}})
     \cup (UNION {AddEdgesBetween(group, v) : v \in uses \ through})

PopulateInterferenceGraphForBlock(f, b, r) ==
  LET instrs == f.blocks[b]
  IN AddEdgesIn(ExitSet(r)) \cup
     (UNION {EdgesAtInstr(instrs[i], LiveAfter(f, b, ExitSet(r), i)) : i \in DOMAIN instrs})

\* The arguments of phis are in the exit sets.
BuildInterferenceGraph(f, rs) ==
  [nodes |-> UNION {DefinedIn(f, b) \cup UsedIn(f, b) \cup ExitSet(rs[b]) : b \in Blocks(f)},
   edges |-> UNION {PopulateInterferenceGraphForBlock(f, b, rs[b]) : b \in Blocks(f)}]

-----------------------------------------------------------------------------
(* Colors.  0..3 are rax, rcx, rdx, rbx; 4 is rsi, 5 rdi, 6 r8, ...        *)

ArgColors == <<5, 4, 2, 1, 6, 7>>
ResultColors == <<0, 2>>

\* The first preference recorded for a value stays (SetColor inserts).
PreferredColors(f) ==
  [v \in AllValues(f) |->
     LET At(s) == Min({i \in DOMAIN s : s[i] = v})
         returns == {b \in Blocks(f) : LastInstr(f, b).op = "ret" /\ v \in ToSet(LastInstr(f, b).uses)}
     IN IF v \in ToSet(f.args) THEN ArgColors[At(f.args)]
        ELSE IF returns # {} THEN ResultColors[At(LastInstr(f, Min(returns)).uses)]
        ELSE NoColor]

GetColor(cs, v) == IF v \in DOMAIN cs THEN cs[v] ELSE NoColor
Neighbors(g, v) == (UNION {e \in g.edges : v \in e}) \ {v}

\* A mutant of ColorOf that grants every preference.
ColorOfPreferred(f, g, cs, v) ==
  LET taken == {GetColor(cs, w) : w \in Neighbors(g, v)}
  IN IF PreferredColors(f)[v] # NoColor THEN PreferredColors(f)[v]
     ELSE Min((0 .. Cardinality(taken)) \ taken)

ColorOf(f, g, cs, v) ==
  LET taken == {GetColor(cs, w) : w \in Neighbors(g, v)}
      preferred == PreferredColors(f)[v]
  IN IF preferred # NoColor /\ preferred \notin taken THEN preferred
     ELSE Min((0 .. Cardinality(taken)) \ taken)

-----------------------------------------------------------------------------
(* Phi resolution.                                                         *)

MovsInto(f, c, origin) ==
  LET Mov(phi) == [op |-> "mov", defs |-> phi.defs, uses |-> <<phi.from[origin]>>]
      phis == Phis(f, c)
  IN IF c \in Children(f, origin) THEN [i \in DOMAIN phis |-> Mov(phis[i])] ELSE <<>>

\* Every block of the function in turn puts its movs before the last
\* instruction of its parents, and loses its phis.
MovsOf(f, b) ==
  LET movs[n \in 0 .. Len(f.blocks)] ==
        IF n = 0 THEN <<>> ELSE movs[n - 1] \o MovsInto(f, n, b)
  IN movs[Len(f.blocks)]

ResolvePhisInFunc(f) ==
  [b \in Blocks(f) |->
     SubSeq(f.blocks[b], NumPhis(f, b) + 1, Len(f.blocks[b]) - 1) \o MovsOf(f, b) \o <<LastInstr(f, b)>>]

\* A block that is its own parent grows while its phis are read: the vector of its
\* instructions is changed under the loop's iterator, and anything may follow.
InsertsIntoItself(f) == \E b \in Blocks(f) : Phis(f, b) # <<>> /\ b \in Children(f, b)

-----------------------------------------------------------------------------
Init ==
  /\ func \in Funcs
  /\ ranges = [b \in Blocks(func) |-> BacktraceBlock(func, b)]
  /\ queue = {b \in Blocks(func) : EntrySet(ranges[b]) # {}}
  /\ phase = "propagate"
  /\ graph = [nodes |-> {}, edges |-> {}]
  /\ colors = <<>>
  /\ pos = <<1, 1>> /\ env = <<>> /\ regs = <<>>

\* Mutants of Queued: no second round; a round whatever was found.
QueuedNever(b, old, new) == {}
QueuedAlways(b, old, new) == Parents(func, b)

Queued(b, old, new) ==
  {p \in Parents(func, b) : Cardinality(EntrySet(old[p])) < Cardinality(EntrySet(new[p]))}


\* FindLiveRangesForFunc: some block of the unordered queue.
Propagate ==
  /\ phase = "propagate"
  /\ \E b \in queue :
       LET new == [p \in Blocks(func) |->
                     IF p \in Parents(func, b)
                       THEN PropagateBackwards(ranges[p], EntrySet(ranges[b])) ELSE ranges[p]]
       IN /\ ranges' = new
          /\ queue' = (queue \ {b}) \cup Queued(b, ranges, new)
  /\ UNCHANGED <<func, phase, graph, colors, run>>

\* The graph is built, then ResolvePhisInFunc is called.
BuildGraph ==
  /\ phase = "propagate" /\ queue = {}
  /\ graph' = BuildInterferenceGraph(func, ranges)
  /\ phase' = IF InsertsIntoItself(func) THEN "undefined" ELSE "color"
  /\ UNCHANGED <<func, queue, ranges, colors, run>>

\* ColorInterferenceGraph visits the values in the order of a hash set.
ColorValue ==
  /\ phase = "color"
  /\ \E v \in graph.nodes \ DOMAIN colors :
       colors' = [w \in DOMAIN colors \cup {v} |->
                    IF w = v THEN ColorOf(func, graph, colors, v) ELSE colors[w]]
  /\ UNCHANGED <<func, phase, queue, ranges, graph, run>>

\* The caller has put the arguments into their registers.
Enter ==
  /\ phase = "color" /\ DOMAIN colors = graph.nodes
  /\ phase' = "run"
  /\ env' = [v \in AllValues(func) |-> <<v, 0>>]
  /\ regs' = [c \in Range(colors) \cup Range(ArgColors) |->
                LET i == {i \in DOMAIN func.args : ArgColors[i] = c}
                IN IF i = {} THEN <<0, 0>> ELSE <<func.args[Min(i)], 0>>]
  /\ UNCHANGED <<func, queue, ranges, graph, colors, pos>>

-----------------------------------------------------------------------------
(* Running the function and its allocated form side by side.               *)

Current == ResolvePhisInFunc(func)[pos[1]][pos[2]]
Constant(phi, origin) == <<phi.defs[1], 10 + origin>>
Fresh(v) == <<v, (env[v][2] + 1) % 3>>
Inherited(phi, origin) == IF phi.from[origin] = 0 THEN Constant(phi, origin) ELSE env[phi.from[origin]]

\* A mov that stands for a phi: only the registers change.
RunMov ==
  /\ phase = "run" /\ Current.op = "mov"
  /\ regs' = [regs EXCEPT ![colors[Current.defs[1]]] =
                IF Current.uses[1] = 0 THEN Constant(Current, pos[1])
                ELSE regs[colors[Current.uses[1]]]]
  /\ pos' = <<pos[1], pos[2] + 1>>
  /\ UNCHANGED <<func, phase, queue, ranges, graph, colors, env>>

RunOp ==
  /\ phase = "run" /\ Current.op = "op"
  /\ env' = [v \in DOMAIN env |-> IF v \in ToSet(Current.defs) THEN Fresh(v) ELSE env[v]]
  /\ regs' = [c \in DOMAIN regs |->
                LET writes == {i \in DOMAIN Current.defs : colors[Current.defs[i]] = c}
                IN IF writes = {} THEN regs[c] ELSE Fresh(Current.defs[Max(writes)])]
  /\ pos' = <<pos[1], pos[2] + 1>>
  /\ UNCHANGED <<func, phase, queue, ranges, graph, colors>>

\* A jump: the phis of the target take their values all at once.
RunJump ==
  /\ phase = "run" /\ Current.op \in {"jump", "cond"}
  /\ \E c \in Current.to :
       /\ pos' = <<c, 1>>
       /\ env' = [v \in DOMAIN env |->
                    LET phis == {phi \in ToSet(Phis(func, c)) : phi.defs[1] = v}
                    IN IF phis = {} THEN env[v] ELSE Inherited(CHOOSE phi \in phis : TRUE, pos[1])]
  /\ UNCHANGED <<func, phase, queue, ranges, graph, colors, regs>>

Allocate == Propagate \/ BuildGraph \/ ColorValue \/ Enter
Next == Allocate \/ RunMov \/ RunOp \/ RunJump
Spec == Init /\ [][Next]_vars /\ WF_vars(Allocate)

-----------------------------------------------------------------------------
(* Functions for which the code is known to go wrong; see the README.      *)

\* A phi reads another phi of its block: the movs should be parallel.
SwappedPhis(f) ==
  \E b \in Blocks(f) : \E i, j \in DOMAIN Phis(f, b) :
    i < j /\ Phis(f, b)[i].defs[1] \in Sources(Phis(f, b)[j])

\* A phi is reached over an edge from a block with other successors: its mov
\* also takes effect when one of these is taken, or before the jump reads.
CriticalPhi(f) ==
  \E b \in Blocks(f) : \E p \in Parents(f, b) :
    Phis(f, b) # <<>> /\ Cardinality(Children(f, p)) > 1

\* A phi whose result is never read has no live range: its mov may overwrite
\* what is live in the parent.
UnusedPhi(f, rs) ==
  \E b \in Blocks(f) : \E phi \in ToSet(Phis(f, b)) : phi.defs[1] \notin DOMAIN rs[b]

\* One of two results is not live after its call: no edge between them.
UnusedResult(f, rs) ==
  \E b \in Blocks(f) : \E i \in DOMAIN f.blocks[b] :
    /\ Len(f.blocks[b][i].defs) > 1
    /\ \E v \in ToSet(f.blocks[b][i].defs) : v \in DOMAIN rs[b] /\ rs[b][v].end = i

\* No code moves an argument from its register to the one of its color.
ArgElsewhere(f, cs) ==
  \E i \in DOMAIN f.args : f.args[i] \in DOMAIN cs /\ cs[f.args[i]] # ArgColors[i]

-----------------------------------------------------------------------------
(* Values live at the beginning of a block, by paths.                      *)

UpwardExposed(f, b, v) ==
  IF DefinedBy(f, b, v) # {} THEN FALSE
  ELSE UsedBy(f, b, v) # {} \/ v \in InheritedFrom(f, b)

ReachedFrom(f, b, v) == ReachedAround(f, b, {c \in Blocks(f) : DefinedBy(f, c, v) # {}})

LiveIn(f, b) ==
  {v \in AllValues(f) : \E c \in ReachedFrom(f, b, v) : UpwardExposed(f, c, v)}

\* Whatever the order of the worklist, when it is empty every block knows
\* exactly the values some path from its beginning reads before writing them;
\* the results of phis have no definition in a block and stay live above it.
RangesAreLiveness ==
  phase \in {"color", "undefined"} =>
    \A b \in Blocks(func) :
      /\ EntrySet(ranges[b]) = LiveIn(func, b)
      /\ (UNION {LiveIn(func, c) : c \in Children(func, b)}) \cup InheritedFrom(func, b)
           = ExitSet(ranges[b])

\* Whenever the allocated function reads a value, on any path and after any
\* number of iterations, its register holds what the IR function would read,
\* but in functions with one of the five shapes above, and in those whose phis
\* are resolved with undefined behavior, which are not run.
ReadsAreRight ==
  phase = "run" /\ Current.op # "mov" =>
    \/ \A v \in ToSet(Current.uses) \ {0} : regs[colors[v]] = env[v]
    \/ SwappedPhis(func) \/ CriticalPhi(func) \/ UnusedPhi(func, ranges)
    \/ UnusedResult(func, ranges) \/ ArgElsewhere(func, colors)

\* Live ranges, graph and coloring come to an end for every function, also
\* when its blocks are a loop; what is undefined is left at that.
AllocationEnds == <>(phase \in {"run", "undefined"})
=============================================================================
