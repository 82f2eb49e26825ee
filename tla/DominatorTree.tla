--------------------------- MODULE DominatorTree ---------------------------
(***************************************************************************)
(* The dominator tree of a function's control-flow graph                   *)
(* (Func::UpdateDominatorTree, src/src/ir/representation/func.cc), found    *)
(* with the algorithm of Lengauer and Tarjan: a search numbers the blocks  *)
(* and builds a tree, the semidominators are found from the last block to  *)
(* the first, the dominators that differ from them from the first to the   *)
(* last.                                                                   *)
(*                                                                         *)
(* The forest that Link builds and Compress shortens is the part of the    *)
(* search tree whose blocks were processed; Compress changes no answer of  *)
(* Eval, so that Eval is stated on the tree itself.                        *)
(***************************************************************************)
EXTENDS Integers, Sequences, FiniteSets

CONSTANTS
  Blocks,
  Entry,
  NoBlock  \* kNoBlockNum

ASSUME BlocksAssumption == IsFiniteSet(Blocks) /\ Entry \in Blocks /\ NoBlock \notin Blocks

VARIABLES
  children,   \* of each block in the control-flow graph
  phase,      \* of the update; "ok" if the dominator tree is up to date
  stack,      \* of the search, the top last
  order,      \* tree_order_: the blocks in the order of their visit
  parent,     \* tree_parent_
  sdom,       \* the number (index in order, from 0) of each semidominator
  bucket,     \* the blocks whose semidominator this one is
  idom,       \* the dominators as far as known
  next,       \* index in order of the block to be processed next
  depthFirst, \* whether the tree is one of a depth-first search (observed)
  dominators  \* dominators_

context == <<stack, order, parent, sdom, bucket, idom, next>>

Phases == {"edit", "search", "implicit", "explicit", "ok", "threw"}

SeqToSet(s) == {s[i] : i \in DOMAIN s}

TypeOK ==
  /\ children \in [Blocks -> SUBSET Blocks]
  /\ phase \in Phases
  /\ stack \in Seq(Blocks) /\ order \in Seq(Blocks)
  /\ parent \in [Blocks -> Blocks \cup {NoBlock}]
  /\ sdom \in [Blocks -> Int]
  /\ bucket \in [Blocks -> SUBSET Blocks]
  /\ idom \in [Blocks -> Blocks \cup {NoBlock}]
  /\ next \in Nat
  /\ depthFirst \in BOOLEAN
  /\ dominators \in [Blocks -> Blocks \cup {NoBlock}]

NoContext ==
  /\ stack = <<>> /\ order = <<>> /\ next = 0
  /\ parent = [b \in Blocks |-> NoBlock]
  /\ sdom = [b \in Blocks |-> -1]
  /\ bucket = [b \in Blocks |-> {}]
  /\ idom = [b \in Blocks |-> NoBlock]

UpdateDominatorTree ==
  /\ phase = "edit"
  /\ phase' = "search"
  /\ stack' = <<Entry>>
  /\ UNCHANGED <<children, order, parent, sdom, bucket, idom, next, depthFirst, dominators>>

-----------------------------------------------------------------------------
(* FindDFSTree: a block counts as seen when it is pushed, and its children  *)
(* are pushed in any order of an unordered set.                             *)
Orders(S) == {s \in [1..Cardinality(S) -> S] : SeqToSet(s) = S}

Visit ==
  LET v == stack[Len(stack)]
      unseen == children[v] \ (SeqToSet(order) \cup SeqToSet(stack)) IN
  /\ phase = "search" /\ stack # <<>>
  /\ \E s \in Orders(unseen) : stack' = SubSeq(stack, 1, Len(stack) - 1) \o s
  /\ order' = Append(order, v)
  /\ sdom' = [sdom EXCEPT ![v] = Len(order)]
  /\ parent' = [b \in Blocks |-> IF b \in unseen THEN v ELSE parent[b]]
  /\ UNCHANGED <<children, phase, bucket, idom, next, depthFirst, dominators>>

(* The way from v towards the root as long as it is in the set processed.   *)
Way(v, processed) ==
  LET up[n \in 0..Cardinality(Blocks)] ==
        IF n = 0 THEN v
        ELSE IF up[n - 1] \in processed THEN parent[up[n - 1]] ELSE NoBlock
  IN up

(* In the tree of a depth-first search an edge to a block visited later     *)
(* leads to a descendant.                                                  *)
IsDepthFirst ==
  \A i, j \in DOMAIN order :
    i < j /\ order[j] \in children[order[i]] =>
      order[i] \in SeqToSet(Way(order[j], Blocks))

SearchEnds ==
  /\ phase = "search" /\ stack = <<>>
  /\ phase' = "implicit"
  /\ next' = Len(order)
  /\ depthFirst' = IsDepthFirst
  /\ UNCHANGED <<children, stack, order, parent, sdom, bucket, idom, dominators>>

-----------------------------------------------------------------------------
(* FindImplicitIDoms                                                       *)
Eval(v, processed, semi) ==
  LET up == Way(v, processed)
      onWay == {n \in DOMAIN up : up[n] \in processed}
      first == CHOOSE n \in onWay :
        \A m \in onWay : semi[up[n]] < semi[up[m]] \/ (semi[up[n]] = semi[up[m]] /\ n <= m)
  IN IF onWay = {} THEN v ELSE up[first]

Processed == {order[i] : i \in (next + 1)..Len(order)}
Parents(b) == {p \in Blocks : b \in children[p]}

Smallest(S) == CHOOSE n \in S : \A m \in S : n <= m

(* mutant: only the edge of the tree is looked at *)
SemidominatorOfParent(w) == sdom[parent[w]]

Semidominator(w) == Smallest({sdom[Eval(p, Processed, sdom)] : p \in Parents(w)} \cup {sdom[w]})

(* A parent the search has not visited has the number -1, which is looked   *)
(* up in tree_order_.                                                      *)
FindImplicitIDom ==
  LET w == order[next]
      semi == [sdom EXCEPT ![w] = Semidominator(w)]
      blocksOf == [bucket EXCEPT ![order[semi[w] + 1]] = @ \cup {w}]
      decided == blocksOf[parent[w]]
      u(v) == Eval(v, Processed \cup {w}, semi) IN
  /\ phase = "implicit" /\ next > 1
  /\ IF Semidominator(w) = -1
       THEN phase' = "threw" /\ UNCHANGED context
       ELSE /\ sdom' = semi
            /\ idom' = [v \in Blocks |->
                 IF v \in decided THEN IF semi[u(v)] < semi[v] THEN u(v) ELSE parent[w]
                 ELSE idom[v]]
            /\ bucket' = [blocksOf EXCEPT ![parent[w]] = {}]
            /\ next' = next - 1
            /\ UNCHANGED <<phase, stack, order, parent>>
  /\ UNCHANGED <<children, depthFirst, dominators>>

ImplicitEnds ==
  /\ phase = "implicit" /\ next <= 1
  /\ phase' = "explicit"
  /\ next' = 2
  /\ UNCHANGED <<children, stack, order, parent, sdom, bucket, idom, depthFirst, dominators>>

(* FindExplicitIDoms                                                       *)
FindExplicitIDom ==
  LET w == order[next] IN
  /\ phase = "explicit" /\ next <= Len(order)
  /\ IF idom[w] = order[sdom[w] + 1] THEN UNCHANGED <<phase, idom>>
     ELSE IF idom[w] = NoBlock THEN phase' = "threw" /\ UNCHANGED idom
     ELSE idom' = [idom EXCEPT ![w] = idom[idom[w]]] /\ UNCHANGED phase
  /\ next' = next + 1
  /\ UNCHANGED <<children, stack, order, parent, sdom, bucket, depthFirst, dominators>>

(* The context is gone when UpdateDominatorTree returns.                   *)
ClearContext ==
  /\ stack' = <<>> /\ order' = <<>> /\ next' = 0
  /\ parent' = [b \in Blocks |-> NoBlock]
  /\ sdom' = [b \in Blocks |-> -1]
  /\ bucket' = [b \in Blocks |-> {}]
  /\ idom' = [b \in Blocks |-> NoBlock]

(* mutant: the entry is entered in dominees_ like the others *)
SetDominatorsWithEntry ==
  /\ phase = "explicit" /\ next > Len(order)
  /\ phase' = IF \E i \in DOMAIN order : idom[order[i]] = NoBlock THEN "threw" ELSE "ok"
  /\ dominators' = idom
  /\ ClearContext
  /\ UNCHANGED <<children, depthFirst>>

(* A block without a dominator among those visited is looked up in          *)
(* dominees_ in vain.                                                      *)
SetDominators ==
  /\ phase = "explicit" /\ next > Len(order)
  /\ phase' = IF \E i \in 2..Len(order) : idom[order[i]] = NoBlock THEN "threw" ELSE "ok"
  /\ dominators' = idom
  /\ ClearContext
  /\ UNCHANGED <<children, depthFirst>>

Next ==
  \/ UpdateDominatorTree
  \/ Visit
  \/ SearchEnds
  \/ FindImplicitIDom
  \/ ImplicitEnds
  \/ FindExplicitIDom
  \/ SetDominators

-----------------------------------------------------------------------------
(* What edges there are is left to the module that extends this one.        *)
(* The reference for the answers: the blocks reached without a step to d.   *)
ReachedWithout(d) ==
  LET reached[n \in 0..Cardinality(Blocks)] ==
        IF n = 0 THEN {Entry} \ {d}
        ELSE LET before == reached[n - 1]
             IN before \cup ((UNION {children[b] : b \in before}) \ {d})
  IN reached[Cardinality(Blocks)]

Reached == ReachedWithout(NoBlock)

StrictlyDominates(d, b) == d # b /\ d \in Reached /\ b \notin ReachedWithout(d)

IsImmediateDominator(d, b) ==
  /\ StrictlyDominates(d, b)
  /\ \A e \in Blocks : StrictlyDominates(e, b) /\ e # d => StrictlyDominates(e, d)

(* DominatorOf answers with the immediate dominator of every block that the *)
(* entry reaches, and with none for the entry and the others, if the tree   *)
(* that FindDFSTree builds is one of a depth-first search.                  *)
DominatorsAreRight ==
  phase = "ok" /\ depthFirst =>
    \A b \in Blocks :
      IF b \in Reached \ {Entry} THEN IsImmediateDominator(dominators[b], b)
      ELSE dominators[b] = NoBlock

(* DominatorOf throws only if a block that the entry does not reach leads   *)
(* to one that it does reach.                                              *)
ThrowsForUnreachedParent ==
  phase = "threw" /\ depthFirst =>
    \E p \in Blocks \ Reached : children[p] \cap Reached # {}
=============================================================================
