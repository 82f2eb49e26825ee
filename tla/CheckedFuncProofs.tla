------------------------- MODULE CheckedFuncProofs -------------------------
(***************************************************************************)
(* For every control-flow graph and all instructions: the dominators the   *)
(* checker asks for are right, and a function it accepts is interpreted    *)
(* without a failure, if the search was a depth-first one.                 *)
(*                                                                         *)
(* First the dominator tree: what the three stages of UpdateDominatorTree  *)
(* establish for the next one. The argument is that of Lengauer and        *)
(* Tarjan, but speaks of sets that are closed under an edge instead of     *)
(* paths. Then the way of a function from the parser to the interpreter.   *)
(***************************************************************************)
EXTENDS CheckedFunc, FiniteSetTheorems, SequenceTheorems, WellFoundedInduction, TLAPS

Less == OpToRel(<, Nat)

LEMMA SmallestElement ==
  ASSUME NEW T \in SUBSET Nat, T # {}
  PROVE  \E x \in T : \A y \in T : x <= y
<1>1. IsWellFoundedOn(Less, Nat)
  BY NatLessThanWellFounded, Zenon DEF OpToRel, Less
<1>2. PICK x \in T : \A y \in T : ~(<<y, x>> \in Less)
  BY <1>1, WFMin, Zenon
<1>3. ASSUME NEW y \in T PROVE x <= y
  <2>1. SUFFICES ASSUME y < x PROVE FALSE
    OBVIOUS
  <2>2. <<y, x>> \in Nat \X Nat /\ <<y, x>>[1] < <<y, x>>[2]
    BY <2>1
  <2>3. <<y, x>> \in Less
    BY <2>2, Zenon DEF Less, OpToRel
  <2> QED
    BY <1>2, <2>3
<1> QED
  BY <1>3

(* A function that is defined by its values before: x, step[x], ...         *)
Iterates(f, x, step, n) ==
  /\ f[0] = x
  /\ \A i \in 1..n : f[i] = step[f[i - 1]]

LEMMA Iteration ==
  ASSUME NEW D, NEW x \in D, NEW step \in [D -> D], NEW n \in Nat
  PROVE  \E f \in [0..n -> D] : Iterates(f, x, step, n)
<1> DEFINE P(k) == \E f \in [0..k -> D] : Iterates(f, x, step, k)
           Bad == {k \in Nat : ~P(k)}
<1> SUFFICES ASSUME Bad # {} PROVE FALSE
  OBVIOUS
<1>1. PICK k \in Bad : \A l \in Bad : k <= l
  BY SmallestElement
<1>2. CASE k = 0
  <2>1. [i \in 0..0 |-> x] \in [0..0 -> D] /\ Iterates([i \in 0..0 |-> x], x, step, 0)
    BY DEF Iterates
  <2> QED
    BY <1>1, <1>2, <2>1
<1>3. CASE k # 0
  <2>1. k - 1 \in Nat /\ k - 1 \notin Bad /\ k \in Nat
    BY <1>1, <1>3
  <2>2. PICK f \in [0..(k - 1) -> D] : Iterates(f, x, step, k - 1)
    BY <2>1
  <2> DEFINE g == [i \in 0..k |-> IF i = k THEN step[f[k - 1]] ELSE f[i]]
  <2>3. g \in [0..k -> D]
    BY <2>1, <2>2
  <2>4. Iterates(g, x, step, k)
    <3>1. g[0] = x
      BY <1>3, <2>1, <2>2 DEF Iterates
    <3>2. ASSUME NEW i \in 1..k
          PROVE  g[i] = step[g[i - 1]]
      BY <1>3, <2>1, <2>2 DEF Iterates
    <3> QED
      BY <3>1, <3>2 DEF Iterates
  <2> QED
    BY <1>1, <2>3, <2>4
<1> QED
  BY <1>2, <1>3

LEMMA IteratesThroughout ==
  ASSUME NEW D, NEW x \in D, NEW step \in [D -> D], NEW n \in Nat, NEW g, g[0] = x,
         \A i \in 1..n : g[i - 1] \in D => g[i] = step[g[i - 1]]
  PROVE  (\A i \in 0..n : g[i] \in D) /\ Iterates(g, x, step, n)
<1>1. \A i \in 0..n : g[i] \in D
  <2> DEFINE Bad == {i \in Nat : i <= n /\ g[i] \notin D}
  <2> SUFFICES ASSUME Bad # {} PROVE FALSE
    OBVIOUS
  <2>1. PICK k \in Bad : \A l \in Bad : k <= l
    BY SmallestElement
  <2>2. k # 0
    BY <2>1
  <2>3. k - 1 \in Nat /\ k - 1 <= n /\ k - 1 \notin Bad /\ k \in 1..n
    BY <2>1, <2>2
  <2>4. g[k - 1] \in D
    BY <2>3
  <2> QED
    BY <2>1, <2>3, <2>4
<1>2. \A i \in 1..n : g[i] = step[g[i - 1]]
  BY <1>1
<1> QED
  BY <1>1, <1>2 DEF Iterates

LEMMA IteratesIn ==
  ASSUME NEW x, NEW step, NEW n \in Nat, NEW f, Iterates(f, x, step, n),
         NEW T, x \in T, \A y \in T : step[y] \in T
  PROVE  \A i \in 0..n : f[i] \in T
<1> DEFINE Bad == {i \in Nat : i <= n /\ f[i] \notin T}
<1> SUFFICES ASSUME Bad # {} PROVE FALSE
  OBVIOUS
<1>1. PICK k \in Bad : \A l \in Bad : k <= l
  BY SmallestElement
<1>2. k # 0
  BY <1>1 DEF Iterates
<1>3. k - 1 \in Nat /\ k - 1 <= n /\ k - 1 \notin Bad /\ k \in 1..n
  BY <1>1, <1>2
<1> QED
  BY <1>1, <1>3 DEF Iterates

-----------------------------------------------------------------------------
(* a is b or above b in the tree: it is in every set that holds b and is    *)
(* closed under taking the parent.                                         *)
Parental(par) == par \in [Blocks -> Blocks \cup {NoBlock}]
UpClosed(par, S) == \A x \in S : par[x] # NoBlock => par[x] \in S
Above(par, a, b) == \A S \in SUBSET Blocks : b \in S /\ UpClosed(par, S) => a \in S

LEMMA AboveBlock ==
  ASSUME NEW par, Parental(par), NEW b \in Blocks, NEW a, Above(par, a, b)
  PROVE  a \in Blocks
<1>1. UpClosed(par, Blocks)
  BY DEF UpClosed, Parental
<1> QED
  BY <1>1 DEF Above

LEMMA AboveSelf ==
  ASSUME NEW par, NEW b \in Blocks
  PROVE  Above(par, b, b)
  BY DEF Above

LEMMA AboveTransitive ==
  ASSUME NEW par, NEW a, NEW b, NEW c, Above(par, a, b), Above(par, b, c)
  PROVE  Above(par, a, c)
  BY DEF Above

LEMMA AboveParent ==
  ASSUME NEW par, Parental(par), NEW b \in Blocks, par[b] # NoBlock
  PROVE  Above(par, par[b], b)
  BY DEF Above, UpClosed

LEMMA AboveByParent ==
  ASSUME NEW par, Parental(par), NEW b \in Blocks, NEW a, Above(par, a, b), a # b
  PROVE  par[b] # NoBlock /\ par[b] \in Blocks /\ Above(par, a, par[b])
<1>1. par[b] # NoBlock
  <2>1. SUFFICES ASSUME par[b] = NoBlock PROVE a \in {b}
    OBVIOUS
  <2>2. UpClosed(par, {b})
    BY <2>1 DEF UpClosed
  <2> QED
    BY <2>2 DEF Above
<1>2. par[b] \in Blocks
  BY <1>1 DEF Parental
<1>3. ASSUME NEW S \in SUBSET Blocks, par[b] \in S, UpClosed(par, S)
      PROVE  a \in S
  <2>1. UpClosed(par, S \cup {b})
    BY <1>3 DEF UpClosed
  <2>2. a \in S \cup {b}
    BY <2>1, <1>3 DEF Above
  <2> QED
    BY <2>2
<1> QED
  BY <1>1, <1>2, <1>3 DEF Above

(* What is above a block depends on the parents of what is above it.        *)
LEMMA AboveSame ==
  ASSUME NEW par, NEW new, Parental(par), Parental(new), NEW S \in SUBSET Blocks, UpClosed(par, S),
         \A x \in S : new[x] = par[x], NEW b \in S, NEW a
  PROVE  Above(new, a, b) <=> Above(par, a, b)
<1>1. UpClosed(new, S)
  BY DEF UpClosed
<1>2. ASSUME Above(par, a, b), NEW T \in SUBSET Blocks, b \in T, UpClosed(new, T)
      PROVE  a \in T
  <2>1. UpClosed(par, S \cap T)
    BY <1>2 DEF UpClosed
  <2> QED
    BY <1>2, <2>1 DEF Above
<1>3. ASSUME Above(new, a, b), NEW T \in SUBSET Blocks, b \in T, UpClosed(par, T)
      PROVE  a \in T
  <2>1. UpClosed(new, S \cap T)
    BY <1>1, <1>3 DEF UpClosed
  <2> QED
    BY <1>3, <2>1 DEF Above
<1> QED
  BY <1>2, <1>3 DEF Above

-----------------------------------------------------------------------------
(* The entry leads to b without a step to d: b is in every set that holds   *)
(* the entry and is closed under taking children other than d.             *)
Graph(ch) == ch \in [Blocks -> SUBSET Blocks]
DownClosed(ch, d, S) == (Entry # d => Entry \in S) /\ \A x \in S : ch[x] \ {d} \subseteq S
Leads(ch, d, b) == \A S \in SUBSET Blocks : DownClosed(ch, d, S) => b \in S

LEMMA LeadsToEntry ==
  ASSUME NEW ch, NEW d, d # Entry
  PROVE  Leads(ch, d, Entry)
  BY DEF Leads, DownClosed

LEMMA LeadsToChild ==
  ASSUME NEW ch, NEW d, NEW b \in Blocks, Leads(ch, d, b), NEW c \in ch[b], c # d
  PROVE  Leads(ch, d, c)
  BY DEF Leads, DownClosed

LEMMA LeadsNot ==
  ASSUME NEW ch, Graph(ch), NEW d, NEW b \in Blocks, Leads(ch, d, b)
  PROVE  d # b /\ Leads(ch, NoBlock, b)
<1>1. DownClosed(ch, d, Blocks \ {d})
  BY BlocksAssumption DEF DownClosed, Graph
<1>2. d # b
  BY <1>1 DEF Leads
<1>3. ASSUME NEW S \in SUBSET Blocks, DownClosed(ch, NoBlock, S)
      PROVE  DownClosed(ch, d, S)
  <2>1. ASSUME NEW x \in S, NEW c \in ch[x] PROVE c \in S
    <3>1. c \in Blocks
      BY DEF Graph
    <3> QED
      BY <1>3, <2>1, <3>1, BlocksAssumption DEF DownClosed
  <2> QED
    BY <1>3, <2>1, BlocksAssumption DEF DownClosed
<1> QED
  BY <1>2, <1>3 DEF Leads

(* ReachedWithout is the least set that is closed: a round that finds       *)
(* nothing new is one of them, and there are more rounds than blocks.       *)
ChildrenOf(ch, S) == UNION {ch[b] : b \in S}
Round(ch, d) == [S \in SUBSET Blocks |-> S \cup (ChildrenOf(ch, S) \ {d})]

LEMMA RoundFinds ==
  ASSUME NEW ch, NEW d, NEW S \in SUBSET Blocks, NEW c
  PROVE  c \in Round(ch, d)[S] <=> c \in S \/ (c # d /\ \E x \in S : c \in ch[x])
<1>1. c \in ChildrenOf(ch, S) <=> \E x \in S : c \in ch[x]
  BY DEF ChildrenOf
<1>2. Round(ch, d)[S] = S \cup (ChildrenOf(ch, S) \ {d})
  BY DEF Round
<1> QED
  BY <1>1, <1>2

LEMMA Rounds ==
  ASSUME Graph(children), NEW d
  PROVE  \E f \in [0..Cardinality(Blocks) -> SUBSET Blocks] :
           /\ Iterates(f, {Entry} \ {d}, Round(children, d), Cardinality(Blocks))
           /\ ReachedWithout(d) = f[Cardinality(Blocks)]
<1> DEFINE n == Cardinality(Blocks)
           Is(f) == f = [i \in 0..n |-> IF i = 0 THEN {Entry} \ {d}
                          ELSE LET before == f[i - 1]
                               IN before \cup ((UNION {children[b] : b \in before}) \ {d})]
           g == CHOOSE f : Is(f)
<1>1. n \in Nat
  BY BlocksAssumption, FS_CardinalityType
<1>2. Round(children, d) \in [SUBSET Blocks -> SUBSET Blocks]
  BY DEF Round, ChildrenOf, Graph
<1>3. {Entry} \ {d} \in SUBSET Blocks
  BY BlocksAssumption
<1> HIDE DEF n
<1>4. PICK f \in [0..n -> SUBSET Blocks] : Iterates(f, {Entry} \ {d}, Round(children, d), n)
  BY <1>1, <1>2, <1>3, Iteration
<1>5. Is(f)
  <2>1. ASSUME NEW i \in 0..n, i # 0
        PROVE  f[i] = f[i - 1] \cup ((UNION {children[b] : b \in f[i - 1]}) \ {d})
    <3>1. i \in 1..n /\ i - 1 \in 0..n
      BY <1>1, <2>1
    <3>2. f[i] = Round(children, d)[f[i - 1]] /\ f[i - 1] \in SUBSET Blocks
      BY <1>4, <3>1 DEF Iterates
    <3>3. f[i] = f[i - 1] \cup (ChildrenOf(children, f[i - 1]) \ {d})
      BY <3>2 DEF Round
    <3> QED
      BY <3>3, Zenon DEF ChildrenOf
  <2> QED
    BY <1>1, <1>4, <2>1 DEF Iterates
<1>6. Is(g)
  BY <1>5
<1> HIDE DEF g
<1>7. \A i \in 1..n : g[i - 1] \in SUBSET Blocks => g[i] = Round(children, d)[g[i - 1]]
  <2> SUFFICES ASSUME NEW i \in 1..n, g[i - 1] \in SUBSET Blocks
               PROVE  g[i] = Round(children, d)[g[i - 1]]
    OBVIOUS
  <2>1. i # 0 /\ i \in 0..n
    BY <1>1
  <2>2. g[i] = g[i - 1] \cup ((UNION {children[b] : b \in g[i - 1]}) \ {d})
    BY <1>6, <2>1, Zenon
  <2>3. g[i] = g[i - 1] \cup (ChildrenOf(children, g[i - 1]) \ {d})
    BY <2>2, Zenon DEF ChildrenOf
  <2> QED
    BY <2>3 DEF Round
<1>8. g[0] = {Entry} \ {d} /\ DOMAIN g = 0..n
  BY <1>1, <1>6
<1>9. (\A i \in 0..n : g[i] \in SUBSET Blocks) /\ Iterates(g, {Entry} \ {d}, Round(children, d), n)
  BY <1>1, <1>2, <1>3, <1>7, <1>8, IteratesThroughout
<1>10. g = [i \in 0..n |-> g[i]]
  BY <1>6
<1>11. g \in [0..n -> SUBSET Blocks]
  BY <1>9, <1>10
<1>12. ReachedWithout(d) = g[n]
  BY DEF ReachedWithout, g, n
<1> QED
  BY <1>9, <1>11, <1>12 DEF n

LEMMA RoundsSaturate ==
  ASSUME Graph(children), NEW d
  PROVE  Round(children, d)[ReachedWithout(d)] = ReachedWithout(d) /\ ReachedWithout(d) \in SUBSET Blocks
<1> DEFINE n == Cardinality(Blocks)
           step == Round(children, d)
<1>1. n \in Nat /\ IsFiniteSet(Blocks)
  BY BlocksAssumption, FS_CardinalityType
<1>2. PICK f \in [0..n -> SUBSET Blocks] : Iterates(f, {Entry} \ {d}, step, n) /\ ReachedWithout(d) = f[n]
  BY Rounds
<1>3. step \in [SUBSET Blocks -> SUBSET Blocks] /\ \A S \in SUBSET Blocks : S \subseteq step[S]
  BY DEF Round, ChildrenOf, Graph
<1> HIDE DEF n, step
<1> DEFINE Good(i) == Cardinality(f[i]) >= i \/ step[f[i]] = f[i]
           Bad == {i \in Nat : i <= n /\ ~Good(i)}
<1>4. \A i \in 0..n : Good(i)
  <2> SUFFICES ASSUME Bad # {} PROVE FALSE
    BY <1>1
  <2>1. PICK k \in Bad : \A l \in Bad : k <= l
    BY SmallestElement
  <2>2. f[k] \in SUBSET Blocks /\ Cardinality(f[k]) \in Nat
    BY <1>1, <1>2, <2>1, FS_Subset, FS_CardinalityType
  <2>3. k # 0
    BY <2>1, <2>2
  <2> HIDE DEF Good
  <2>4. k - 1 \in Nat /\ k - 1 <= n /\ k - 1 \notin Bad /\ k \in 1..n /\ k - 1 \in 0..n
    BY <1>1, <2>1, <2>3
  <2> USE DEF Good
  <2>5. Good(k - 1) /\ f[k] = step[f[k - 1]] /\ f[k - 1] \in SUBSET Blocks
    BY <1>2, <2>4 DEF Iterates
  <2>6. f[k - 1] \subseteq f[k] /\ f[k - 1] # f[k]
    BY <1>3, <2>1, <2>5
  <2>7. Cardinality(f[k - 1]) >= k - 1
    BY <2>5, <2>6
  <2>8. IsFiniteSet(f[k]) /\ f[k - 1] \in SUBSET f[k]
    BY <1>1, <2>2, <2>6, FS_Subset
  <2>9. /\ Cardinality(f[k - 1]) <= Cardinality(f[k])
        /\ Cardinality(f[k]) = Cardinality(f[k - 1]) => f[k] = f[k - 1]
    BY <2>8, FS_Subset
  <2>10. Cardinality(f[k - 1]) \in Nat
    BY <2>8, FS_Subset, FS_CardinalityType
  <2>11. Cardinality(f[k]) >= k
    BY <2>1, <2>2, <2>6, <2>7, <2>9, <2>10
  <2> QED
    BY <2>1, <2>11
<1>5. Good(n) /\ f[n] \in SUBSET Blocks
  BY <1>1, <1>2, <1>4
<1>6. CASE Cardinality(f[n]) >= n
  <2>1. Cardinality(f[n]) <= n /\ (Cardinality(Blocks) = Cardinality(f[n]) => Blocks = f[n])
    BY <1>1, <1>5, FS_Subset DEF n
  <2>2. Cardinality(f[n]) \in Nat
    BY <1>1, <1>5, FS_Subset, FS_CardinalityType
  <2>3. f[n] = Blocks
    BY <1>1, <1>6, <2>1, <2>2 DEF n
  <2>4. step[Blocks] = Blocks
    <3>1. Blocks \in SUBSET Blocks
      OBVIOUS
    <3>2. step[Blocks] \in SUBSET Blocks /\ Blocks \subseteq step[Blocks]
      BY <1>3, <3>1
    <3> QED
      BY <3>2
  <2> QED
    BY <1>2, <1>5, <2>3, <2>4 DEF step
<1> QED
  BY <1>2, <1>5, <1>6 DEF step

LEMMA ReachedIsLeads ==
  ASSUME Graph(children), NEW d, NEW b \in Blocks
  PROVE  b \in ReachedWithout(d) <=> Leads(children, d, b)
<1> DEFINE n == Cardinality(Blocks)
           step == Round(children, d)
<1>1. n \in Nat
  BY BlocksAssumption, FS_CardinalityType
<1>2. PICK f \in [0..n -> SUBSET Blocks] : Iterates(f, {Entry} \ {d}, step, n) /\ ReachedWithout(d) = f[n]
  BY Rounds
<1> HIDE DEF n
<1>3. ASSUME NEW S \in SUBSET Blocks, DownClosed(children, d, S)
      PROVE  ReachedWithout(d) \subseteq S
  <2>1. ASSUME NEW T \in SUBSET S
        PROVE  step[T] \in SUBSET S
    <3>1. ASSUME NEW c \in step[T]
          PROVE  c \in S
      <4>1. c \in T \/ (c # d /\ \E x \in T : c \in children[x])
        BY <3>1, RoundFinds
      <4> QED
        BY <1>3, <4>1 DEF DownClosed
    <3> QED
      BY <3>1
  <2>2. {Entry} \ {d} \in SUBSET S
    BY <1>3 DEF DownClosed
  <2> HIDE DEF step
  <2> DEFINE T == SUBSET S
  <2>3. {Entry} \ {d} \in T /\ \A U \in T : step[U] \in T
    BY <2>1, <2>2
  <2> HIDE DEF T
  <2>4. \A i \in 0..n : f[i] \in T
    BY <1>1, <1>2, <2>3, IteratesIn
  <2> QED
    BY <1>1, <1>2, <2>4 DEF T
<1>4. ReachedWithout(d) \in SUBSET Blocks /\ DownClosed(children, d, ReachedWithout(d))
  <2>1. step[ReachedWithout(d)] = ReachedWithout(d) /\ ReachedWithout(d) \in SUBSET Blocks
    BY RoundsSaturate
  <2>3. ASSUME NEW x \in ReachedWithout(d), NEW c \in children[x] \ {d}
        PROVE  c \in ReachedWithout(d)
    BY <2>1, RoundFinds
  <2>4. {Entry} \ {d} \subseteq ReachedWithout(d)
    <3> DEFINE T == {S \in SUBSET Blocks : {Entry} \ {d} \subseteq S}
    <3>1. \A S \in T : step[S] \in T
      <4>1. step \in [SUBSET Blocks -> SUBSET Blocks]
        BY DEF Round, ChildrenOf, Graph
      <4>2. \A S \in SUBSET Blocks : S \subseteq step[S]
        BY DEF Round
      <4> QED
        BY <4>1, <4>2
    <3>2. {Entry} \ {d} \in T
      BY BlocksAssumption
    <3> HIDE DEF T, step
    <3>3. \A i \in 0..n : f[i] \in T
      BY <1>1, <1>2, <3>1, <3>2, IteratesIn
    <3> QED
      BY <1>1, <1>2, <3>3 DEF T
  <2> QED
    BY <2>1, <2>3, <2>4 DEF DownClosed
<1> QED
  BY <1>3, <1>4 DEF Leads

-----------------------------------------------------------------------------
(* The blocks visited have numbers, from 0 as in the code.                  *)
Distinct(s) == \A i, j \in DOMAIN s : s[i] = s[j] => i = j
Num(ord, b) == (CHOOSE i \in DOMAIN ord : ord[i] = b) - 1
Order(ord) == ord \in Seq(Blocks) /\ Distinct(ord)

LEMMA NumberOf ==
  ASSUME NEW ord, Order(ord), NEW i \in 1..Len(ord)
  PROVE  ord[i] \in SeqToSet(ord) /\ ord[i] \in Blocks /\ Num(ord, ord[i]) = i - 1
<1>1. i \in DOMAIN ord /\ ord[i] \in Blocks
  BY DEF Order
<1>2. \A j \in DOMAIN ord : ord[j] = ord[i] => j = i
  BY <1>1 DEF Order, Distinct
<1>3. (CHOOSE j \in DOMAIN ord : ord[j] = ord[i]) = i
  BY <1>1, <1>2
<1> QED
  BY <1>1, <1>3 DEF Num, SeqToSet

LEMMA Numbers ==
  ASSUME NEW ord, Order(ord), NEW b \in SeqToSet(ord)
  PROVE  /\ b \in Blocks
         /\ Num(ord, b) \in 0..(Len(ord) - 1)
         /\ ord[Num(ord, b) + 1] = b
<1>1. PICK i \in DOMAIN ord : ord[i] = b
  BY DEF SeqToSet
<1>2. i \in 1..Len(ord) /\ Len(ord) \in Nat
  BY <1>1 DEF Order
<1>3. b \in Blocks /\ Num(ord, b) = i - 1
  BY <1>1, <1>2, NumberOf
<1> QED
  BY <1>1, <1>2, <1>3

LEMMA SameNumber ==
  ASSUME NEW ord, Order(ord), NEW a \in SeqToSet(ord), NEW b \in SeqToSet(ord), Num(ord, a) = Num(ord, b)
  PROVE  a = b
  BY Numbers

LEMMA FirstOf ==
  ASSUME NEW ord, Order(ord), NEW S \in SUBSET SeqToSet(ord), S # {}
  PROVE  \E b \in S : \A c \in S : Num(ord, b) <= Num(ord, c)
<1> DEFINE T == {Num(ord, b) : b \in S}
<1>1. T \in SUBSET Nat /\ T # {}
  BY Numbers
<1>2. PICK x \in T : \A y \in T : x <= y
  BY <1>1, SmallestElement
<1> QED
  BY <1>2

LEMMA OrderIsShort ==
  ASSUME NEW ord, Order(ord)
  PROVE  Len(ord) <= Cardinality(Blocks) /\ Len(ord) \in Nat /\ Cardinality(Blocks) \in Nat
<1>1. Len(ord) \in Nat /\ Cardinality(Blocks) \in Nat
  BY BlocksAssumption, FS_CardinalityType DEF Order
<1> DEFINE n == Len(ord)
           D == 1..n
<1>2. ord \in Injection(D, Blocks)
  <2>1. ord \in [D -> Blocks] /\ DOMAIN ord = D
    BY DEF Order
  <2>2. \A i, j \in D : ord[i] = ord[j] => i = j
    BY <2>1 DEF Order, Distinct
  <2> HIDE DEF D
  <2> QED
    BY <2>1, <2>2 DEF Injection, IsInjective
<1>3. Cardinality(D) = IF 1 > n THEN 0 ELSE n - 1 + 1
  <2>1. 1 \in Int /\ n \in Int
    BY <1>1
  <2> HIDE DEF n
  <2> QED
    BY <2>1, FS_Interval, Zenon
<1> HIDE DEF D
<1>4. Cardinality(D) <= Cardinality(Blocks)
  BY <1>2, BlocksAssumption, FS_Injection
<1> QED
  BY <1>1, <1>3, <1>4

(* A visit adds the last number.                                           *)
LEMMA NumberOfNext ==
  ASSUME NEW ord, Order(ord), NEW v \in Blocks \ SeqToSet(ord)
  PROVE  /\ Order(Append(ord, v))
         /\ SeqToSet(Append(ord, v)) = SeqToSet(ord) \cup {v}
         /\ Num(Append(ord, v), v) = Len(ord)
         /\ \A b \in SeqToSet(ord) : Num(Append(ord, v), b) = Num(ord, b)
<1> DEFINE new == Append(ord, v)
           n == Len(ord)
<1>1. /\ n \in Nat /\ ord \in Seq(Blocks) /\ DOMAIN ord = 1..n
      /\ new \in Seq(Blocks) /\ Len(new) = n + 1 /\ DOMAIN new = 1..(n + 1)
      /\ new[n + 1] = v /\ \A i \in 1..n : new[i] = ord[i]
  BY DEF Order
<1>2. \A i \in 1..n : ord[i] # v
  BY <1>1 DEF SeqToSet
<1>3. Distinct(new)
  <2> SUFFICES ASSUME NEW i \in DOMAIN new, NEW j \in DOMAIN new, new[i] = new[j]
               PROVE  i = j
    BY DEF Distinct
  <2>1. i \in 1..n \/ i = n + 1
    BY <1>1
  <2>2. j \in 1..n \/ j = n + 1
    BY <1>1
  <2>3. \A k, l \in 1..n : ord[k] = ord[l] => k = l
    BY <1>1 DEF Order, Distinct
  <2> HIDE DEF new, n
  <2> QED
    BY <1>1, <1>2, <2>1, <2>2, <2>3
<1>4. Order(new)
  BY <1>1, <1>3 DEF Order
<1>5. SeqToSet(new) = SeqToSet(ord) \cup {v}
  <2> HIDE DEF new, n
  <2>1. \A i \in 1..(n + 1) : i \in 1..n \/ i = n + 1
    BY <1>1
  <2>2. n + 1 \in 1..(n + 1) /\ \A i \in 1..n : i \in 1..(n + 1)
    BY <1>1
  <2> QED
    BY <1>1, <2>1, <2>2 DEF SeqToSet
<1> HIDE DEF new, n
<1>6. Num(new, v) = n
  <2>1. n + 1 \in 1..Len(new)
    BY <1>1
  <2> QED
    BY <1>1, <1>4, <2>1, NumberOf
<1>7. ASSUME NEW b \in SeqToSet(ord) PROVE Num(new, b) = Num(ord, b)
  <2>1. PICK i \in 1..n : ord[i] = b
    BY <1>1 DEF SeqToSet
  <2>2. new[i] = b /\ i \in 1..Len(new)
    BY <1>1, <2>1
  <2> QED
    BY <1>4, <2>1, <2>2, NumberOf DEF n
<1> QED
  BY <1>4, <1>5, <1>6, <1>7 DEF new, n

-----------------------------------------------------------------------------
(* The tree that a finished search leaves. Below a block are the visited    *)
(* ones in an interval: what was visited between x and a block below x is   *)
(* below x too.                                                            *)
Root(ord, par) == ord # <<>> /\ ord[1] = Entry /\ par[Entry] = NoBlock

TreeEdges(ch, ord, par) ==
  \A b \in SeqToSet(ord) \ {Entry} :
    par[b] \in SeqToSet(ord) /\ b \in ch[par[b]] /\ Num(ord, par[b]) < Num(ord, b)

Intervals(ord, par) ==
  \A x, y, z \in SeqToSet(ord) :
    Above(par, x, y) /\ Num(ord, x) <= Num(ord, z) /\ Num(ord, z) <= Num(ord, y) => Above(par, x, z)

Tree(ch, ord, par) ==
  /\ Graph(ch) /\ Order(ord) /\ Parental(par)
  /\ Root(ord, par) /\ TreeEdges(ch, ord, par) /\ Intervals(ord, par)

LEMMA Types ==
  ASSUME NEW ch, NEW ord, NEW par, Tree(ch, ord, par)
  PROVE  /\ Entry \in SeqToSet(ord) /\ Num(ord, Entry) = 0
         /\ \A b \in SeqToSet(ord) : b \in Blocks /\ Num(ord, b) \in 0..(Len(ord) - 1) /\ Num(ord, b) \in Int
         /\ \A b \in SeqToSet(ord) : b # NoBlock /\ (Num(ord, b) = 0 => b = Entry)
<1>1. 1 \in 1..Len(ord)
  BY DEF Tree, Order, Root
<1>2. Entry \in SeqToSet(ord) /\ Num(ord, Entry) = 0
  BY <1>1, NumberOf DEF Tree, Root
<1>3. \A b \in SeqToSet(ord) : b \in Blocks /\ Num(ord, b) \in 0..(Len(ord) - 1) /\ Num(ord, b) \in Int
  BY Numbers DEF Tree
<1>4. \A b \in SeqToSet(ord) : Num(ord, b) = 0 => b = Entry
  BY <1>2, SameNumber DEF Tree
<1> QED
  BY <1>2, <1>3, <1>4, BlocksAssumption

LEMMA AboveVisited ==
  ASSUME NEW ch, NEW ord, NEW par, Tree(ch, ord, par), NEW b \in SeqToSet(ord), NEW a, Above(par, a, b)
  PROVE  a \in SeqToSet(ord) /\ Num(ord, a) <= Num(ord, b)
<1> DEFINE S == {x \in SeqToSet(ord) : Num(ord, x) <= Num(ord, b)}
<1>1. S \in SUBSET Blocks /\ b \in S
  BY Types
<1>2. UpClosed(par, S)
  <2> SUFFICES ASSUME NEW x \in S, par[x] # NoBlock
               PROVE  par[x] \in S
    BY DEF UpClosed
  <2>1. x # Entry /\ x \in SeqToSet(ord) /\ Num(ord, x) <= Num(ord, b)
    BY DEF Tree, Root
  <2>2. par[x] \in SeqToSet(ord) /\ Num(ord, par[x]) < Num(ord, x)
    BY <2>1 DEF Tree, TreeEdges
  <2> QED
    BY <2>1, <2>2, Types
<1> QED
  BY <1>1, <1>2 DEF Above

LEMMA AboveAnti ==
  ASSUME NEW ch, NEW ord, NEW par, Tree(ch, ord, par),
         NEW b \in SeqToSet(ord), NEW a, Above(par, a, b), a # b
  PROVE  /\ a \in SeqToSet(ord) /\ Num(ord, a) < Num(ord, b)
         /\ b # Entry /\ par[b] \in SeqToSet(ord) /\ Above(par, a, par[b])
<1>1. a \in SeqToSet(ord) /\ Num(ord, a) <= Num(ord, b)
  BY AboveVisited
<1>2. Num(ord, a) # Num(ord, b)
  BY <1>1, SameNumber DEF Tree
<1>3. par[b] # NoBlock /\ Above(par, a, par[b])
  BY Types, AboveByParent DEF Tree
<1>4. b # Entry
  BY <1>3 DEF Tree, Root
<1> QED
  BY <1>1, <1>2, <1>3, <1>4, Types DEF Tree, TreeEdges

LEMMA TreeParent ==
  ASSUME NEW ch, NEW ord, NEW par, Tree(ch, ord, par), NEW b \in SeqToSet(ord), b # Entry
  PROVE  /\ par[b] \in SeqToSet(ord) /\ Above(par, par[b], b) /\ b \in ch[par[b]]
         /\ Num(ord, par[b]) < Num(ord, b) /\ par[b] # b
<1>1. par[b] \in SeqToSet(ord) /\ b \in ch[par[b]] /\ Num(ord, par[b]) < Num(ord, b)
  BY DEF Tree, TreeEdges
<1> QED
  BY <1>1, Types, AboveParent DEF Tree

LEMMA Linear ==
  ASSUME NEW ch, NEW ord, NEW par, Tree(ch, ord, par), NEW v \in SeqToSet(ord),
         NEW a, Above(par, a, v), NEW b, Above(par, b, v), Num(ord, a) <= Num(ord, b)
  PROVE  Above(par, a, b)
<1>1. a \in SeqToSet(ord) /\ b \in SeqToSet(ord) /\ Num(ord, b) <= Num(ord, v)
  BY AboveVisited
<1> QED
  BY <1>1 DEF Tree, Intervals

LEMMA Between ==
  ASSUME NEW ch, NEW ord, NEW par, Tree(ch, ord, par), NEW x \in SeqToSet(ord), NEW y \in SeqToSet(ord),
         NEW z \in SeqToSet(ord), Above(par, x, y), Num(ord, x) <= Num(ord, z), Num(ord, z) <= Num(ord, y)
  PROVE  Above(par, x, z)
BY DEF Tree, Intervals

(* The way down the tree from a block that is reached.                      *)
LEMMA DownTheTree ==
  ASSUME NEW ch, NEW ord, NEW par, Tree(ch, ord, par), NEW b \in SeqToSet(ord),
         NEW a, Above(par, a, b), NEW e, Leads(ch, e, a),
         \A x \in SeqToSet(ord) : Above(par, x, b) /\ Above(par, a, x) /\ x # a => x # e
  PROVE  Leads(ch, e, b)
<1> DEFINE S == {x \in SeqToSet(ord) : Above(par, x, b) /\ Above(par, a, x) /\ ~Leads(ch, e, x)}
<1> SUFFICES ASSUME S # {} PROVE FALSE
  <2>1. b \in Blocks /\ Above(par, b, b)
    BY Types, AboveSelf
  <2> QED
    BY <2>1
<1>1. PICK x \in S : \A y \in S : Num(ord, x) <= Num(ord, y)
  <2>1. S \in SUBSET SeqToSet(ord)
    OBVIOUS
  <2> HIDE DEF S
  <2> QED
    BY <2>1, FirstOf DEF Tree
<1>2. x \in SeqToSet(ord) /\ Above(par, a, x) /\ Above(par, x, b) /\ x # a
  BY <1>1
<1>3. x # Entry /\ par[x] \in SeqToSet(ord) /\ Above(par, a, par[x])
  BY <1>2, AboveAnti
<1>4. x \in ch[par[x]] /\ Num(ord, par[x]) < Num(ord, x) /\ Above(par, par[x], x)
  BY <1>2, <1>3, TreeParent
<1>5. Above(par, par[x], b)
  BY <1>2, <1>4, AboveTransitive
<1>6. par[x] \notin S
  BY <1>1, <1>2, <1>3, <1>4, Types
<1>7. Leads(ch, e, par[x]) /\ par[x] \in Blocks
  BY <1>3, <1>5, <1>6, Types
<1>8. x # e
  BY <1>2
<1> QED
  BY <1>1, <1>4, <1>7, <1>8, LeadsToChild

LEMMA BelowTheEntry ==
  ASSUME NEW ch, NEW ord, NEW par, Tree(ch, ord, par), NEW b \in SeqToSet(ord)
  PROVE  Above(par, Entry, b)
<1> DEFINE S == {x \in SeqToSet(ord) : ~Above(par, Entry, x)}
<1> SUFFICES ASSUME S # {} PROVE FALSE
  OBVIOUS
<1>1. PICK x \in S : \A y \in S : Num(ord, x) <= Num(ord, y)
  <2>1. S \in SUBSET SeqToSet(ord)
    OBVIOUS
  <2> HIDE DEF S
  <2> QED
    BY <2>1, FirstOf DEF Tree
<1>2. x # Entry
  BY <1>1, BlocksAssumption, AboveSelf
<1>3. par[x] \in SeqToSet(ord) /\ Num(ord, par[x]) < Num(ord, x) /\ Above(par, par[x], x)
  BY <1>1, <1>2, TreeParent
<1>4. par[x] \notin S
  BY <1>1, <1>3, Types
<1> QED
  BY <1>1, <1>3, <1>4, AboveTransitive

(* A block that is not above b is not needed to reach b.                    *)
LEMMA Avoids ==
  ASSUME NEW ch, NEW ord, NEW par, Tree(ch, ord, par), NEW b \in SeqToSet(ord), NEW e, ~Above(par, e, b)
  PROVE  Leads(ch, e, b)
<1>1. Above(par, Entry, b)
  BY BelowTheEntry
<1>2. Leads(ch, e, Entry)
  BY <1>1, LeadsToEntry
<1> QED
  BY <1>1, <1>2, DownTheTree

LEMMA DownFromHigher ==
  ASSUME NEW ch, NEW ord, NEW par, Tree(ch, ord, par), NEW b \in SeqToSet(ord),
         NEW a, Above(par, a, b), NEW e, Leads(ch, e, a), Num(ord, e) < Num(ord, a)
  PROVE  Leads(ch, e, b)
<1>1. ASSUME NEW x \in SeqToSet(ord), Above(par, a, x)
      PROVE  x # e
  BY <1>1, AboveVisited, Types
<1> QED
  BY <1>1, DownTheTree

(* The child of x on the way to a block below.                             *)
LEMMA ChildTowards ==
  ASSUME NEW ch, NEW ord, NEW par, Tree(ch, ord, par), NEW v \in SeqToSet(ord),
         NEW x, Above(par, x, v), x # v
  PROVE  \E c \in SeqToSet(ord) : par[c] = x /\ Above(par, c, v)
<1> DEFINE S == {c \in SeqToSet(ord) : Above(par, c, v) /\ Above(par, x, c) /\ c # x}
<1>1. v \in S
  BY AboveSelf, Types
<1>2. PICK c \in S : \A y \in S : Num(ord, c) <= Num(ord, y)
  <2>1. S \in SUBSET SeqToSet(ord) /\ S # {}
    BY <1>1
  <2> HIDE DEF S
  <2> QED
    BY <2>1, FirstOf DEF Tree
<1>3. c # Entry /\ par[c] \in SeqToSet(ord) /\ Above(par, x, par[c])
  BY <1>2, AboveAnti
<1>4. Num(ord, par[c]) < Num(ord, c) /\ Above(par, par[c], c)
  BY <1>2, <1>3, TreeParent
<1>5. Above(par, par[c], v)
  BY <1>2, <1>4, AboveTransitive
<1>6. par[c] \notin S
  BY <1>2, <1>3, <1>4, Types
<1> QED
  BY <1>2, <1>3, <1>5, <1>6

-----------------------------------------------------------------------------
(* FindDFSTree                                                             *)
Seen(ord, st) == SeqToSet(ord) \cup SeqToSet(st)

SeenInv(ch, ord, par, st) ==
  /\ Entry \in Seen(ord, st) /\ par[Entry] = NoBlock
  /\ ord # <<>> => ord[1] = Entry
  /\ ord = <<>> => st = <<Entry>>
  /\ \A b \in Blocks \ Seen(ord, st) : par[b] = NoBlock
  /\ \A b \in Seen(ord, st) \ {Entry} : par[b] \in SeqToSet(ord) /\ b \in ch[par[b]]
  /\ TreeEdges(ch, ord, par)
  /\ \A b \in SeqToSet(ord) : ch[b] \subseteq Seen(ord, st)
  /\ \A b \in Seen(ord, st) : Leads(ch, NoBlock, b)
  /\ Intervals(ord, par)

(* The blocks on the stack wait in the order of their parents, and what was *)
(* visited since the parent is below it.                                   *)
StackInv(ord, par, st) ==
  /\ Distinct(st) /\ SeqToSet(st) \cap SeqToSet(ord) = {}
  /\ ord # <<>> => \A k \in DOMAIN st : \A z \in SeqToSet(ord) :
       Num(ord, par[st[k]]) <= Num(ord, z) => Above(par, par[st[k]], z)
  /\ ord # <<>> => \A k, l \in DOMAIN st : k <= l => Num(ord, par[st[k]]) <= Num(ord, par[st[l]])

SearchInv(ch, ord, par, st) ==
  /\ Graph(ch) /\ Order(ord) /\ Parental(par) /\ st \in Seq(Blocks)
  /\ SeenInv(ch, ord, par, st) /\ StackInv(ord, par, st)

LEMMA OrderOf ==
  ASSUME NEW S \in SUBSET Blocks, NEW s \in Orders(S)
  PROVE  s \in Seq(S) /\ SeqToSet(s) = S /\ Distinct(s)
<1> DEFINE n == Cardinality(S)
           D == 1..n
<1>1. IsFiniteSet(S) /\ n \in Nat
  BY BlocksAssumption, FS_Subset, FS_CardinalityType
<1>2. s \in [D -> S] /\ SeqToSet(s) = S
  BY DEF Orders
<1>3. s \in Seq(S)
  BY <1>1, <1>2
<1>4. IsFiniteSet(D) /\ Cardinality(D) = n
  <2>1. 1 \in Int /\ n \in Int
    BY <1>1
  <2> HIDE DEF n
  <2>2. IsFiniteSet(1..n) /\ Cardinality(1..n) = IF 1 > n THEN 0 ELSE n - 1 + 1
    BY <2>1, FS_Interval, Zenon
  <2> QED
    BY <1>1, <2>2
<1> HIDE DEF D
<1>5. s \in Surjection(D, S)
  BY <1>2 DEF Surjection, SeqToSet
<1>6. s \in Injection(D, S)
  BY <1>4, <1>5, FS_SurjSameCardinalityImpliesInj DEF n
<1>7. Distinct(s)
  BY <1>2, <1>6 DEF Distinct, Injection, IsInjective
<1> QED
  BY <1>2, <1>3, <1>7

(* The stack after a visit.                                                *)
LEMMA Pushed ==
  ASSUME NEW st \in Seq(Blocks), st # <<>>, NEW S \in SUBSET Blocks, NEW s \in Seq(S),
         NEW new, new = SubSeq(st, 1, Len(st) - 1) \o s
  PROVE  /\ new \in Seq(Blocks)
         /\ \A k \in DOMAIN new : (k \in DOMAIN st /\ k < Len(st) /\ new[k] = st[k])
                                  \/ (k >= Len(st) /\ k - Len(st) + 1 \in DOMAIN s /\ new[k] = s[k - Len(st) + 1])
         /\ DOMAIN st = 1..Len(st) /\ Len(st) \in Nat /\ Len(st) >= 1
         /\ \A k \in DOMAIN new : k \in Int
         /\ \A k \in DOMAIN st : k < Len(st) => k \in DOMAIN new /\ new[k] = st[k]
         /\ \A k \in DOMAIN s : k + Len(st) - 1 \in DOMAIN new /\ new[k + Len(st) - 1] = s[k]
<1> DEFINE n == Len(st)
           front == SubSeq(st, 1, n - 1)
<1>1. n \in Nat /\ n >= 1 /\ DOMAIN st = 1..n
  BY EmptySeq, LenProperties
<1>2. front \in Seq(Blocks) /\ Len(front) = n - 1 /\ \A k \in 1..(n - 1) : front[k] = st[k]
  BY <1>1
<1>3. s \in Seq(Blocks) /\ Len(s) \in Nat /\ DOMAIN s = 1..Len(s)
  BY LenProperties
<1> HIDE DEF front
<1>4. new = front \o s
  BY DEF front
<1>5. new \in Seq(Blocks) /\ Len(new) = n - 1 + Len(s) /\ DOMAIN new = 1..Len(new)
  BY <1>1, <1>2, <1>3, <1>4
<1>6. \A k \in 1..(n - 1) : new[k] = front[k]
  BY <1>1, <1>2, <1>3, <1>4
<1>7. \A k \in n..Len(new) : new[k] = s[k - n + 1]
  BY <1>1, <1>2, <1>3, <1>4, <1>5
<1> HIDE DEF n
<1>8. \A k \in DOMAIN new : (k \in DOMAIN st /\ k < n /\ new[k] = st[k])
                            \/ (k >= n /\ k - n + 1 \in DOMAIN s /\ new[k] = s[k - n + 1])
  <2> SUFFICES ASSUME NEW k \in DOMAIN new
               PROVE  (k \in DOMAIN st /\ k < n /\ new[k] = st[k])
                      \/ (k >= n /\ k - n + 1 \in DOMAIN s /\ new[k] = s[k - n + 1])
    OBVIOUS
  <2>1. CASE k < n
    <3>1. k \in 1..(n - 1) /\ k \in 1..n
      BY <1>1, <1>5, <2>1
    <3> QED
      BY <1>1, <1>2, <1>6, <2>1, <3>1
  <2>2. CASE k >= n
    <3>1. k \in n..Len(new) /\ k - n + 1 \in 1..Len(s)
      BY <1>1, <1>3, <1>5, <2>2
    <3> QED
      BY <1>3, <1>7, <2>2, <3>1
  <2> QED
    BY <1>1, <1>5, <2>1, <2>2
<1>9. \A k \in DOMAIN st : k < n => k \in DOMAIN new /\ new[k] = st[k]
  BY <1>1, <1>2, <1>3, <1>5, <1>6
<1>10. ASSUME NEW k \in DOMAIN s
       PROVE  k + n - 1 \in DOMAIN new /\ new[k + n - 1] = s[k]
  <2>1. k + n - 1 \in n..Len(new) /\ (k + n - 1) - n + 1 = k /\ k + n - 1 \in 1..Len(new)
    BY <1>1, <1>3, <1>5
  <2> QED
    BY <1>5, <1>7, <2>1
<1> QED
  BY <1>1, <1>5, <1>8, <1>9, <1>10 DEF n

LEMMA VisitKeeps ==
  ASSUME SearchInv(children, order, parent, stack), Visit
  PROVE  SearchInv(children', order', parent', stack')
<1> DEFINE n == Len(stack)
           v == stack[n]
           V == SeqToSet(order)
           T == SeqToSet(stack)
           unseen == children[v] \ (V \cup T)
<1>1. n \in Nat /\ n >= 1 /\ DOMAIN stack = 1..n /\ stack \in Seq(Blocks) /\ n \in DOMAIN stack
  <2>1. stack # <<>> /\ stack \in Seq(Blocks)
    BY DEF Visit, SearchInv
  <2> QED
    BY <2>1, EmptySeq, LenProperties
<1>2. v \in T /\ v \in Blocks /\ v \notin V
  <2>1. v \in T
    BY <1>1 DEF SeqToSet
  <2> QED
    BY <1>1, <2>1 DEF SearchInv, StackInv
<1>3. unseen \in SUBSET Blocks
  BY <1>2 DEF SearchInv, Graph
<1>4. PICK s \in Orders(unseen) : stack' = SubSeq(stack, 1, n - 1) \o s
  BY DEF Visit
<1>5. /\ order' = Append(order, v) /\ children' = children
      /\ parent' = [b \in Blocks |-> IF b \in unseen THEN v ELSE parent[b]]
  BY DEF Visit
<1>6. s \in Seq(unseen) /\ SeqToSet(s) = unseen /\ Distinct(s) /\ s \in Seq(Blocks)
  <2>1. s \in Seq(unseen) /\ SeqToSet(s) = unseen /\ Distinct(s)
    BY <1>3, <1>4, OrderOf
  <2>2. s \in Seq(Blocks)
    BY <1>3, <2>1
  <2> QED
    BY <2>1, <2>2
<1>7. /\ Order(order') /\ SeqToSet(order') = V \cup {v}
      /\ Num(order', v) = Len(order)
      /\ \A b \in V : Num(order', b) = Num(order, b)
  BY <1>2, <1>5, NumberOfNext DEF SearchInv
<1>8. \A b \in V : Num(order, b) \in 0..(Len(order) - 1) /\ b \in Blocks /\ Len(order) \in Nat
  BY Numbers DEF SearchInv, Order
<1>9. Len(order) \in Nat
  BY DEF SearchInv, Order
<1>10. order' # <<>> /\ (order = <<>> => v = Entry /\ V = {} /\ n = 1 /\ T = {Entry})
  <2>1. order' # <<>>
    BY <1>2, <1>5 DEF SearchInv, Order
  <2>2. ASSUME order = <<>> PROVE v = Entry /\ V = {} /\ n = 1 /\ T = {Entry}
    <3>1. stack = <<Entry>>
      BY <2>2 DEF SearchInv, SeenInv
    <3>2. n = 1 /\ v = Entry /\ DOMAIN stack = 1..1
      BY <3>1
    <3>3. T = {Entry}
      BY <3>1, <3>2 DEF SeqToSet
    <3>4. V = {}
      BY <2>2 DEF SeqToSet
    <3> QED
      BY <3>2, <3>3, <3>4
  <2> QED
    BY <2>1, <2>2
<1>11. /\ stack' \in Seq(Blocks)
       /\ \A k \in DOMAIN stack' : (k \in DOMAIN stack /\ k < n /\ stack'[k] = stack[k])
                                   \/ (k >= n /\ k - n + 1 \in DOMAIN s /\ stack'[k] = s[k - n + 1])
       /\ \A k \in DOMAIN stack' : k \in Int
       /\ \A k \in DOMAIN stack : k < n => k \in DOMAIN stack' /\ stack'[k] = stack[k]
       /\ \A k \in DOMAIN s : k + n - 1 \in DOMAIN stack' /\ stack'[k + n - 1] = s[k]
  <2>1. stack \in Seq(Blocks) /\ stack # <<>>
    BY DEF Visit, SearchInv
  <2>2. s \in Seq(unseen) /\ stack' = SubSeq(stack, 1, Len(stack) - 1) \o s
    BY <1>4, <1>6
  <2> DEFINE S == unseen
             new == stack'
  <2>3. S \in SUBSET Blocks /\ s \in Seq(S) /\ new = SubSeq(stack, 1, Len(stack) - 1) \o s
    BY <1>3, <2>2
  <2> HIDE DEF S, new
  <2>4. /\ new \in Seq(Blocks)
        /\ \A k \in DOMAIN new : (k \in DOMAIN stack /\ k < Len(stack) /\ new[k] = stack[k])
                                 \/ (k >= Len(stack) /\ k - Len(stack) + 1 \in DOMAIN s
                                     /\ new[k] = s[k - Len(stack) + 1])
        /\ \A k \in DOMAIN new : k \in Int
        /\ \A k \in DOMAIN stack : k < Len(stack) => k \in DOMAIN new /\ new[k] = stack[k]
        /\ \A k \in DOMAIN s : k + Len(stack) - 1 \in DOMAIN new /\ new[k + Len(stack) - 1] = s[k]
    BY <2>1, <2>3, Pushed
  <2> QED
    BY <2>4 DEF new
<1>12. Entry \in V \cup T
  BY DEF SearchInv, SeenInv, Seen
<1>13. \A k \in DOMAIN stack : stack[k] \in T /\ stack[k] \in Blocks
  BY <1>1 DEF SeqToSet
<1>14. \A k \in DOMAIN s : s[k] \in unseen
  BY <1>6 DEF SeqToSet
<1>15. T = {stack[k] : k \in {l \in DOMAIN stack : l < n}} \cup {v}
  BY <1>1 DEF SeqToSet
<1>16. \A k \in DOMAIN stack : k < n => stack[k] # v
  <2>1. \A k \in DOMAIN stack : stack[k] = stack[n] => k = n
    BY <1>1 DEF SearchInv, StackInv, Distinct
  <2> QED
    BY <1>1, <2>1
<1>17. Seen(order', stack') = V \cup T \cup unseen
  <2>1. ASSUME NEW b \in SeqToSet(stack') PROVE b \in V \cup T \cup unseen
    <3>1. PICK k \in DOMAIN stack' : stack'[k] = b
      BY <2>1 DEF SeqToSet
    <3> HIDE DEF unseen, n, T
    <3> QED
      BY <1>11, <1>13, <1>14, <3>1
  <2>2. ASSUME NEW b \in T PROVE b = v \/ b \in SeqToSet(stack')
    <3>1. CASE b # v
      <4>1. PICK k \in DOMAIN stack : k < n /\ b = stack[k]
        BY <1>15, <3>1
      <4> QED
        BY <1>11, <4>1 DEF SeqToSet
    <3> QED
      BY <3>1
  <2>3. ASSUME NEW b \in unseen PROVE b \in SeqToSet(stack')
    <3>1. PICK k \in DOMAIN s : s[k] = b
      BY <1>6 DEF SeqToSet
    <3> QED
      BY <1>11, <3>1 DEF SeqToSet
  <2> HIDE DEF unseen, n, T, V, v
  <2> QED
    BY <1>7, <1>2, <2>1, <2>2, <2>3 DEF Seen
<1>18. Parental(parent')
  BY <1>2, <1>5 DEF Parental, SearchInv
<1>19. \A b \in V \cup T : parent'[b] = parent[b] /\ b \in Blocks
  BY <1>1, <1>5, <1>8, <1>13 DEF SeqToSet
<1>20. \A b \in unseen : parent'[b] = v
  BY <1>3, <1>5
<1>21. UpClosed(parent, V \cup T)
  BY DEF UpClosed, SearchInv, SeenInv, Seen
<1>22. \A b \in V \cup T : \A a : Above(parent', a, b) <=> Above(parent, a, b)
  <2>1. Parental(parent) /\ V \cup T \in SUBSET Blocks
    BY <1>19 DEF SearchInv
  <2> HIDE DEF V, T
  <2> QED
    BY <1>18, <1>19, <1>21, <2>1, AboveSame
<1>23. v # Entry => parent[v] \in V /\ Above(parent, parent[v], v) /\ v \in children[parent[v]]
  <2> SUFFICES ASSUME v # Entry
               PROVE  parent[v] \in V /\ Above(parent, parent[v], v) /\ v \in children[parent[v]]
    OBVIOUS
  <2>1. parent[v] \in V /\ v \in children[parent[v]]
    BY <1>2 DEF SearchInv, SeenInv, Seen
  <2>2. parent[v] # NoBlock
    BY <1>8, <2>1, BlocksAssumption
  <2> QED
    BY <1>2, <2>1, <2>2, AboveParent DEF SearchInv
<1>24. order # <<>> => Entry \in V
  <2> SUFFICES ASSUME order # <<>> PROVE Entry \in V
    OBVIOUS
  <2>1. 1 \in 1..Len(order) /\ DOMAIN order = 1..Len(order)
    BY EmptySeq, LenProperties DEF SearchInv, Order
  <2>2. order[1] = Entry
    BY DEF SearchInv, SeenInv
  <2> QED
    BY <2>1, <2>2 DEF SeqToSet
<1> HIDE DEF n, v, V, T, unseen
<1>25. SeenInv(children', order', parent', stack')
  <2>1. Entry \in Seen(order', stack') /\ parent'[Entry] = NoBlock
    BY <1>12, <1>17, <1>19 DEF SearchInv, SeenInv
  <2>2. order' # <<>> => order'[1] = Entry
    <3>1. CASE order = <<>>
      BY <1>5, <1>10, <3>1
    <3>2. CASE order # <<>>
      <4>1. order \in Seq(Blocks) /\ order[1] = Entry
        BY <3>2 DEF SearchInv, SeenInv, Order
      <4> QED
        BY <1>5, <3>2, <4>1
    <3> QED
      BY <3>1, <3>2
  <2>3. ASSUME NEW b \in Blocks \ Seen(order', stack')
        PROVE  parent'[b] = NoBlock
    <3>1. b \notin V \cup T /\ b \notin unseen
      BY <1>17
    <3> QED
      BY <1>5, <3>1 DEF SearchInv, SeenInv, Seen, V, T
  <2>4. ASSUME NEW b \in Seen(order', stack') \ {Entry}
        PROVE  parent'[b] \in SeqToSet(order') /\ b \in children'[parent'[b]]
    <3>1. CASE b \in unseen
      BY <1>5, <1>7, <1>20, <3>1 DEF unseen
    <3>2. CASE b \in V \cup T
      <4>1. parent[b] \in V /\ b \in children[parent[b]]
        BY <3>2 DEF SearchInv, SeenInv, Seen, V, T
      <4> QED
        BY <1>5, <1>7, <1>19, <3>2, <4>1
    <3> QED
      BY <1>17, <3>1, <3>2
  <2>5. TreeEdges(children', order', parent')
    <3> SUFFICES ASSUME NEW b \in SeqToSet(order') \ {Entry}
                 PROVE  parent'[b] \in SeqToSet(order') /\ b \in children'[parent'[b]]
                        /\ Num(order', parent'[b]) < Num(order', b)
      BY DEF TreeEdges
    <3>1. CASE b = v
      <4>1. parent[v] \in V /\ parent'[v] = parent[v] /\ v \in children[parent[v]]
        BY <1>2, <1>19, <1>23, <3>1
      <4>2. Num(order', parent[v]) \in 0..(Len(order) - 1)
        BY <1>7, <1>8, <4>1
      <4> QED
        BY <1>5, <1>7, <1>9, <3>1, <4>1, <4>2
    <3>2. CASE b \in V
      <4>1. parent[b] \in V /\ b \in children[parent[b]] /\ Num(order, parent[b]) < Num(order, b)
        BY <3>2 DEF SearchInv, SeenInv, TreeEdges, V
      <4> QED
        BY <1>5, <1>7, <1>19, <3>2, <4>1
    <3> QED
      BY <1>7, <3>1, <3>2
  <2>6. ASSUME NEW b \in SeqToSet(order')
        PROVE  children'[b] \subseteq Seen(order', stack')
    <3>1. CASE b = v
      BY <1>5, <1>17, <3>1 DEF unseen
    <3>2. CASE b \in V
      BY <1>5, <1>17, <3>2 DEF SearchInv, SeenInv, Seen, V, T
    <3> QED
      BY <1>7, <3>1, <3>2
  <2>7. ASSUME NEW b \in Seen(order', stack')
        PROVE  Leads(children', NoBlock, b)
    <3>1. \A c \in V \cup T : Leads(children, NoBlock, c)
      BY DEF SearchInv, SeenInv, Seen, V, T
    <3>2. CASE b \in unseen
      <4>1. b \in children[v] /\ b # NoBlock
        BY <1>3, <3>2, BlocksAssumption DEF unseen
      <4> QED
        BY <1>2, <1>5, <3>1, <4>1, LeadsToChild
    <3> QED
      BY <1>5, <1>17, <3>1, <3>2
  <2>8. Intervals(order', parent')
    <3> SUFFICES ASSUME NEW x \in SeqToSet(order'), NEW y \in SeqToSet(order'), NEW z \in SeqToSet(order'),
                        Above(parent', x, y), Num(order', x) <= Num(order', z), Num(order', z) <= Num(order', y)
                 PROVE  Above(parent', x, z)
      BY DEF Intervals
    <3>1. \A b \in SeqToSet(order') : b = v \/ (b \in V /\ Num(order', b) < Len(order) /\ Num(order', b) \in Int)
      BY <1>7, <1>8
    <3>2. CASE z = v
      <4>1. y = v
        BY <1>7, <1>9, <3>1, <3>2
      <4> QED
        BY <3>2, <4>1
    <3>3. CASE z # v
      <4>1. z \in V /\ x \in V /\ x # v
        BY <1>7, <1>9, <1>2, <3>1, <3>3
      <4>2. \A a, b, c \in V : Above(parent, a, b) /\ Num(order, a) <= Num(order, c) /\ Num(order, c) <= Num(order, b)
                                 => Above(parent, a, c)
        BY DEF SearchInv, SeenInv, Intervals, V
      <4>3. Num(order, x) <= Num(order, z)
        BY <1>7, <4>1
      <4>4. CASE y # v
        <5>1. y \in V
          BY <3>1, <4>4
        <5>2. Num(order, z) <= Num(order, y) /\ Above(parent, x, y)
          BY <1>7, <1>22, <4>1, <5>1
        <5> QED
          BY <1>22, <4>1, <4>2, <4>3, <5>1, <5>2
      <4>5. CASE y = v
        <5>1. order # <<>> /\ v # Entry
          BY <1>2, <1>10, <1>24, <4>1 DEF V
        <5>2. Above(parent, x, v) /\ parent[v] \in V
          BY <1>2, <1>22, <1>23, <4>5, <5>1
        <5>3. Above(parent, x, parent[v])
          BY <1>2, <4>1, <5>2, AboveByParent DEF SearchInv
        <5>4. CASE Num(order, z) <= Num(order, parent[v])
          BY <1>22, <4>1, <4>2, <4>3, <5>2, <5>3, <5>4
        <5>5. CASE Num(order, parent[v]) <= Num(order, z)
          <6>1. Above(parent, parent[v], z)
            <7>1. \A k \in DOMAIN stack : Num(order, parent[stack[k]]) <= Num(order, z) => Above(parent, parent[stack[k]], z)
              BY <4>1, <5>1 DEF SearchInv, StackInv, V
            <7> QED
              BY <1>1, <5>5, <7>1 DEF v
          <6> QED
            BY <1>22, <4>1, <5>3, <6>1, AboveTransitive
        <5> QED
          BY <1>8, <4>1, <5>2, <5>4, <5>5
      <4> QED
        BY <4>4, <4>5
    <3> QED
      BY <3>2, <3>3
  <2> QED
    BY <1>10, <2>1, <2>2, <2>3, <2>4, <2>5, <2>6, <2>7, <2>8 DEF SeenInv
<1>26. StackInv(order', parent', stack')
  <2>1. Distinct(stack')
    <3> SUFFICES ASSUME NEW k \in DOMAIN stack', NEW l \in DOMAIN stack', stack'[k] = stack'[l]
                 PROVE  k = l
      BY DEF Distinct
    <3>1. \A i, j \in DOMAIN stack : stack[i] = stack[j] => i = j
      BY DEF SearchInv, StackInv, Distinct
    <3>2. \A i, j \in DOMAIN s : s[i] = s[j] => i = j
      BY <1>6 DEF Distinct
    <3>3. \A i \in DOMAIN stack : \A j \in DOMAIN s : stack[i] # s[j]
      BY <1>13, <1>14 DEF unseen
    <3>4. k \in Int /\ l \in Int
      BY <1>11
    <3>5. (k \in DOMAIN stack /\ k < n /\ stack'[k] = stack[k])
          \/ (k >= n /\ k - n + 1 \in DOMAIN s /\ stack'[k] = s[k - n + 1])
      BY <1>11
    <3>6. (l \in DOMAIN stack /\ l < n /\ stack'[l] = stack[l])
          \/ (l >= n /\ l - n + 1 \in DOMAIN s /\ stack'[l] = s[l - n + 1])
      BY <1>11
    <3> QED
      BY <1>1, <3>1, <3>2, <3>3, <3>4, <3>5, <3>6
  <2>2. SeqToSet(stack') \cap SeqToSet(order') = {}
    <3> SUFFICES ASSUME NEW k \in DOMAIN stack'
                 PROVE  stack'[k] \notin V \cup {v}
      BY <1>7 DEF SeqToSet
    <3>1. T \cap V = {}
      BY DEF SearchInv, StackInv, T, V
    <3>2. \A b \in unseen : b \notin V \cup {v}
      BY <1>2 DEF unseen
    <3> QED
      BY <1>11, <1>13, <1>14, <1>16, <3>1, <3>2
  <2>3. ASSUME NEW k \in DOMAIN stack'
        PROVE  \/ parent'[stack'[k]] = v /\ k >= n
               \/ /\ k \in DOMAIN stack /\ k < n /\ order # <<>> /\ v # Entry
                  /\ parent'[stack'[k]] = parent[stack[k]] /\ parent[stack[k]] \in V
    <3>1. CASE k >= n /\ k - n + 1 \in DOMAIN s /\ stack'[k] = s[k - n + 1]
      BY <1>14, <1>20, <3>1
    <3>2. CASE k \in DOMAIN stack /\ k < n /\ stack'[k] = stack[k]
      <4>1. stack[k] # v /\ stack[k] \in T
        BY <1>13, <1>16, <3>2
      <4>2. order # <<>>
        BY <1>10, <4>1
      <4>3. v # Entry /\ stack[k] # Entry
        <5>1. T \cap V = {}
          BY DEF SearchInv, StackInv, T, V
        <5> QED
          BY <1>2, <1>24, <4>1, <4>2, <5>1
      <4>4. parent[stack[k]] \in V
        BY <4>1, <4>3 DEF SearchInv, SeenInv, Seen, T, V
      <4> QED
        BY <1>19, <3>2, <4>1, <4>2, <4>3, <4>4
    <3> QED
      BY <1>11, <3>1, <3>2
  <2>4. ASSUME NEW k \in DOMAIN stack, k < n, order # <<>>, v # Entry
        PROVE  Num(order, parent[stack[k]]) <= Num(order, parent[v])
    <3>1. k <= n
      BY <1>1, <2>4
    <3> QED
      BY <1>1, <2>4, <3>1 DEF SearchInv, StackInv, v
  <2>5. ASSUME NEW k \in DOMAIN stack', NEW z \in SeqToSet(order'),
               Num(order', parent'[stack'[k]]) <= Num(order', z)
        PROVE  Above(parent', parent'[stack'[k]], z)
    <3>1. CASE parent'[stack'[k]] = v
      <4>1. z = v
        BY <1>7, <1>8, <2>5, <3>1
      <4> QED
        BY <1>2, <3>1, <4>1, AboveSelf
    <3>2. CASE /\ k \in DOMAIN stack /\ k < n /\ order # <<>> /\ v # Entry
               /\ parent'[stack'[k]] = parent[stack[k]] /\ parent[stack[k]] \in V
      <4>1. \A b \in V : Num(order, parent[stack[k]]) <= Num(order, b) => Above(parent, parent[stack[k]], b)
        BY <3>2 DEF SearchInv, StackInv, V
      <4>2. CASE z \in V
        BY <1>7, <1>22, <2>5, <3>2, <4>1, <4>2
      <4>3. CASE z = v
        <5>1. Above(parent, parent[stack[k]], parent[v])
          BY <1>23, <2>4, <3>2, <4>1
        <5> QED
          BY <1>2, <1>22, <1>23, <3>2, <4>3, <5>1, AboveTransitive
      <4> QED
        BY <1>7, <4>2, <4>3
    <3> QED
      BY <2>3, <3>1, <3>2
  <2>6. ASSUME NEW k \in DOMAIN stack', NEW l \in DOMAIN stack', k <= l
        PROVE  Num(order', parent'[stack'[k]]) <= Num(order', parent'[stack'[l]])
    <3>1. k \in Int /\ l \in Int
      BY <1>11
    <3>2. CASE parent'[stack'[l]] = v
      BY <1>7, <1>8, <1>9, <2>3, <3>2
    <3>3. CASE l < n
      <4>1. k < n
        BY <1>1, <2>6, <3>1, <3>3
      <4>2. /\ k \in DOMAIN stack /\ order # <<>>
            /\ parent'[stack'[k]] = parent[stack[k]] /\ parent[stack[k]] \in V
        BY <1>1, <2>3, <3>1, <4>1
      <4>3. /\ l \in DOMAIN stack
            /\ parent'[stack'[l]] = parent[stack[l]] /\ parent[stack[l]] \in V
        BY <1>1, <2>3, <3>1, <3>3
      <4>4. Num(order, parent[stack[k]]) <= Num(order, parent[stack[l]])
        BY <2>6, <4>2, <4>3 DEF SearchInv, StackInv
      <4> QED
        BY <1>7, <4>2, <4>3, <4>4
    <3> QED
      BY <2>3, <3>2, <3>3
  <2> QED
    BY <2>1, <2>2, <2>5, <2>6 DEF StackInv
<1> QED
  BY <1>5, <1>7, <1>11, <1>18, <1>25, <1>26 DEF SearchInv, Graph

LEMMA SearchBegins ==
  ASSUME Graph(children), NoContext
  PROVE  SearchInv(children, order, parent, <<Entry>>)
<1>1. order = <<>> /\ parent = [b \in Blocks |-> NoBlock]
  BY DEF NoContext
<1>2. Order(order) /\ SeqToSet(order) = {} /\ DOMAIN order = {}
  BY <1>1 DEF Order, Distinct, SeqToSet
<1>3. SeqToSet(<<Entry>>) = {Entry} /\ Distinct(<<Entry>>) /\ <<Entry>> \in Seq(Blocks)
  BY BlocksAssumption DEF SeqToSet, Distinct
<1>4. Seen(order, <<Entry>>) = {Entry}
  BY <1>2, <1>3 DEF Seen
<1>5. Leads(children, NoBlock, Entry)
  BY BlocksAssumption, LeadsToEntry
<1>6. SeenInv(children, order, parent, <<Entry>>)
  BY <1>1, <1>2, <1>4, <1>5, BlocksAssumption DEF SeenInv, TreeEdges, Intervals
<1>7. StackInv(order, parent, <<Entry>>)
  BY <1>1, <1>2, <1>3 DEF StackInv
<1> QED
  BY <1>1, <1>2, <1>3, <1>6, <1>7 DEF SearchInv, Parental

Searched(ch, ord, par) ==
  /\ Tree(ch, ord, par)
  /\ \A b \in Blocks : b \in SeqToSet(ord) <=> Leads(ch, NoBlock, b)
  /\ \A b \in SeqToSet(ord) : ch[b] \subseteq SeqToSet(ord)

LEMMA SearchFinds ==
  ASSUME NEW ch, NEW ord, NEW par, SearchInv(ch, ord, par, <<>>)
  PROVE  Searched(ch, ord, par)
<1>1. Seen(ord, <<>>) = SeqToSet(ord)
  BY DEF Seen, SeqToSet
<1>2. ord # <<>> /\ Root(ord, par)
  BY DEF SearchInv, SeenInv, Root
<1>3. Tree(ch, ord, par)
  BY <1>2 DEF SearchInv, SeenInv, Tree
<1>4. \A b \in SeqToSet(ord) : Leads(ch, NoBlock, b) /\ ch[b] \subseteq SeqToSet(ord)
  BY <1>1 DEF SearchInv, SeenInv
<1>5. ASSUME NEW b, Leads(ch, NoBlock, b) PROVE b \in SeqToSet(ord)
  <2>1. SeqToSet(ord) \in SUBSET Blocks /\ Entry \in SeqToSet(ord)
    BY <1>3, Types
  <2>2. DownClosed(ch, NoBlock, SeqToSet(ord))
    BY <1>4, <2>1 DEF DownClosed
  <2> QED
    BY <1>5, <2>1, <2>2 DEF Leads
<1> QED
  BY <1>3, <1>4, <1>5 DEF Searched

-----------------------------------------------------------------------------
(* The way up the tree, and what Eval finds on it.                          *)
Towards(P) == [b \in Blocks \cup {NoBlock} |-> IF b \in P THEN parent[b] ELSE NoBlock]

LEMMA WayIs ==
  ASSUME Parental(parent), NEW v \in Blocks, NEW P \in SUBSET Blocks
  PROVE  \E f \in [0..Cardinality(Blocks) -> Blocks \cup {NoBlock}] :
           Iterates(f, v, Towards(P), Cardinality(Blocks)) /\ Way(v, P) = f
<1> DEFINE n == Cardinality(Blocks)
           D == Blocks \cup {NoBlock}
           Is(f) == f = [i \in 0..n |-> IF i = 0 THEN v
                          ELSE IF f[i - 1] \in P THEN parent[f[i - 1]] ELSE NoBlock]
           g == CHOOSE f : Is(f)
<1>1. n \in Nat
  BY BlocksAssumption, FS_CardinalityType
<1>2. Towards(P) \in [D -> D]
  BY DEF Towards, Parental
<1>3. \A b \in D : Towards(P)[b] = IF b \in P THEN parent[b] ELSE NoBlock
  BY DEF Towards
<1> HIDE DEF n
<1>4. PICK f \in [0..n -> D] : Iterates(f, v, Towards(P), n)
  BY <1>1, <1>2, Iteration
<1>5. Is(f)
  <2>1. ASSUME NEW i \in 0..n, i # 0
        PROVE  f[i] = IF f[i - 1] \in P THEN parent[f[i - 1]] ELSE NoBlock
    <3>1. i \in 1..n /\ i - 1 \in 0..n
      BY <1>1, <2>1
    <3>2. f[i] = Towards(P)[f[i - 1]] /\ f[i - 1] \in D
      BY <1>4, <3>1 DEF Iterates
    <3> HIDE DEF D
    <3> QED
      BY <1>3, <3>2
  <2> QED
    BY <1>1, <1>4, <2>1 DEF Iterates
<1>6. Is(g)
  BY <1>5
<1> HIDE DEF g
<1>7. \A i \in 1..n : g[i - 1] \in D => g[i] = Towards(P)[g[i - 1]]
  <2> SUFFICES ASSUME NEW i \in 1..n, g[i - 1] \in D
               PROVE  g[i] = Towards(P)[g[i - 1]]
    OBVIOUS
  <2>1. i # 0 /\ i \in 0..n
    BY <1>1
  <2>2. g[i] = IF g[i - 1] \in P THEN parent[g[i - 1]] ELSE NoBlock
    BY <1>6, <2>1, Zenon
  <2> QED
    BY <1>3, <2>2
<1>8. g[0] = v /\ DOMAIN g = 0..n
  BY <1>1, <1>6
<1> HIDE DEF D
<1>9. (\A i \in 0..n : g[i] \in D) /\ Iterates(g, v, Towards(P), n)
  <2>1. v \in D
    BY DEF D
  <2> QED
    BY <1>1, <1>2, <1>7, <1>8, <2>1, IteratesThroughout
<1>10. g = [i \in 0..n |-> g[i]]
  BY <1>6
<1>11. g \in [0..n -> D]
  BY <1>9, <1>10
<1>12. Way(v, P) = g
  BY DEF Way, g, n
<1> QED
  BY <1>9, <1>11, <1>12 DEF n, D

(* On the way are blocks above v...                                        *)
LEMMA WayIsAbove ==
  ASSUME Parental(parent), NEW v \in Blocks, NEW P \in SUBSET Blocks, NEW i \in 0..Cardinality(Blocks),
         Way(v, P)[i] # NoBlock
  PROVE  Above(parent, Way(v, P)[i], v)
<1> DEFINE T == {b \in Blocks : Above(parent, b, v)} \cup {NoBlock}
<1>1. Cardinality(Blocks) \in Nat
  BY BlocksAssumption, FS_CardinalityType
<1>2. PICK f : Iterates(f, v, Towards(P), Cardinality(Blocks)) /\ Way(v, P) = f
  BY WayIs
<1>3. v \in T
  BY AboveSelf
<1>4. ASSUME NEW b \in T PROVE Towards(P)[b] \in T
  <2>1. Towards(P)[b] = IF b \in P THEN parent[b] ELSE NoBlock
    BY DEF Towards
  <2>2. CASE b \in P /\ parent[b] # NoBlock
    <3>1. parent[b] \in Blocks /\ Above(parent, parent[b], b) /\ Above(parent, b, v)
      BY <2>2, AboveParent, BlocksAssumption DEF Parental
    <3> QED
      BY <2>1, <2>2, <3>1, AboveTransitive
  <2> QED
    BY <2>1, <2>2
<1> HIDE DEF T
<1>5. \A j \in 0..Cardinality(Blocks) : f[j] \in T
  BY <1>1, <1>2, <1>3, <1>4, IteratesIn
<1> QED
  BY <1>2, <1>5 DEF T

(* ... all of those with a number that is not less than those of P.         *)
LEMMA AboveIsOnWay ==
  ASSUME Tree(children, order, parent), NEW v \in SeqToSet(order), NEW P \in SUBSET SeqToSet(order),
         NEW k \in Nat, \A b \in SeqToSet(order) : b \in P <=> Num(order, b) >= k /\ b # Entry,
         NEW y \in P, Above(parent, y, v)
  PROVE  \E i \in 0..Cardinality(Blocks) : Way(v, P)[i] = y
<1> DEFINE n == Cardinality(Blocks)
           No(b) == Num(order, b)
<1> SUFFICES ASSUME \A i \in 0..n : Way(v, P)[i] # y PROVE FALSE
  OBVIOUS
<1>1. n \in Nat /\ Len(order) \in Nat /\ Len(order) <= n
  BY OrderIsShort DEF Tree
<1>2. P \in SUBSET Blocks /\ v \in Blocks
  BY Types
<1>3. PICK f : Iterates(f, v, Towards(P), n) /\ Way(v, P) = f
  BY <1>2, WayIs DEF Tree
<1> HIDE DEF n
<1> DEFINE Good(i) == f[i] \in SeqToSet(order) /\ Above(parent, y, f[i]) /\ No(f[i]) <= No(v) - i
           Bad == {i \in Nat : i <= n /\ ~Good(i)}
<1>4. CASE Bad = {}
  <2>1. Good(n)
    BY <1>1, <1>4
  <2> QED
    BY <1>1, <2>1, Types
<1>5. CASE Bad # {}
  <2>1. PICK i \in Bad : \A j \in Bad : i <= j
    BY <1>5, SmallestElement
  <2>2. f[0] = v /\ No(v) \in Int
    BY <1>3, Types DEF Iterates
  <2>3. i # 0
    BY <2>1, <2>2
  <2>4. i - 1 \in Nat /\ i - 1 <= n /\ i - 1 \notin Bad /\ i \in 1..n /\ i - 1 \in 0..n
    BY <1>1, <2>1, <2>3
  <2>5. Good(i - 1) /\ f[i - 1] # y
    BY <1>3, <2>4
  <2> DEFINE b == f[i - 1]
  <2>6. f[i] = Towards(P)[b]
    BY <1>3, <2>4 DEF Iterates
  <2> HIDE DEF b
  <2>7. b \in SeqToSet(order) /\ Above(parent, y, b) /\ No(b) <= No(v) - (i - 1) /\ b # y
    BY <2>5 DEF b
  <2>8. b # Entry /\ parent[b] \in SeqToSet(order) /\ Above(parent, y, parent[b]) /\ No(y) < No(b)
    BY <2>7, AboveAnti
  <2>9. b \in P
    BY <2>7, <2>8, Types
  <2>10. f[i] = parent[b]
    BY <1>2, <2>6, <2>9 DEF Towards
  <2>11. No(parent[b]) < No(b)
    BY <2>7, <2>8, TreeParent
  <2>12. No(parent[b]) <= No(v) - i
    BY <2>2, <2>4, <2>7, <2>8, <2>11, Types
  <2> QED
    BY <2>1, <2>8, <2>10, <2>12
<1> QED
  BY <1>4, <1>5

LEMMA ForwardEdges ==
  ASSUME Tree(children, order, parent), IsDepthFirst,
         NEW a \in SeqToSet(order), NEW b \in SeqToSet(order), Num(order, a) < Num(order, b), b \in children[a]
  PROVE  Above(parent, a, b)
<1> DEFINE i == Num(order, a) + 1
           j == Num(order, b) + 1
<1>1. i \in DOMAIN order /\ order[i] = a /\ j \in DOMAIN order /\ order[j] = b /\ i < j
  BY Numbers DEF Tree, Order
<1>2. a \in SeqToSet(Way(b, Blocks)) /\ a # NoBlock
  BY <1>1, Types DEF IsDepthFirst
<1>3. b \in Blocks /\ Parental(parent) /\ Blocks \in SUBSET Blocks
  BY Types DEF Tree
<1>4. PICK f \in [0..Cardinality(Blocks) -> Blocks \cup {NoBlock}] : Way(b, Blocks) = f
  BY <1>3, WayIs
<1>5. PICK k \in 0..Cardinality(Blocks) : f[k] = a
  BY <1>2, <1>4 DEF SeqToSet
<1> QED
  BY <1>2, <1>3, <1>4, <1>5, WayIsAbove

LEMMA EvalOutside ==
  ASSUME Parental(parent), NEW v \in Blocks, NEW P \in SUBSET Blocks, v \notin P, NEW semi
  PROVE  Eval(v, P, semi) = v
<1> DEFINE n == Cardinality(Blocks)
           T == {v, NoBlock}
<1>1. n \in Nat
  BY BlocksAssumption, FS_CardinalityType
<1>2. PICK f \in [0..n -> Blocks \cup {NoBlock}] : Iterates(f, v, Towards(P), n) /\ Way(v, P) = f
  BY WayIs
<1>3. v \in T /\ \A b \in T : Towards(P)[b] \in T
  BY BlocksAssumption DEF Towards
<1> HIDE DEF T, n
<1>4. \A i \in 0..n : f[i] \in T
  BY <1>1, <1>2, <1>3, IteratesIn
<1>5. \A i \in DOMAIN f : f[i] \notin P
  BY <1>2, <1>4, BlocksAssumption DEF T
<1> QED
  BY <1>2, <1>5 DEF Eval

LEMMA EvalInside ==
  ASSUME Tree(children, order, parent), NEW v \in SeqToSet(order), NEW P \in SUBSET SeqToSet(order),
         NEW k \in Nat, \A b \in SeqToSet(order) : b \in P <=> Num(order, b) >= k /\ b # Entry, v \in P,
         NEW semi \in [Blocks -> Int], \A b \in Blocks : semi[b] >= -1
  PROVE  /\ Eval(v, P, semi) \in P /\ Above(parent, Eval(v, P, semi), v)
         /\ \A y \in P : Above(parent, y, v) => semi[Eval(v, P, semi)] <= semi[y]
<1> DEFINE n == Cardinality(Blocks)
           f == Way(v, P)
           onWay == {i \in DOMAIN f : f[i] \in P}
           Best(i) == \A m \in onWay : semi[f[i]] < semi[f[m]] \/ (semi[f[i]] = semi[f[m]] /\ i <= m)
           first == CHOOSE i \in onWay : Best(i)
<1>1. n \in Nat
  BY BlocksAssumption, FS_CardinalityType
<1>2. P \in SUBSET Blocks /\ v \in Blocks
  BY Types
<1>3. f \in [0..n -> Blocks \cup {NoBlock}] /\ f[0] = v
  BY <1>2, WayIs DEF Iterates, Tree
<1> HIDE DEF f, n
<1>4. onWay \subseteq 0..n /\ 0 \in onWay
  BY <1>1, <1>3
<1>5. \A i \in onWay : f[i] \in P /\ semi[f[i]] \in Int /\ semi[f[i]] >= -1
  BY <1>2
<1> HIDE DEF onWay
<1>6. \E i \in onWay : Best(i)
  <2> DEFINE T == {semi[f[i]] + 1 : i \in onWay}
  <2>1. T \in SUBSET Nat /\ T # {}
    <3>1. \A i \in onWay : semi[f[i]] + 1 \in Nat
      BY <1>5
    <3>2. semi[f[0]] + 1 \in T
      BY <1>4
    <3> QED
      BY <3>1, <3>2
  <2>2. PICK x \in T : \A y \in T : x <= y
    BY <2>1, SmallestElement
  <2> DEFINE U == {i \in onWay : semi[f[i]] + 1 = x}
  <2>3. U \in SUBSET Nat /\ U # {}
    <3>1. \A i \in onWay : i \in Nat
      BY <1>1, <1>4
    <3>2. PICK i \in onWay : semi[f[i]] + 1 = x
      BY <2>2
    <3>3. i \in U
      BY <3>2
    <3> QED
      BY <3>1, <3>3
  <2>4. PICK i \in U : \A j \in U : i <= j
    BY <2>3, SmallestElement
  <2>5. i \in onWay
    BY <2>4
  <2>6. ASSUME NEW m \in onWay
        PROVE  semi[f[i]] < semi[f[m]] \/ (semi[f[i]] = semi[f[m]] /\ i <= m)
    <3>1. x <= semi[f[m]] + 1 /\ semi[f[i]] + 1 = x
      BY <2>2, <2>4
    <3>2. CASE x = semi[f[m]] + 1
      BY <1>5, <2>4, <2>5, <3>1, <3>2
    <3>3. CASE x # semi[f[m]] + 1
      BY <1>5, <2>5, <3>1, <3>3
    <3> QED
      BY <3>2, <3>3
  <2> QED
    BY <2>5, <2>6
<1>7. first \in onWay /\ Best(first)
  BY <1>6
<1>8. Eval(v, P, semi) = f[first]
  <2>1. Eval(v, P, semi) = IF onWay = {} THEN v ELSE f[first]
    BY DEF Eval, f, onWay
  <2> QED
    BY <1>4, <2>1
<1> HIDE DEF first
<1>9. f[first] \in P /\ first \in 0..n /\ f[first] # NoBlock
  BY <1>2, <1>4, <1>5, <1>7, BlocksAssumption
<1>10. Above(parent, f[first], v)
  BY <1>2, <1>9, WayIsAbove DEF Tree, f, n
<1>11. ASSUME NEW y \in P, Above(parent, y, v) PROVE semi[f[first]] <= semi[y]
  <2>1. PICK i \in 0..n : f[i] = y
    BY <1>11, AboveIsOnWay DEF f, n
  <2>2. i \in onWay
    BY <1>3, <2>1 DEF onWay
  <2> QED
    BY <1>5, <1>7, <2>1, <2>2
<1> QED
  BY <1>8, <1>9, <1>10, <1>11

-----------------------------------------------------------------------------
(* FindImplicitIDoms. The semidominator of a block w is above it, and is    *)
(* the smallest block from which w is reached over larger ones; whatever    *)
(* smaller block leads to it leads past it to w.                           *)
Forward(ch, ord, par) ==
  \A a, b \in SeqToSet(ord) : Num(ord, a) < Num(ord, b) /\ b \in ch[a] => Above(par, a, b)

From(ord, n) == {b \in SeqToSet(ord) : Num(ord, b) >= n /\ b # Entry}

SemiOf(ord, sd, b) == ord[sd[b] + 1]

ParentsBound(ch, ord, par, sd, w) ==
  \A p \in Blocks : w \in ch[p] =>
    /\ p \in SeqToSet(ord)
    /\ Num(ord, p) < Num(ord, w) => sd[w] <= Num(ord, p)
    /\ \A u \in SeqToSet(ord) : Above(par, u, p) /\ Num(ord, u) > Num(ord, w) => sd[w] <= sd[u]

Bypassed(ch, ord, sd, w) ==
  \A e \in SeqToSet(ord) :
    /\ Num(ord, e) < Num(ord, w) /\ e # SemiOf(ord, sd, w)
    /\ Leads(ch, e, SemiOf(ord, sd, w))
    => Leads(ch, e, w)

SemiInv(ch, ord, par, sd, w) ==
  /\ sd[w] \in Int /\ sd[w] >= 0 /\ sd[w] <= Num(ord, par[w])
  /\ Above(par, SemiOf(ord, sd, w), w)
  /\ ParentsBound(ch, ord, par, sd, w)
  /\ Bypassed(ch, ord, sd, w)

LEMMA SmallestOf ==
  ASSUME NEW S \in SUBSET Int, S # {}, \A x \in S : x >= -1
  PROVE  Smallest(S) \in S /\ \A x \in S : Smallest(S) <= x
<1> DEFINE T == {x + 1 : x \in S}
<1>1. T \in SUBSET Nat /\ T # {}
  <2>1. \A x \in S : x + 1 \in Nat
    OBVIOUS
  <2>2. PICK x : x \in S
    OBVIOUS
  <2>3. x + 1 \in T
    BY <2>2
  <2> QED
    BY <2>1, <2>3
<1>2. PICK y \in T : \A z \in T : y <= z
  BY <1>1, SmallestElement
<1>3. PICK x \in S : y = x + 1
  OBVIOUS
<1>4. \A z \in S : x <= z
  <2>1. \A z \in S : z + 1 \in T /\ z \in Int
    OBVIOUS
  <2> QED
    BY <1>2, <1>3, <2>1
<1> QED
  BY <1>4 DEF Smallest

LEMMA SemiFacts ==
  ASSUME NEW ch, NEW ord, NEW par, Tree(ch, ord, par), NEW sd, NEW w \in SeqToSet(ord), w # Entry,
         SemiInv(ch, ord, par, sd, w)
  PROVE  /\ SemiOf(ord, sd, w) \in SeqToSet(ord) /\ Num(ord, SemiOf(ord, sd, w)) = sd[w]
         /\ sd[w] < Num(ord, w) /\ SemiOf(ord, sd, w) # w
<1>1. par[w] \in SeqToSet(ord) /\ Num(ord, par[w]) < Num(ord, w)
  BY TreeParent
<1>2. Num(ord, par[w]) \in 0..(Len(ord) - 1) /\ Num(ord, w) \in Int /\ Len(ord) \in Nat
  BY <1>1, Types DEF Tree, Order
<1>3. sd[w] + 1 \in 1..Len(ord) /\ sd[w] < Num(ord, w)
  BY <1>1, <1>2 DEF SemiInv
<1>4. SemiOf(ord, sd, w) \in SeqToSet(ord) /\ Num(ord, SemiOf(ord, sd, w)) = sd[w]
  <2> DEFINE i == sd[w] + 1
  <2>1. i \in 1..Len(ord) /\ Order(ord)
    BY <1>3 DEF Tree
  <2> HIDE DEF i
  <2>2. ord[i] \in SeqToSet(ord) /\ Num(ord, ord[i]) = i - 1
    BY <2>1, NumberOf
  <2>3. SemiOf(ord, sd, w) = ord[i]
    BY DEF SemiOf, i
  <2>4. i - 1 = sd[w]
    BY DEF i, SemiInv
  <2> QED
    BY <2>2, <2>3, <2>4
<1> QED
  BY <1>3, <1>4 DEF SemiInv

LEMMA SemiSame ==
  ASSUME NEW ch, NEW ord, NEW par, NEW sd, NEW new, NEW w, SemiInv(ch, ord, par, sd, w), new[w] = sd[w],
         \A u \in SeqToSet(ord) : Num(ord, u) > Num(ord, w) => new[u] = sd[u]
  PROVE  SemiInv(ch, ord, par, new, w)
<1>1. SemiOf(ord, new, w) = SemiOf(ord, sd, w)
  BY DEF SemiOf
<1>2. ParentsBound(ch, ord, par, new, w)
  BY DEF SemiInv, ParentsBound
<1>3. Bypassed(ch, ord, new, w)
  BY <1>1 DEF SemiInv, Bypassed
<1> QED
  BY <1>1, <1>2, <1>3 DEF SemiInv

LEMMA ProcessedIsFrom ==
  ASSUME Tree(children, order, parent), next \in Nat, next >= 1, next <= Len(order)
  PROVE  /\ Processed = From(order, next)
         /\ order[next] \in SeqToSet(order) /\ Num(order, order[next]) = next - 1
         /\ next > 1 => order[next] # Entry /\ Processed \cup {order[next]} = From(order, next - 1)
<1>1. Len(order) \in Nat /\ next \in 1..Len(order)
  BY DEF Tree, Order
<1>2. order[next] \in SeqToSet(order) /\ Num(order, order[next]) = next - 1
  BY <1>1, NumberOf DEF Tree
<1>3. ASSUME NEW b
      PROVE  b \in Processed <=> b \in SeqToSet(order) /\ Num(order, b) >= next
  <2>1. ASSUME b \in Processed
        PROVE  b \in SeqToSet(order) /\ Num(order, b) >= next
    <3>1. PICK i \in (next + 1)..Len(order) : b = order[i]
      BY <2>1 DEF Processed
    <3>2. i \in 1..Len(order)
      BY <1>1
    <3>3. b \in SeqToSet(order) /\ Num(order, b) = i - 1
      BY <3>1, <3>2, NumberOf DEF Tree
    <3> QED
      BY <1>1, <3>3
  <2>2. ASSUME b \in SeqToSet(order), Num(order, b) >= next
        PROVE  b \in Processed
    <3>1. Num(order, b) \in 0..(Len(order) - 1) /\ order[Num(order, b) + 1] = b
      BY <2>2, Numbers DEF Tree
    <3>2. Num(order, b) + 1 \in (next + 1)..Len(order)
      BY <1>1, <2>2, <3>1
    <3> QED
      BY <3>1, <3>2 DEF Processed
  <2> QED
    BY <2>1, <2>2
<1>4. Num(order, Entry) = 0 /\ Entry \in SeqToSet(order)
  BY Types
<1>5. Processed = From(order, next)
  BY <1>1, <1>3, <1>4 DEF From
<1>6. ASSUME next > 1
      PROVE  order[next] # Entry /\ Processed \cup {order[next]} = From(order, next - 1)
  <2>1. order[next] # Entry
    BY <1>1, <1>2, <1>4, <1>6
  <2>2. \A b \in SeqToSet(order) : Num(order, b) \in Int /\ (Num(order, b) = next - 1 => b = order[next])
    BY <1>2, Types, SameNumber DEF Tree
  <2>3. ASSUME NEW b \in SeqToSet(order)
        PROVE  Num(order, b) >= next - 1 <=> Num(order, b) >= next \/ b = order[next]
    BY <1>1, <1>2, <2>2
  <2> QED
    BY <1>2, <1>5, <2>1, <2>3 DEF From
<1> QED
  BY <1>2, <1>5, <1>6

(* What is known of the blocks not processed.                              *)
Untouched(ord, sd, n) ==
  \A b \in Blocks \ From(ord, n) : sd[b] = IF b \in SeqToSet(ord) THEN Num(ord, b) ELSE -1

LEMMA SemidominatorIsRight ==
  ASSUME Searched(children, order, parent), Forward(children, order, parent),
         next \in Nat, next > 1, next <= Len(order),
         sdom \in [Blocks -> Int], \A b \in Blocks : sdom[b] >= -1,
         Untouched(order, sdom, next), \A b \in From(order, next) : SemiInv(children, order, parent, sdom, b),
         NEW w, w = order[next], NEW semi, semi = [sdom EXCEPT ![w] = Semidominator(w)]
  PROVE  /\ Semidominator(w) \in Int /\ Semidominator(w) >= -1
         /\ Semidominator(w) = -1 => \E p \in Blocks \ SeqToSet(order) : w \in children[p]
         /\ Semidominator(w) # -1 => SemiInv(children, order, parent, semi, w)
<1> DEFINE V == SeqToSet(order)
           No(b) == Num(order, b)
           P == Processed
           sem == Semidominator(w)
           s == SemiOf(order, semi, w)
           Answers == {sdom[Eval(p, P, sdom)] : p \in Parents(w)}
<1>1. Tree(children, order, parent) /\ Parental(parent) /\ Graph(children)
  BY DEF Searched, Tree
<1>2. w \in V /\ No(w) = next - 1 /\ w # Entry /\ P = From(order, next)
  BY <1>1, ProcessedIsFrom
<1>3. P \in SUBSET V /\ P \in SUBSET Blocks /\ V \in SUBSET Blocks /\ w \notin P
        /\ \A b \in V : No(b) \in Int /\ No(b) \in 0..(Len(order) - 1)
  BY <1>1, <1>2, Types DEF From
<1>4. \A b \in V : b \in P <=> No(b) >= next /\ b # Entry
  BY <1>2 DEF From
<1>5. \A p \in Blocks : p \notin P => Eval(p, P, sdom) = p /\ sdom[p] = (IF p \in V THEN No(p) ELSE -1)
  BY <1>1, <1>2, <1>3, EvalOutside DEF Untouched
<1>6. \A p \in P : /\ Eval(p, P, sdom) \in P /\ Above(parent, Eval(p, P, sdom), p)
                   /\ \A y \in P : Above(parent, y, p) => sdom[Eval(p, P, sdom)] <= sdom[y]
  <2>1. \A p \in P : p \in V
    BY <1>3
  <2> HIDE DEF P
  <2> QED
    BY <1>1, <1>3, <1>4, <2>1, EvalInside
<1>7. \A p \in Parents(w) : p \in Blocks /\ w \in children[p] /\ Eval(p, P, sdom) \in Blocks
  BY <1>3, <1>5, <1>6 DEF Parents
<1>8. parent[w] \in V /\ w \in children[parent[w]] /\ No(parent[w]) < No(w)
  BY <1>1, <1>2, TreeParent
<1>9. parent[w] \in Parents(w)
  BY <1>3, <1>8 DEF Parents
<1>10. sem \in Answers \cup {sdom[w]} /\ \A x \in Answers \cup {sdom[w]} : sem <= x
  <2>1. Answers \cup {sdom[w]} \in SUBSET Int /\ \A x \in Answers \cup {sdom[w]} : x >= -1
    BY <1>2, <1>3, <1>7
  <2> HIDE DEF Answers, P
  <2> QED
    BY <2>1, SmallestOf DEF Semidominator, Answers, P
<1>11. sem \in Int /\ sem >= -1 /\ sdom[w] = No(w) /\ sdom[w] = next - 1
  BY <1>2, <1>3, <1>5, <1>7, <1>10
<1> HIDE DEF P, sem
<1>12. \A p \in Parents(w) : sem <= sdom[Eval(p, P, sdom)]
  BY <1>10
<1>13. parent[w] \notin P /\ sem <= No(parent[w])
  <2>1. parent[w] \notin P
    BY <1>2, <1>3, <1>4, <1>8
  <2> QED
    BY <1>3, <1>5, <1>8, <1>9, <1>12, <2>1
<1>14. sem # sdom[w]
  BY <1>2, <1>3, <1>8, <1>11, <1>13
<1>15. PICK p \in Parents(w) : sem = sdom[Eval(p, P, sdom)]
  BY <1>10, <1>14
<1>16. \A b \in V : sdom[b] >= 0
  <2>1. ASSUME NEW b \in V PROVE sdom[b] >= 0
    <3>1. CASE b \in P
      BY <1>2, <3>1 DEF SemiInv
    <3>2. CASE b \notin P
      BY <1>3, <1>5, <3>2
    <3> QED
      BY <3>1, <3>2
  <2> QED
    BY <2>1
<1>17. ASSUME sem = -1 PROVE \E q \in Blocks \ V : w \in children[q]
  <2>1. CASE p \in P
    <3>1. Eval(p, P, sdom) \in V
      BY <1>3, <1>6, <2>1
    <3>2. sem >= 0
      BY <1>15, <1>16, <3>1
    <3>3. ~(-1 >= 0)
      OBVIOUS
    <3> QED
      BY <1>17, <3>2, <3>3
  <2>2. CASE p \notin P
    <3>1. sdom[p] = -1
      BY <1>5, <1>7, <1>15, <1>17, <2>2
    <3>2. p \notin V
      BY <1>16, <3>1
    <3> QED
      BY <1>7, <3>2
  <2> QED
    BY <2>1, <2>2
<1>18. ASSUME sem # -1 PROVE SemiInv(children, order, parent, semi, w)
  <2>1. \A q \in Parents(w) : q \in V
    <3> SUFFICES ASSUME NEW q \in Parents(w), q \notin V PROVE FALSE
      OBVIOUS
    <3>1. q \notin P /\ sdom[q] = -1 /\ Eval(q, P, sdom) = q
      BY <1>3, <1>5, <1>7
    <3> QED
      BY <1>11, <1>12, <1>18, <3>1
  <2>2. semi[w] = sem /\ \A b \in V : b # w => semi[b] = sdom[b]
    BY <1>2, <1>3 DEF sem
  <2>3. sem >= 0 /\ semi[w] \in Int /\ semi[w] <= No(parent[w])
    BY <1>11, <1>13, <1>18, <2>2
  <2>4. s = order[sem + 1]
    BY <2>2 DEF SemiOf
  <2>5. Above(parent, s, w) /\ Bypassed(children, order, semi, w)
    <3>1. CASE p \notin P
      <4>1. p \in V /\ sem = No(p)
        BY <1>5, <1>7, <1>15, <2>1, <3>1
      <4>2. s = p
        BY <1>1, <2>4, <4>1, Numbers DEF Tree
      <4>3. No(p) < No(w)
        BY <1>2, <1>3, <1>8, <1>13, <4>1
      <4>4. Above(parent, p, w)
        BY <1>2, <1>7, <4>1, <4>3 DEF Forward
      <4>5. ASSUME NEW e \in V, No(e) < No(w), e # s, Leads(children, e, s)
            PROVE  Leads(children, e, w)
        <5>1. w # e
          BY <1>3, <4>5
        <5> QED
          BY <1>7, <4>2, <4>5, <5>1, LeadsToChild
      <4> QED
        BY <4>2, <4>4, <4>5 DEF Bypassed
    <3>2. CASE p \in P
      <4> DEFINE u == Eval(p, P, sdom)
      <4>1. u \in P /\ u \in V /\ p \in V /\ Above(parent, u, p) /\ sem = sdom[u] /\ u # Entry
        BY <1>3, <1>4, <1>6, <1>15, <3>2
      <4>2. SemiInv(children, order, parent, sdom, u) /\ No(u) > No(w)
        BY <1>2, <1>3, <1>4, <4>1
      <4> HIDE DEF u
      <4>3. s = SemiOf(order, sdom, u) /\ Above(parent, s, u) /\ s \in V /\ No(s) = sem
        BY <1>1, <2>4, <4>1, <4>2, SemiFacts DEF SemiOf, SemiInv
      <4>4. No(s) <= No(w) /\ No(w) <= No(u)
        BY <1>2, <1>3, <1>8, <1>13, <4>1, <4>2, <4>3
      <4>5. Above(parent, s, w)
        BY <1>1, <1>2, <4>1, <4>3, <4>4, Between
      <4>6. ASSUME NEW e \in V, No(e) < No(w), e # s, Leads(children, e, s)
            PROVE  Leads(children, e, w)
        <5>1. No(e) < No(u)
          BY <1>2, <1>3, <4>1, <4>2, <4>6
        <5>2. Leads(children, e, u)
          BY <4>2, <4>3, <4>6, <5>1 DEF SemiInv, Bypassed
        <5>3. Leads(children, e, p)
          BY <1>1, <4>1, <5>1, <5>2, DownFromHigher
        <5>4. w # e
          BY <1>3, <4>6
        <5> QED
          BY <1>7, <5>3, <5>4, LeadsToChild
      <4> QED
        BY <4>5, <4>6 DEF Bypassed
    <3> QED
      BY <3>1, <3>2
  <2>6. ASSUME NEW q \in Blocks, w \in children[q]
        PROVE  /\ q \in V
               /\ No(q) < No(w) => semi[w] <= No(q)
               /\ \A u \in V : Above(parent, u, q) /\ No(u) > No(w) => semi[w] <= semi[u]
    <3>1. q \in Parents(w) /\ q \in V
      BY <2>1, <2>6 DEF Parents
    <3>2. ASSUME No(q) < No(w) PROVE semi[w] <= No(q)
      <4>1. q \notin P
        BY <1>2, <1>3, <1>4, <3>1, <3>2
      <4> QED
        BY <1>5, <1>12, <2>2, <3>1, <4>1
    <3>3. ASSUME NEW u \in V, Above(parent, u, q), No(u) > No(w) PROVE semi[w] <= semi[u]
      <4>1. u \in P /\ u # w
        BY <1>1, <1>2, <1>3, <1>4, <3>3, Types
      <4>2. No(u) <= No(q) /\ q # Entry
        BY <1>1, <1>2, <1>3, <3>1, <3>3, AboveVisited, Types
      <4>3. q \in P
        BY <1>2, <1>3, <1>4, <3>1, <3>3, <4>2
      <4>4. sdom[Eval(q, P, sdom)] <= sdom[u] /\ sem <= sdom[Eval(q, P, sdom)]
        BY <1>6, <1>12, <3>1, <3>3, <4>1, <4>3
      <4>5. sdom[u] \in Int /\ sdom[Eval(q, P, sdom)] \in Int
        BY <1>3, <1>7, <3>1
      <4> QED
        BY <1>11, <2>2, <4>1, <4>4, <4>5
    <3> QED
      BY <3>1, <3>2, <3>3
  <2>7. ParentsBound(children, order, parent, semi, w)
    BY <2>6 DEF ParentsBound
  <2> QED
    BY <2>2, <2>3, <2>5, <2>7 DEF SemiInv
<1> QED
  BY <1>11, <1>17, <1>18 DEF sem

(* A block waits in the bucket of its semidominator x until the child of x  *)
(* above it is processed; then the blocks that Eval ranges over are those   *)
(* between them.                                                           *)
Below(ord, par, sd, v) == {y \in SeqToSet(ord) : Above(par, y, v) /\ Num(ord, y) > sd[v]}

Decided(ord, par, sd, id, v, n) ==
  /\ Below(ord, par, sd, v) \subseteq From(ord, n)
  /\ \E u \in Below(ord, par, sd, v) :
       /\ \A y \in Below(ord, par, sd, v) : sd[u] <= sd[y]
       /\ id[v] = IF sd[u] < sd[v] THEN u ELSE SemiOf(ord, sd, v)

Waits(ord, par, sd, x, v, n) ==
  /\ v \in From(ord, n) /\ SemiOf(ord, sd, v) = x
  /\ \A c \in SeqToSet(ord) : par[c] = x /\ Above(par, c, v) => Num(ord, c) < n

ImplicitInv(ch, ord, par, sd, bu, id, n) ==
  /\ n >= 1
  /\ Untouched(ord, sd, n)
  /\ \A b \in From(ord, n) : SemiInv(ch, ord, par, sd, b)
  /\ \A b \in Blocks \ From(ord, n) : id[b] = NoBlock
  /\ \A x \in Blocks : \A v \in bu[x] : Waits(ord, par, sd, x, v, n)
  /\ \A v \in From(ord, n) : v \in bu[SemiOf(ord, sd, v)] \/ Decided(ord, par, sd, id, v, n)

ContextTypes ==
  /\ sdom \in [Blocks -> Int] /\ \A b \in Blocks : sdom[b] >= -1
  /\ bucket \in [Blocks -> SUBSET Blocks]
  /\ idom \in [Blocks -> Blocks \cup {NoBlock}]
  /\ next \in Nat

LEMMA ImplicitStep ==
  ASSUME Searched(children, order, parent), Forward(children, order, parent), ContextTypes,
         ImplicitInv(children, order, parent, sdom, bucket, idom, next),
         next <= Len(order), FindImplicitIDom
  PROVE  \/ /\ phase' = "threw"
            /\ \E p \in Blocks \ SeqToSet(order) : \E w \in SeqToSet(order) : w \in children[p]
         \/ /\ phase' = phase /\ UNCHANGED <<stack, order, parent>> /\ next' = next - 1
            /\ ImplicitInv(children, order, parent, sdom', bucket', idom', next')
<1> DEFINE V == SeqToSet(order)
           No(b) == Num(order, b)
           w == order[next]
           sem == Semidominator(w)
           semi == [sdom EXCEPT ![w] = sem]
           x == parent[w]
           s == order[semi[w] + 1]
           blocksOf == [bucket EXCEPT ![s] = @ \cup {w}]
           decided == blocksOf[x]
           P == Processed \cup {w}
           u(v) == Eval(v, P, semi)
<1>1. Tree(children, order, parent) /\ Parental(parent)
  BY DEF Searched, Tree
<1>2. next \in Nat /\ next > 1 /\ next <= Len(order)
  BY DEF FindImplicitIDom, ContextTypes
<1>3. /\ w \in V /\ No(w) = next - 1 /\ w # Entry /\ Processed = From(order, next)
      /\ P = From(order, next - 1)
  BY <1>1, <1>2, ProcessedIsFrom
<1>4. V \in SUBSET Blocks /\ w \in Blocks /\ \A b \in V : No(b) \in Int /\ b # NoBlock
  BY <1>1, <1>3, Types
<1>5. /\ sem \in Int /\ sem >= -1
      /\ sem = -1 => \E p \in Blocks \ V : w \in children[p]
      /\ sem # -1 => SemiInv(children, order, parent, semi, w)
  BY <1>2, SemidominatorIsRight DEF ContextTypes, ImplicitInv
<1>6. CASE sem = -1
  <2>1. phase' = "threw"
    BY <1>6 DEF FindImplicitIDom
  <2> QED
    BY <1>3, <1>5, <1>6, <2>1
<1>7. CASE sem # -1
  <2>1. /\ sdom' = semi
        /\ idom' = [v \in Blocks |->
             IF v \in decided THEN IF semi[u(v)] < semi[v] THEN u(v) ELSE x
             ELSE idom[v]]
        /\ bucket' = [blocksOf EXCEPT ![x] = {}]
        /\ next' = next - 1
        /\ UNCHANGED <<phase, stack, order, parent>>
    BY <1>7 DEF FindImplicitIDom
  <2>2. semi \in [Blocks -> Int] /\ \A b \in Blocks : semi[b] >= -1 /\ (b # w => semi[b] = sdom[b])
    BY <1>4, <1>5 DEF ContextTypes
  <2>3. SemiInv(children, order, parent, semi, w)
    BY <1>5, <1>7
  <2>4. s = SemiOf(order, semi, w) /\ s \in V /\ No(s) = semi[w] /\ s \in Blocks
    <3>1. s = SemiOf(order, semi, w)
      BY DEF SemiOf
    <3> HIDE DEF s, semi, w
    <3> QED
      BY <1>1, <1>3, <1>4, <2>3, <3>1, SemiFacts
  <2>5. x \in V /\ No(x) < No(w) /\ x # w /\ x \in Blocks /\ Above(parent, x, w)
    BY <1>1, <1>3, <1>4, TreeParent
  <2>6. /\ blocksOf \in [Blocks -> SUBSET Blocks]
        /\ \A b \in Blocks : \A v : v \in blocksOf[b] <=> v \in bucket[b] \/ (b = s /\ v = w)
        /\ \A b \in Blocks : \A v : v \in bucket'[b] <=> b # x /\ v \in blocksOf[b]
    <3>1. blocksOf \in [Blocks -> SUBSET Blocks] /\ \A b \in Blocks : \A v : v \in blocksOf[b] <=> v \in bucket[b] \/ (b = s /\ v = w)
      BY <1>4, <2>4 DEF ContextTypes
    <3> HIDE DEF blocksOf
    <3> QED
      BY <2>1, <3>1
  <2>7. ASSUME NEW b
        PROVE  b \in From(order, next - 1) <=> b \in From(order, next) \/ b = w
    BY <1>3
  <2>8. \A b \in From(order, next) : b \in V /\ b # w /\ b # Entry /\ No(b) >= next /\ No(b) > No(w)
    BY <1>2, <1>3, <1>4 DEF From
  <2> HIDE DEF semi, sem, s, blocksOf, decided, P, w, x, V, u
  <2>9. \A b \in From(order, next) : SemiInv(children, order, parent, sdom, b)
    BY DEF ImplicitInv
  <2>10. ASSUME NEW b \in From(order, next - 1) PROVE SemiInv(children, order, parent, semi, b)
    <3>1. CASE b = w
      BY <2>3, <3>1
    <3>2. CASE b \in From(order, next)
      <4>1. SemiInv(children, order, parent, sdom, b) /\ semi[b] = sdom[b]
        BY <1>4, <2>2, <2>8, <2>9, <3>2
      <4>2. \A y \in V : No(y) > No(b) => y # w
        BY <1>3, <1>4, <2>8, <3>2
      <4>3. \A y \in V : No(y) > No(b) => semi[y] = sdom[y]
        BY <1>4, <2>2, <4>2
      <4> QED
        BY <4>1, <4>3, SemiSame DEF V
    <3> QED
      BY <2>7, <3>1, <3>2
  <2>11. \A b \in From(order, next) : SemiOf(order, semi, b) = SemiOf(order, sdom, b)
    BY <1>4, <2>2, <2>8 DEF SemiOf
  <2>12. Untouched(order, semi, next - 1)
    <3> SUFFICES ASSUME NEW b \in Blocks \ From(order, next - 1)
                 PROVE  semi[b] = IF b \in SeqToSet(order) THEN Num(order, b) ELSE -1
      BY DEF Untouched
    <3>1. b \in Blocks \ From(order, next) /\ b # w
      BY <2>7
    <3> QED
      BY <2>2, <3>1 DEF ImplicitInv, Untouched
  <2>13. \A b \in Blocks : \A v \in bucket[b] : Waits(order, parent, sdom, b, v, next)
    BY DEF ImplicitInv
  <2>14. \A v \in decided : v \in From(order, next - 1) /\ SemiOf(order, semi, v) = x
    <3> SUFFICES ASSUME NEW v \in decided
                 PROVE  v \in From(order, next - 1) /\ SemiOf(order, semi, v) = x
      OBVIOUS
    <3>1. v \in bucket[x] \/ (x = s /\ v = w)
      BY <2>5, <2>6 DEF decided
    <3> QED
      BY <2>4, <2>5, <2>7, <2>11, <2>13, <3>1 DEF Waits
  <2>15. ASSUME NEW b \in Blocks \ From(order, next - 1) PROVE idom'[b] = NoBlock
    <3>1. b \notin decided /\ b \notin From(order, next)
      BY <2>7, <2>14, <2>15
    <3> QED
      BY <2>1, <3>1 DEF ImplicitInv
  <2>16. ASSUME NEW b \in Blocks, NEW v \in bucket'[b]
         PROVE  Waits(order, parent, semi, b, v, next - 1)
    <3>1. b # x /\ v \in blocksOf[b]
      BY <2>6, <2>16
    <3>2. v \in From(order, next - 1) /\ SemiOf(order, semi, v) = b /\ v \in V
          /\ \A c \in V : parent[c] = b /\ Above(parent, c, v) => No(c) < next
      <4>1. CASE v \in bucket[b]
        <5>1. Waits(order, parent, sdom, b, v, next)
          BY <2>13, <4>1
        <5> QED
          BY <2>7, <2>8, <2>11, <5>1 DEF Waits, V
      <4>2. CASE b = s /\ v = w
        <5>1. \A c \in V : Above(parent, c, w) => No(c) < next
          <6> SUFFICES ASSUME NEW c \in V, Above(parent, c, w) PROVE No(c) < next
            OBVIOUS
          <6>1. No(c) <= No(w)
            BY <1>1, <1>3, AboveVisited DEF V
          <6> QED
            BY <1>2, <1>3, <1>4, <6>1
        <5> QED
          BY <1>3, <2>4, <2>7, <4>2, <5>1
      <4> QED
        BY <2>6, <3>1, <4>1, <4>2
    <3>3. ASSUME NEW c \in V, parent[c] = b, Above(parent, c, v) PROVE No(c) < next - 1
      <4>1. c # w /\ No(c) < next
        BY <3>1, <3>2, <3>3 DEF x
      <4>2. No(c) # next - 1
        BY <1>1, <1>3, <4>1, SameNumber DEF V, Tree
      <4> QED
        BY <1>2, <1>4, <4>1, <4>2
    <3> QED
      BY <3>2, <3>3 DEF Waits, V
  <2>17. ASSUME NEW v \in decided
         PROVE  Decided(order, parent, semi, idom', v, next - 1)
    <3> DEFINE Span == Below(order, parent, semi, v)
    <3>1. v \in From(order, next - 1) /\ SemiOf(order, semi, v) = x
      BY <2>14
    <3>2. v \in V /\ v # Entry /\ No(v) >= next - 1 /\ v \in Blocks
      BY <1>4, <3>1 DEF From, V
    <3>3. SemiInv(children, order, parent, semi, v)
      BY <2>10, <3>1
    <3>4. semi[v] = No(x) /\ No(x) < No(v) /\ Above(parent, x, v) /\ x # v
      <4>1. Num(order, SemiOf(order, semi, v)) = semi[v] /\ semi[v] < Num(order, v) /\ SemiOf(order, semi, v) # v
        BY <1>1, <3>2, <3>3, SemiFacts DEF V
      <4> QED
        BY <3>1, <3>3, <4>1 DEF SemiInv
    <3>5. Above(parent, w, v)
      <4>1. CASE v = w
        BY <1>4, <4>1, AboveSelf
      <4>2. CASE v # w
        <5>1. v \in bucket[x] /\ v \in From(order, next)
          BY <2>5, <2>6, <2>7, <3>1, <4>2 DEF decided
        <5>2. PICK c \in V : parent[c] = x /\ Above(parent, c, v)
          BY <1>1, <3>2, <3>4, ChildTowards DEF V
        <5>3. No(c) < next
          BY <2>5, <2>13, <5>1, <5>2 DEF Waits, V
        <5>4. No(c) <= No(w) /\ No(w) <= No(v)
          BY <1>2, <1>3, <1>4, <2>8, <3>2, <5>1, <5>3
        <5>5. Above(parent, c, w)
          BY <1>1, <1>3, <3>2, <5>2, <5>4, Between DEF V
        <5>6. CASE c # w
          <6>1. Above(parent, c, x) /\ c # Entry
            <7>1. Above(parent, c, x)
              BY <1>1, <1>3, <5>5, <5>6, AboveAnti DEF V, x
            <7>2. c # Entry
              BY <1>1, <2>5, <1>4, <5>2 DEF Tree, Root
            <7> QED
              BY <7>1, <7>2
          <6>2. No(c) <= No(x)
            BY <1>1, <2>5, <6>1, AboveVisited DEF V
          <6>3. No(x) < No(c)
            BY <1>1, <5>2, <6>1, TreeParent DEF V
          <6> QED
            BY <1>4, <2>5, <5>2, <6>2, <6>3
        <5> QED
          BY <5>2, <5>6
      <4> QED
        BY <4>1, <4>2
    <3>6. \A y : y \in Span <=> y \in P /\ Above(parent, y, v)
      <4>1. ASSUME NEW y \in V, Above(parent, y, v), No(y) > No(x)
            PROVE  y \in P
        <5>1. y # Entry
          BY <1>1, <1>4, <2>5, <4>1, Types DEF V
        <5>2. CASE No(y) >= next - 1
          BY <1>3, <5>1, <5>2 DEF From, V
        <5>3. CASE No(y) < next - 1
          <6>1. No(y) <= No(w) /\ y # w
            BY <1>2, <1>3, <1>4, <4>1, <5>3
          <6>2. Above(parent, y, w)
            BY <1>1, <3>2, <3>5, <4>1, <6>1, Linear DEF V
          <6>3. Above(parent, y, x)
            BY <1>1, <1>3, <6>1, <6>2, AboveAnti DEF V, x
          <6>4. No(y) <= No(x)
            BY <1>1, <2>5, <6>3, AboveVisited DEF V
          <6> QED
            BY <1>4, <2>5, <4>1, <6>4
        <5> QED
          BY <1>2, <1>4, <4>1, <5>2, <5>3
      <4>2. ASSUME NEW y \in P, Above(parent, y, v)
            PROVE  y \in V /\ No(y) > semi[v]
        BY <1>2, <1>3, <1>4, <2>5, <3>4, <4>2 DEF From, V
      <4> QED
        BY <3>4, <4>1, <4>2 DEF Below, V
    <3>7. v \in P
      BY <1>3, <3>1
    <3>8. /\ u(v) \in P /\ Above(parent, u(v), v)
          /\ \A y \in P : Above(parent, y, v) => semi[u(v)] <= semi[y]
      <4>1. P \in SUBSET V /\ next - 1 \in Nat /\ \A b \in V : b \in P <=> No(b) >= next - 1 /\ b # Entry
        BY <1>2, <1>3 DEF From, V
      <4> QED
        BY <1>1, <2>2, <3>2, <3>7, <4>1, EvalInside DEF u, V
    <3>9. idom'[v] = IF semi[u(v)] < semi[v] THEN u(v) ELSE SemiOf(order, semi, v)
      BY <2>1, <3>1, <3>2
    <3> QED
      BY <1>3, <3>6, <3>8, <3>9 DEF Decided
  <2>18. ASSUME NEW v \in From(order, next - 1)
         PROVE  v \in bucket'[SemiOf(order, semi, v)] \/ Decided(order, parent, semi, idom', v, next - 1)
    <3>1. CASE v \in decided
      BY <2>17, <3>1
    <3>2. CASE v \notin decided /\ v = w
      BY <2>4, <2>6, <3>2 DEF decided
    <3>3. CASE v \notin decided /\ v \in From(order, next)
      <4>1. CASE v \in bucket[SemiOf(order, sdom, v)]
        <5> DEFINE y == SemiOf(order, semi, v)
        <5>1. y \in Blocks
          <6>1. v \in V /\ v # Entry /\ SemiInv(children, order, parent, semi, v)
            BY <2>8, <2>10, <2>18, <3>3
          <6> QED
            BY <1>1, <1>4, <6>1, SemiFacts DEF V
        <5>2. v \in bucket[y]
          BY <2>11, <3>3, <4>1
        <5> HIDE DEF y
        <5>3. v \in blocksOf[y] /\ y # x
          BY <2>6, <3>3, <5>1, <5>2 DEF decided
        <5> QED
          BY <2>6, <5>1, <5>3 DEF y
      <4>2. CASE Decided(order, parent, sdom, idom, v, next)
        <5>1. semi[v] = sdom[v] /\ SemiOf(order, semi, v) = SemiOf(order, sdom, v) /\ v \in Blocks
          BY <1>4, <2>2, <2>8, <2>11, <3>3
        <5>2. Below(order, parent, semi, v) = Below(order, parent, sdom, v)
          BY <5>1 DEF Below
        <5>3. idom'[v] = idom[v]
          BY <2>1, <3>3, <5>1
        <5>4. \A y \in Below(order, parent, sdom, v) : y \in From(order, next) /\ semi[y] = sdom[y]
          BY <1>4, <2>2, <2>8, <4>2 DEF Decided
        <5>5. Below(order, parent, semi, v) \subseteq From(order, next - 1)
          BY <2>7, <5>2, <5>4
        <5>6. PICK y \in Below(order, parent, sdom, v) :
                /\ \A z \in Below(order, parent, sdom, v) : sdom[y] <= sdom[z]
                /\ idom[v] = IF sdom[y] < sdom[v] THEN y ELSE SemiOf(order, sdom, v)
          BY <4>2 DEF Decided
        <5>7. \A z \in Below(order, parent, semi, v) : semi[y] <= semi[z]
          BY <5>2, <5>4, <5>6
        <5>8. idom'[v] = IF semi[y] < semi[v] THEN y ELSE SemiOf(order, semi, v)
          BY <5>1, <5>3, <5>4, <5>6
        <5> QED
          BY <5>2, <5>5, <5>6, <5>7, <5>8 DEF Decided
      <4> QED
        BY <3>3, <4>1, <4>2 DEF ImplicitInv
    <3> QED
      BY <2>7, <3>1, <3>2, <3>3
  <2>19. next - 1 >= 1
    BY <1>2
  <2> QED
    BY <2>1, <2>10, <2>12, <2>15, <2>16, <2>18, <2>19 DEF ImplicitInv
<1> QED
  BY <1>6, <1>7

-----------------------------------------------------------------------------
(* FindExplicitIDoms. The dominator of b is the block above the             *)
(* semidominator from which no edge leads around it, and around every block *)
(* between it and b one does.                                              *)
Final(ch, ord, par, sd, id, b) ==
  /\ id[b] \in SeqToSet(ord) /\ Above(par, id[b], SemiOf(ord, sd, b))
  /\ \A u \in SeqToSet(ord) : Above(par, u, b) /\ Num(ord, u) > Num(ord, id[b]) => sd[u] >= Num(ord, id[b])
  /\ \A e \in SeqToSet(ord) : Above(par, e, b) /\ Num(ord, e) > Num(ord, id[b]) /\ e # b => Leads(ch, e, b)

ExplicitInv(ch, ord, par, sd, id, n) ==
  /\ n >= 2 /\ n <= Len(ord) + 1
  /\ \A b \in From(ord, 1) : SemiInv(ch, ord, par, sd, b)
  /\ \A b \in Blocks \ From(ord, 1) : id[b] = NoBlock
  /\ \A b \in From(ord, 1) : IF Num(ord, b) < n - 1 THEN Final(ch, ord, par, sd, id, b)
                             ELSE Decided(ord, par, sd, id, b, 1)

LEMMA ExplicitBegins ==
  ASSUME Searched(children, order, parent), ContextTypes,
         ImplicitInv(children, order, parent, sdom, bucket, idom, next), next <= 1
  PROVE  ExplicitInv(children, order, parent, sdom, idom, 2)
<1>1. Tree(children, order, parent)
  BY DEF Searched
<1>2. next = 1
  BY DEF ImplicitInv, ContextTypes
<1>3. 2 <= Len(order) + 1
  <2>1. Len(order) \in Nat /\ Entry \in SeqToSet(order)
    BY <1>1, Types DEF Tree, Order
  <2>2. Num(order, Entry) \in 0..(Len(order) - 1)
    BY <1>1, <2>1, Types
  <2> QED
    BY <2>1, <2>2
<1>4. ASSUME NEW v \in From(order, 1)
      PROVE  ~(Num(order, v) < 2 - 1) /\ Decided(order, parent, sdom, idom, v, 1)
  <2>1. v \in SeqToSet(order) /\ v # Entry /\ Num(order, v) >= 1 /\ Num(order, v) \in Int
    BY <1>1, Types DEF From
  <2>2. SemiInv(children, order, parent, sdom, v)
    BY <1>2 DEF ImplicitInv
  <2> DEFINE x == SemiOf(order, sdom, v)
  <2>3. x \in SeqToSet(order) /\ x # v /\ Above(parent, x, v)
    BY <1>1, <2>1, <2>2, SemiFacts DEF SemiInv
  <2> HIDE DEF x
  <2>4. PICK c \in SeqToSet(order) : parent[c] = x /\ Above(parent, c, v)
    BY <1>1, <2>1, <2>3, ChildTowards
  <2>5. v \notin bucket[x]
    <3> SUFFICES ASSUME v \in bucket[x] PROVE FALSE
      OBVIOUS
    <3>1. x \in Blocks
      BY <1>1, <2>3, Types
    <3>2. Waits(order, parent, sdom, x, v, 1)
      BY <1>2, <3>1 DEF ImplicitInv
    <3>3. Num(order, c) < 1 /\ Num(order, c) \in 0..(Len(order) - 1)
      BY <1>1, <2>4, <3>2, Types DEF Waits
    <3>4. c = Entry
      BY <1>1, <3>3, Types DEF Tree, Order
    <3> QED
      BY <1>1, <2>3, <2>4, <3>4, Types DEF Tree, Root
  <2> QED
    BY <1>2, <2>1, <2>5 DEF ImplicitInv, x
<1> QED
  BY <1>2, <1>3, <1>4 DEF ImplicitInv, ExplicitInv

LEMMA FinalBySemi ==
  ASSUME NEW ch, NEW ord, NEW par, Tree(ch, ord, par), NEW sd, NEW id, NEW w \in SeqToSet(ord), w # Entry,
         \A b \in From(ord, 1) : SemiInv(ch, ord, par, sd, b), w \in From(ord, 1),
         NEW u \in Below(ord, par, sd, w), \A y \in Below(ord, par, sd, w) : sd[u] <= sd[y], u \in From(ord, 1),
         \A y \in Below(ord, par, sd, w) : y \in From(ord, 1),
         ~(sd[u] < sd[w]), id[w] = SemiOf(ord, sd, w)
  PROVE  Final(ch, ord, par, sd, id, w)
<1> DEFINE s == SemiOf(ord, sd, w)
<1>1. SemiInv(ch, ord, par, sd, w) /\ SemiInv(ch, ord, par, sd, u)
  OBVIOUS
<1>2. s \in SeqToSet(ord) /\ Num(ord, s) = sd[w] /\ Above(par, s, w) /\ s # w /\ sd[w] \in Int /\ sd[u] \in Int
  BY <1>1, SemiFacts DEF SemiInv
<1>3. s \in Blocks /\ \A b \in SeqToSet(ord) : Num(ord, b) \in Int
  BY <1>2, Types
<1> HIDE DEF s
<1>4. id[w] = s
  BY DEF s
<1>5. id[w] \in SeqToSet(ord) /\ Above(par, id[w], s)
  BY <1>2, <1>3, <1>4, AboveSelf
<1>6. ASSUME NEW y \in SeqToSet(ord), Above(par, y, w), Num(ord, y) > Num(ord, s)
      PROVE  sd[y] >= Num(ord, s)
  <2>1. y \in Below(ord, par, sd, w)
    BY <1>2, <1>6 DEF Below
  <2>2. sd[u] <= sd[y] /\ sd[y] \in Int
    BY <2>1 DEF SemiInv
  <2> QED
    BY <1>2, <2>2
<1>7. ASSUME NEW e \in SeqToSet(ord), Above(par, e, w), Num(ord, e) > Num(ord, s), e # w
      PROVE  Leads(ch, e, w)
  <2>1. ~Above(par, e, s)
    BY <1>2, <1>3, <1>7, AboveVisited
  <2>2. Leads(ch, e, s)
    BY <1>2, <2>1, Avoids
  <2>3. Num(ord, e) < Num(ord, w) /\ e # s
    BY <1>3, <1>7, AboveAnti
  <2> QED
    BY <1>1, <2>2, <2>3 DEF SemiInv, Bypassed, s
<1> QED
  BY <1>4, <1>5, <1>6, <1>7 DEF Final, s

LEMMA FinalByOther ==
  ASSUME NEW ch, NEW ord, NEW par, Tree(ch, ord, par), NEW sd, NEW id, NEW new, NEW w \in SeqToSet(ord), w # Entry,
         \A b \in From(ord, 1) : SemiInv(ch, ord, par, sd, b), w \in From(ord, 1),
         NEW u \in Below(ord, par, sd, w), \A y \in Below(ord, par, sd, w) : sd[u] <= sd[y], u \in From(ord, 1),
         \A y \in Below(ord, par, sd, w) : y \in From(ord, 1),
         sd[u] < sd[w], Final(ch, ord, par, sd, id, u), new[w] = id[u]
  PROVE  Final(ch, ord, par, sd, new, w)
<1> DEFINE s == SemiOf(ord, sd, w)
           t == SemiOf(ord, sd, u)
           d == id[u]
           No(b) == Num(ord, b)
<1>1. SemiInv(ch, ord, par, sd, w) /\ SemiInv(ch, ord, par, sd, u) /\ u \in SeqToSet(ord) /\ u # Entry
  BY DEF From
<1>2. s \in SeqToSet(ord) /\ No(s) = sd[w] /\ Above(par, s, w) /\ s # w /\ sd[w] \in Int
  BY <1>1, SemiFacts DEF SemiInv
<1>3. t \in SeqToSet(ord) /\ No(t) = sd[u] /\ Above(par, t, u) /\ t # u /\ sd[u] \in Int
  BY <1>1, SemiFacts DEF SemiInv
<1>4. \A b \in SeqToSet(ord) : No(b) \in Int /\ b \in Blocks
  BY Types
<1>5. Above(par, u, w) /\ No(u) > sd[w] /\ u # w
  BY <1>2, <1>3 DEF Below
<1>6. /\ d \in SeqToSet(ord) /\ Above(par, d, t)
      /\ \A y \in SeqToSet(ord) : Above(par, y, u) /\ No(y) > No(d) => sd[y] >= No(d)
      /\ \A e \in SeqToSet(ord) : Above(par, e, u) /\ No(e) > No(d) /\ e # u => Leads(ch, e, u)
  BY DEF Final
<1> HIDE DEF s, t, d
<1>7. Above(par, d, s)
  <2>1. Above(par, t, w)
    BY <1>3, <1>5, AboveTransitive
  <2>2. No(t) <= No(s)
    BY <1>2, <1>3
  <2>3. Above(par, t, s)
    BY <1>2, <2>1, <2>2, Linear
  <2> QED
    BY <1>6, <2>3, AboveTransitive
<1>8. No(d) <= No(t)
  BY <1>3, <1>6, AboveVisited
<1>9. No(u) <= No(w)
  BY <1>5, AboveVisited
<1>10. ASSUME NEW y \in SeqToSet(ord), Above(par, y, w), No(y) > No(d)
       PROVE  sd[y] >= No(d)
  <2>1. CASE No(y) > sd[w]
    <3>1. y \in Below(ord, par, sd, w)
      BY <1>10, <2>1 DEF Below
    <3>2. sd[u] <= sd[y] /\ sd[y] \in Int
      BY <3>1 DEF SemiInv
    <3> QED
      BY <1>3, <1>4, <1>6, <1>8, <3>2
  <2>2. CASE ~(No(y) > sd[w])
    <3>1. No(y) <= No(u)
      BY <1>1, <1>2, <1>4, <1>5, <2>2
    <3>2. Above(par, y, u)
      BY <1>5, <1>10, <3>1, Linear
    <3> QED
      BY <1>6, <1>10, <3>2
  <2> QED
    BY <2>1, <2>2
<1>11. ASSUME NEW e \in SeqToSet(ord), Above(par, e, w), No(e) > No(d), e # w
       PROVE  Leads(ch, e, w)
  <2>1. CASE No(e) < No(u)
    <3>1. Above(par, e, u)
      BY <1>1, <1>4, <1>5, <1>11, <2>1, Linear
    <3>2. Leads(ch, e, u)
      BY <1>1, <1>4, <1>6, <1>11, <2>1, <3>1
    <3> QED
      BY <1>1, <1>5, <2>1, <3>2, DownFromHigher
  <2>2. CASE ~(No(e) < No(u))
    <3>1. No(e) > No(s) /\ e # s
      BY <1>1, <1>2, <1>4, <1>5, <2>2
    <3>2. ~Above(par, e, s)
      BY <1>2, <1>4, <3>1, AboveVisited
    <3>3. Leads(ch, e, s)
      BY <1>2, <3>2, Avoids
    <3>4. No(e) < No(w)
      BY <1>11, AboveAnti
    <3> QED
      BY <1>1, <3>1, <3>3, <3>4 DEF SemiInv, Bypassed, s
  <2> QED
    BY <2>1, <2>2
<1>12. new[w] = d
  BY DEF d
<1> QED
  BY <1>6, <1>7, <1>10, <1>11, <1>12 DEF Final, s

LEMMA ExplicitStep ==
  ASSUME Searched(children, order, parent), ContextTypes,
         ExplicitInv(children, order, parent, sdom, idom, next), FindExplicitIDom
  PROVE  /\ phase' = phase
         /\ ExplicitInv(children, order, parent, sdom, idom', next')
<1> DEFINE w == order[next]
           No(b) == Num(order, b)
<1>1. Tree(children, order, parent)
  BY DEF Searched
<1>2. next \in Nat /\ next >= 2 /\ next <= Len(order) /\ Len(order) \in Nat
  BY <1>1 DEF FindExplicitIDom, ContextTypes, ExplicitInv, Tree, Order
<1>3. w \in SeqToSet(order) /\ No(w) = next - 1 /\ w # Entry /\ w \in Blocks
  BY <1>1, <1>2, ProcessedIsFrom, Types
<1>4. w \in From(order, 1) /\ No(w) >= 1
  BY <1>2, <1>3 DEF From
<1>5. \A b \in SeqToSet(order) : b \in Blocks /\ No(b) \in Int /\ b # NoBlock
  BY <1>1, Types
<1> HIDE DEF w
<1>6. Decided(order, parent, sdom, idom, w, 1) /\ \A b \in From(order, 1) : SemiInv(children, order, parent, sdom, b)
  BY <1>2, <1>3, <1>4 DEF ExplicitInv
<1> DEFINE s == SemiOf(order, sdom, w)
<1>7. PICK u \in Below(order, parent, sdom, w) :
        /\ \A y \in Below(order, parent, sdom, w) : sdom[u] <= sdom[y]
        /\ idom[w] = IF sdom[u] < sdom[w] THEN u ELSE s
  BY <1>6 DEF Decided
<1>8. u \in From(order, 1) /\ u \in SeqToSet(order) /\ u # Entry /\ \A y \in Below(order, parent, sdom, w) : y \in From(order, 1)
  BY <1>6 DEF Decided, From
<1>9. s \in SeqToSet(order) /\ No(s) = sdom[w]
  BY <1>1, <1>3, <1>4, <1>6, SemiFacts
<1>10. Above(parent, u, w) /\ No(u) > sdom[w]
  BY DEF Below
<1>11. s = order[sdom[w] + 1] /\ u # s
  <2>1. u # s
    BY <1>5, <1>8, <1>9, <1>10
  <2> QED
    BY <2>1 DEF SemiOf
<1>12. /\ phase' = phase /\ next' = next + 1
       /\ idom' = IF idom[w] = s THEN idom ELSE [idom EXCEPT ![w] = idom[idom[w]]]
  <2>1. idom[w] # NoBlock
    BY <1>5, <1>7, <1>8, <1>9
  <2> QED
    BY <1>11, <2>1 DEF FindExplicitIDom, w
<1> HIDE DEF s
<1>13. \A b \in Blocks : b # w => idom'[b] = idom[b]
  BY <1>12 DEF ContextTypes
<1>14. Final(children, order, parent, sdom, idom', w)
  <2>1. CASE ~(sdom[u] < sdom[w])
    <3>1. idom[w] = s
      BY <1>7, <2>1
    <3>2. idom'[w] = SemiOf(order, sdom, w)
      BY <1>12, <3>1 DEF s
    <3> QED
      BY <1>1, <1>3, <1>4, <1>6, <1>7, <1>8, <2>1, <3>2, FinalBySemi
  <2>2. CASE sdom[u] < sdom[w]
    <3>1. idom[w] = u /\ idom[w] # s
      BY <1>7, <1>11, <2>2
    <3>2. idom'[w] = idom[u]
      BY <1>3, <1>12, <3>1 DEF ContextTypes
    <3>3. u # w
      BY <1>6, <1>8, <2>2 DEF SemiInv
    <3>4. No(u) < next - 1
      BY <1>1, <1>3, <1>10, <3>3, AboveAnti
    <3>5. Final(children, order, parent, sdom, idom, u)
      BY <1>8, <3>4 DEF ExplicitInv
    <3> QED
      BY <1>1, <1>3, <1>4, <1>6, <1>7, <1>8, <2>2, <3>2, <3>5, FinalByOther
  <2> QED
    BY <2>1, <2>2
<1>15. ASSUME NEW b \in From(order, 1)
       PROVE  IF Num(order, b) < next' - 1 THEN Final(children, order, parent, sdom, idom', b)
              ELSE Decided(order, parent, sdom, idom', b, 1)
  <2>1. CASE b = w
    BY <1>2, <1>3, <1>12, <1>14, <2>1
  <2>2. CASE b # w
    <3>1. b \in SeqToSet(order) /\ b \in Blocks /\ idom'[b] = idom[b]
      BY <1>5, <1>13, <2>2 DEF From
    <3>2. No(b) # next - 1 /\ No(b) \in Int
      BY <1>1, <1>3, <1>5, <2>2, <3>1, SameNumber DEF Tree
    <3>3. CASE No(b) < next - 1
      BY <1>2, <1>12, <3>1, <3>2, <3>3 DEF ExplicitInv, Final
    <3>4. CASE No(b) > next - 1
      <4>1. ~(No(b) < next' - 1) /\ ~(No(b) < next - 1)
        BY <1>2, <1>12, <3>2, <3>4
      <4> QED
        BY <3>1, <4>1 DEF ExplicitInv, Decided
    <3> QED
      BY <1>2, <3>2, <3>3, <3>4
  <2> QED
    BY <2>1, <2>2
<1>16. ASSUME NEW b \in Blocks \ From(order, 1) PROVE idom'[b] = NoBlock
  BY <1>4, <1>13 DEF ExplicitInv
<1>17. next' >= 2 /\ next' <= Len(order) + 1
  BY <1>2, <1>12
<1> QED
  BY <1>6, <1>12, <1>15, <1>16, <1>17 DEF ExplicitInv

-----------------------------------------------------------------------------
(* What FindExplicitIDoms finds is the immediate dominator. The blocks      *)
(* below it that no edge enters from elsewhere are left out of what is      *)
(* reached without it.                                                     *)
LEMMA Topmost ==
  ASSUME NEW ch, NEW ord, NEW par, Tree(ch, ord, par), NEW y \in SeqToSet(ord), NEW p \in SeqToSet(ord),
         Num(ord, y) < Num(ord, p)
  PROVE  \E u \in SeqToSet(ord) : /\ u # Entry /\ Above(par, u, p) /\ Num(ord, u) > Num(ord, y)
                                  /\ Num(ord, par[u]) <= Num(ord, y)
<1> DEFINE S == {u \in SeqToSet(ord) : Above(par, u, p) /\ Num(ord, u) > Num(ord, y)}
<1>1. \A b \in SeqToSet(ord) : Num(ord, b) \in Int /\ Num(ord, b) >= 0 /\ b \in Blocks
  <2>1. Len(ord) \in Nat
    BY DEF Tree, Order
  <2> QED
    BY <2>1, Types
<1>2. p \in S
  BY <1>1, AboveSelf
<1>3. PICK u \in S : \A z \in S : Num(ord, u) <= Num(ord, z)
  <2>1. S \in SUBSET SeqToSet(ord) /\ S # {}
    BY <1>2
  <2> HIDE DEF S
  <2> QED
    BY <2>1, FirstOf DEF Tree
<1>4. u # Entry
  BY <1>1, <1>3, Types
<1>5. par[u] \in SeqToSet(ord) /\ Above(par, par[u], u) /\ Num(ord, par[u]) < Num(ord, u)
  BY <1>3, <1>4, TreeParent
<1>6. Above(par, par[u], p)
  BY <1>3, <1>5, AboveTransitive
<1>7. par[u] \notin S
  BY <1>1, <1>3, <1>5
<1> QED
  BY <1>1, <1>3, <1>4, <1>5, <1>6, <1>7

Enclosed(ord, par, sd, d) ==
  {y \in SeqToSet(ord) : /\ Above(par, d, y) /\ y # d
                         /\ \A u \in SeqToSet(ord) : Above(par, d, u) /\ u # d /\ Above(par, u, y) => sd[u] >= Num(ord, d)}

LEMMA EnteredThrough ==
  ASSUME NEW ch, NEW ord, NEW par, Searched(ch, ord, par), Forward(ch, ord, par), NEW sd,
         \A b \in From(ord, 1) : SemiInv(ch, ord, par, sd, b),
         NEW d \in SeqToSet(ord), NEW y \in Enclosed(ord, par, sd, d), NEW p \in Blocks, y \in ch[p]
  PROVE  p = d \/ p \in Enclosed(ord, par, sd, d)
<1> DEFINE V == SeqToSet(ord)
           No(b) == Num(ord, b)
<1>1. Tree(ch, ord, par)
  BY DEF Searched
<1>2. /\ y \in V /\ Above(par, d, y) /\ y # d
      /\ \A u \in V : Above(par, d, u) /\ u # d /\ Above(par, u, y) => sd[u] >= No(d)
  BY DEF Enclosed
<1>3. \A b \in V : b \in Blocks /\ No(b) \in Int /\ No(b) >= 0
  <2>1. Len(ord) \in Nat
    BY <1>1 DEF Tree, Order
  <2> QED
    BY <1>1, <2>1, Types
<1>4. \A b \in V : b # Entry => b \in From(ord, 1)
  <2>1. \A b \in V : b # Entry => No(b) # 0
    BY <1>1, Types
  <2> QED
    BY <1>3, <2>1 DEF From
<1>5. No(d) < No(y) /\ y # Entry
  BY <1>1, <1>2, AboveAnti
<1>6. /\ sd[y] \in Int /\ sd[y] >= No(d)
      /\ p \in V
      /\ No(p) < No(y) => sd[y] <= No(p)
      /\ \A u \in V : Above(par, u, p) /\ No(u) > No(y) => sd[y] <= sd[u]
  <2>1. SemiInv(ch, ord, par, sd, y)
    BY <1>2, <1>4, <1>5
  <2>2. Above(par, y, y)
    BY <1>2, <1>3, AboveSelf
  <2> QED
    BY <1>2, <2>1, <2>2 DEF SemiInv, ParentsBound
<1>7. CASE No(p) < No(y)
  <2>1. Above(par, p, y)
    BY <1>2, <1>6, <1>7 DEF Forward
  <2>2. No(d) <= No(p)
    BY <1>3, <1>6, <1>7
  <2>3. Above(par, d, p)
    BY <1>1, <1>2, <2>1, <2>2, Linear
  <2>4. \A u \in V : Above(par, u, p) => Above(par, u, y)
    BY <2>1, AboveTransitive
  <2> QED
    BY <1>2, <1>6, <2>3, <2>4 DEF Enclosed
<1>8. CASE No(p) = No(y)
  <2>1. p = y
    BY <1>1, <1>2, <1>6, <1>8, SameNumber DEF Tree
  <2> QED
    BY <2>1
<1>9. CASE No(p) > No(y)
  <2>1. PICK u \in V : u # Entry /\ Above(par, u, p) /\ No(u) > No(y) /\ No(par[u]) <= No(y)
    BY <1>1, <1>2, <1>3, <1>6, <1>9, Topmost
  <2>2. SemiInv(ch, ord, par, sd, u) /\ par[u] \in V /\ Above(par, par[u], u)
    BY <1>1, <1>4, <2>1, TreeParent
  <2>3. sd[y] <= sd[u] /\ sd[u] <= No(par[u]) /\ sd[u] \in Int
    BY <1>6, <2>1, <2>2 DEF SemiInv
  <2>4. No(d) <= No(par[u])
    BY <1>3, <1>6, <2>2, <2>3
  <2>5. Above(par, d, par[u])
    BY <1>1, <1>2, <2>1, <2>2, <2>4, Between
  <2>6. Above(par, d, p)
    BY <2>1, <2>2, <2>5, AboveTransitive
  <2>7. p # d
    BY <1>2, <1>3, <1>5, <1>6, <1>9
  <2>8. ASSUME NEW t \in V, Above(par, d, t), t # d, Above(par, t, p)
        PROVE  sd[t] >= No(d)
    <3>1. CASE No(t) > No(y)
      <4>1. t # Entry
        BY <1>1, <2>8, AboveAnti
      <4>2. sd[t] \in Int
        BY <1>4, <2>8, <4>1 DEF SemiInv
      <4>3. sd[y] <= sd[t]
        BY <1>6, <2>8, <3>1
      <4> QED
        BY <1>3, <1>6, <4>2, <4>3
    <3>2. CASE No(t) <= No(y)
      <4>1. No(y) <= No(p)
        BY <1>2, <1>3, <1>6, <1>9
      <4>2. Above(par, t, y)
        BY <1>1, <1>2, <1>6, <2>8, <3>2, <4>1, Between
      <4> QED
        BY <1>2, <2>8, <4>2
    <3> QED
      BY <1>2, <1>3, <3>1, <3>2
  <2> QED
    BY <1>6, <2>6, <2>7, <2>8 DEF Enclosed
<1> QED
  BY <1>2, <1>3, <1>6, <1>7, <1>8, <1>9

LEMMA FinalDominates ==
  ASSUME NEW ch, NEW ord, NEW par, Searched(ch, ord, par), Forward(ch, ord, par), NEW sd, NEW id,
         \A b \in From(ord, 1) : SemiInv(ch, ord, par, sd, b),
         NEW b \in From(ord, 1), Final(ch, ord, par, sd, id, b)
  PROVE  /\ id[b] \in SeqToSet(ord) /\ id[b] # b /\ Above(par, id[b], b)
         /\ ~Leads(ch, id[b], b)
<1> DEFINE V == SeqToSet(ord)
           d == id[b]
           C == Enclosed(ord, par, sd, d)
<1>1. Tree(ch, ord, par) /\ Graph(ch)
  BY DEF Searched, Tree
<1>2. b \in V /\ b # Entry /\ SemiInv(ch, ord, par, sd, b) /\ b \in Blocks
  BY <1>1, Types DEF From
<1>3. SemiOf(ord, sd, b) \in V /\ Above(par, SemiOf(ord, sd, b), b) /\ SemiOf(ord, sd, b) # b
  BY <1>1, <1>2, SemiFacts DEF SemiInv
<1>4. d \in V /\ Above(par, d, SemiOf(ord, sd, b))
        /\ \A u \in V : Above(par, u, b) /\ Num(ord, u) > Num(ord, d) => sd[u] >= Num(ord, d)
  BY DEF Final
<1> HIDE DEF d
<1>5. Above(par, d, b)
  BY <1>3, <1>4, AboveTransitive
<1>6. d # b
  <2>1. Num(ord, d) <= Num(ord, SemiOf(ord, sd, b)) /\ Num(ord, SemiOf(ord, sd, b)) < Num(ord, b)
    BY <1>1, <1>2, <1>3, <1>4, AboveVisited, AboveAnti
  <2> QED
    BY <1>1, <1>2, <1>3, <2>1, Types
<1>7. b \in C
  <2>1. ASSUME NEW u \in V, Above(par, d, u), u # d, Above(par, u, b) PROVE sd[u] >= Num(ord, d)
    <3>1. Num(ord, u) > Num(ord, d)
      <4>1. Num(ord, d) < Num(ord, u)
        BY <1>1, <2>1, AboveAnti
      <4> QED
        BY <1>1, <1>4, <2>1, <4>1, Types
    <3> QED
      BY <1>4, <2>1, <3>1
  <2> QED
    BY <1>2, <1>5, <1>6, <2>1 DEF Enclosed
<1>8. \A y \in C : \A p \in Blocks : y \in ch[p] => p = d \/ p \in C
  <2> HIDE DEF C
  <2> QED
    BY <1>4, EnteredThrough DEF C
<1>9. DownClosed(ch, d, Blocks \ (C \cup {d}))
  <2>1. Entry # d => Entry \notin C
    BY <1>1, AboveAnti, Types DEF Enclosed
  <2>2. ASSUME NEW x \in Blocks \ (C \cup {d}), NEW y \in ch[x] \ {d}
        PROVE  y \in Blocks \ (C \cup {d})
    BY <1>1, <1>8, <2>2 DEF Graph
  <2> HIDE DEF C
  <2> QED
    BY <2>1, <2>2, BlocksAssumption DEF DownClosed
<1>10. ~Leads(ch, d, b)
  <2> HIDE DEF C
  <2>1. Blocks \ (C \cup {d}) \in SUBSET Blocks /\ b \notin Blocks \ (C \cup {d})
    BY <1>7
  <2> QED
    BY <1>9, <2>1 DEF Leads
<1> QED
  BY <1>4, <1>5, <1>6, <1>10 DEF d

LEMMA FinalIsImmediate ==
  ASSUME NEW ch, NEW ord, NEW par, Searched(ch, ord, par), Forward(ch, ord, par), NEW sd, NEW id,
         \A b \in From(ord, 1) : SemiInv(ch, ord, par, sd, b),
         NEW b \in From(ord, 1), Final(ch, ord, par, sd, id, b),
         NEW e \in SeqToSet(ord), e # b, ~Leads(ch, e, b), e # id[b]
  PROVE  ~Leads(ch, e, id[b])
<1> DEFINE V == SeqToSet(ord)
           d == id[b]
           No(x) == Num(ord, x)
<1>1. Tree(ch, ord, par)
  BY DEF Searched
<1>2. b \in V
  BY DEF From
<1>3. d \in V /\ Above(par, d, b)
  BY FinalDominates
<1>4. Above(par, e, b)
  BY <1>1, <1>2, Avoids
<1>5. \A x \in V : No(x) \in Int
  BY <1>1, Types
<1>6. ~(No(e) > No(d))
  BY <1>4 DEF Final
<1>7. No(e) < No(d)
  BY <1>1, <1>3, <1>5, <1>6, SameNumber DEF Tree
<1> QED
  BY <1>1, <1>2, <1>3, <1>7, DownFromHigher

-----------------------------------------------------------------------------
(* What holds in the stages of UpdateDominatorTree.                         *)
NothingFound == bucket = [b \in Blocks |-> {}] /\ idom = [b \in Blocks |-> NoBlock]
Numbered == \A b \in Blocks : sdom[b] = IF b \in SeqToSet(order) THEN Num(order, b) ELSE -1

SearchedInv == Searched(children, order, parent) /\ next <= Len(order)
FoundInv == Forward(children, order, parent) /\ ImplicitInv(children, order, parent, sdom, bucket, idom, next)
DecidedInv == Forward(children, order, parent) /\ ExplicitInv(children, order, parent, sdom, idom, next)

TreeInv ==
  /\ TypeOK
  /\ \A b \in Blocks : sdom[b] >= -1
  /\ phase = "edit" => NoContext
  /\ phase = "search" => SearchInv(children, order, parent, stack) /\ NothingFound /\ Numbered
  /\ phase = "implicit" => SearchedInv /\ (depthFirst => FoundInv)
  /\ phase = "explicit" => Searched(children, order, parent) /\ next >= 2 /\ (depthFirst => DecidedInv)
  /\ DominatorsAreRight
  /\ ThrowsForUnreachedParent

LEMMA ReachedIsVisited ==
  ASSUME Searched(children, order, parent)
  PROVE  Reached = SeqToSet(order)
<1>1. Graph(children) /\ SeqToSet(order) \in SUBSET Blocks
  BY Types DEF Searched, Tree
<1>2. \A b \in Blocks : b \in Reached <=> Leads(children, NoBlock, b)
  BY <1>1, ReachedIsLeads DEF Reached
<1>3. Reached \in SUBSET Blocks
  BY <1>1, RoundsSaturate DEF Reached
<1> QED
  BY <1>1, <1>2, <1>3 DEF Searched

LEMMA DominatorsFound ==
  ASSUME Searched(children, order, parent), ContextTypes, DecidedInv, next > Len(order)
  PROVE  /\ \A i \in 2..Len(order) : idom[order[i]] # NoBlock
         /\ \A b \in Blocks : IF b \in Reached \ {Entry} THEN IsImmediateDominator(idom[b], b)
                              ELSE idom[b] = NoBlock
<1> DEFINE V == SeqToSet(order)
<1>1. Tree(children, order, parent) /\ Graph(children) /\ Len(order) \in Nat
  BY DEF Searched, Tree, Order
<1>2. Reached = V
  BY ReachedIsVisited
<1>3. \A b \in V : b \in Blocks /\ b # NoBlock /\ Num(order, b) \in 0..(Len(order) - 1) /\ (Num(order, b) = 0 => b = Entry)
  BY <1>1, Types
<1>4. \A b : b \in From(order, 1) <=> b \in V /\ b # Entry
  <2>1. \A b \in V : b # Entry => Num(order, b) >= 1
    BY <1>1, <1>3
  <2> QED
    BY <2>1 DEF From
<1>5. \A b \in From(order, 1) : /\ SemiInv(children, order, parent, sdom, b)
                                /\ Final(children, order, parent, sdom, idom, b)
  <2>1. next = Len(order) + 1
    BY <1>1 DEF DecidedInv, ExplicitInv, ContextTypes
  <2>2. \A b \in From(order, 1) : Num(order, b) < next - 1
    BY <1>1, <1>3, <1>4, <2>1
  <2> QED
    BY <2>2 DEF DecidedInv, ExplicitInv
<1>6. Forward(children, order, parent)
  BY DEF DecidedInv
<1> HIDE DEF V
<1>7. ASSUME NEW b \in V, b # Entry
      PROVE  idom[b] # NoBlock /\ IsImmediateDominator(idom[b], b)
  <2> DEFINE d == idom[b]
  <2>1. b \in From(order, 1) /\ Final(children, order, parent, sdom, idom, b)
    BY <1>4, <1>5, <1>7
  <2>2. d \in V /\ d # b /\ ~Leads(children, d, b)
    BY <1>5, <1>6, <2>1, FinalDominates DEF V
  <2>3. b \notin ReachedWithout(d)
    BY <1>1, <1>3, <1>7, <2>2, ReachedIsLeads
  <2>4. ASSUME NEW e \in Blocks, StrictlyDominates(e, b), e # d
        PROVE  StrictlyDominates(e, d)
    <3>1. e \in V /\ e # b /\ ~Leads(children, e, b)
      BY <1>1, <1>2, <1>3, <1>7, <2>4, ReachedIsLeads DEF StrictlyDominates
    <3>2. ~Leads(children, e, d)
      BY <1>5, <1>6, <2>1, <2>4, <3>1, FinalIsImmediate DEF V
    <3>3. d \notin ReachedWithout(e)
      BY <1>1, <1>3, <2>2, <3>2, ReachedIsLeads
    <3> QED
      BY <1>2, <2>4, <3>1, <3>3 DEF StrictlyDominates
  <2> QED
    BY <1>2, <1>3, <2>2, <2>3, <2>4 DEF IsImmediateDominator, StrictlyDominates
<1>8. ASSUME NEW i \in 2..Len(order) PROVE order[i] \in V /\ order[i] # Entry
  <2>1. i \in 1..Len(order)
    BY <1>1
  <2>2. order[i] \in V /\ Num(order, order[i]) = i - 1
    BY <1>1, <2>1, NumberOf DEF Tree, V
  <2> QED
    BY <1>1, <2>2, Types
<1>9. ASSUME NEW b \in Blocks, ~(b \in Reached \ {Entry}) PROVE idom[b] = NoBlock
  <2>1. b \notin From(order, 1)
    BY <1>2, <1>4, <1>9
  <2> QED
    BY <2>1 DEF DecidedInv, ExplicitInv
<1> QED
  BY <1>2, <1>7, <1>8, <1>9

(* Whatever the search was, the values have their types.                    *)
LEMMA ImplicitTypes ==
  ASSUME SearchedInv, TypeOK, \A b \in Blocks : sdom[b] >= -1, FindImplicitIDom
  PROVE  /\ sdom' \in [Blocks -> Int] /\ \A b \in Blocks : sdom'[b] >= -1
         /\ bucket' \in [Blocks -> SUBSET Blocks]
         /\ idom' \in [Blocks -> Blocks \cup {NoBlock}]
         /\ next' \in Nat /\ next' <= next
         /\ phase' \in {phase, "threw"} /\ phase' \in Phases
         /\ UNCHANGED <<stack, order, parent>>
<1> DEFINE V == SeqToSet(order)
           w == order[next]
           sem == Semidominator(w)
           semi == [sdom EXCEPT ![w] = sem]
           x == parent[w]
           s == order[semi[w] + 1]
           blocksOf == [bucket EXCEPT ![s] = @ \cup {w}]
           decided == blocksOf[x]
           P == Processed \cup {w}
           u(v) == Eval(v, P, semi)
<1>1. Tree(children, order, parent) /\ Parental(parent) /\ V \in SUBSET Blocks
  BY Types DEF SearchedInv, Searched, Tree
<1>2. next \in Nat /\ next > 1 /\ next <= Len(order)
  BY DEF FindImplicitIDom, SearchedInv, TypeOK
<1>3. /\ w \in V /\ w # Entry /\ w \in Blocks /\ Processed = From(order, next) /\ P = From(order, next - 1)
  BY <1>1, <1>2, ProcessedIsFrom
<1>4. ASSUME NEW k \in Nat, NEW v \in Blocks, NEW Q, Q = From(order, k),
             NEW f \in [Blocks -> Int], \A b \in Blocks : f[b] >= -1
      PROVE  Eval(v, Q, f) \in Blocks
  <2>1. Q \in SUBSET V /\ Q \in SUBSET Blocks /\ \A b \in V : b \in Q <=> Num(order, b) >= k /\ b # Entry
    BY <1>1, <1>4 DEF From
  <2>2. CASE v \in Q
    <3>1. v \in V
      BY <2>1, <2>2
    <3>2. Eval(v, Q, f) \in Q
      BY <1>1, <1>4, <2>1, <2>2, <3>1, EvalInside
    <3> QED
      BY <2>1, <3>2
  <2>3. CASE v \notin Q
    BY <1>1, <1>4, <2>1, <2>3, EvalOutside
  <2> QED
    BY <2>2, <2>3
<1>5. sem \in Int /\ sem >= -1
  <2> DEFINE S == {sdom[Eval(p, Processed, sdom)] : p \in Parents(w)} \cup {sdom[w]}
  <2>1. ASSUME NEW p \in Parents(w) PROVE Eval(p, Processed, sdom) \in Blocks
    BY <1>2, <1>3, <1>4 DEF Parents, TypeOK
  <2>2. S \in SUBSET Int /\ S # {} /\ \A y \in S : y >= -1
    BY <1>3, <2>1 DEF TypeOK
  <2>3. sem = Smallest(S)
    BY DEF Semidominator
  <2> HIDE DEF S
  <2> QED
    BY <2>2, <2>3, SmallestOf
<1>6. semi \in [Blocks -> Int] /\ \A b \in Blocks : semi[b] >= -1
  BY <1>3, <1>5 DEF TypeOK
<1>7. /\ blocksOf \in [Blocks -> SUBSET Blocks]
      /\ [blocksOf EXCEPT ![x] = {}] \in [Blocks -> SUBSET Blocks]
  BY <1>3 DEF TypeOK
<1>8. x \in Blocks
  BY <1>1, <1>3, TreeParent
<1>9. \A v \in Blocks : u(v) \in Blocks
  <2> HIDE DEF semi, P
  <2>1. next - 1 \in Nat
    BY <1>2
  <2> QED
    BY <1>3, <1>4, <1>6, <2>1
<1>10. /\ phase' = "threw" /\ UNCHANGED context
       \/ /\ sdom' = semi
          /\ idom' = [v \in Blocks |->
               IF v \in decided THEN IF semi[u(v)] < semi[v] THEN u(v) ELSE x
               ELSE idom[v]]
          /\ bucket' = [blocksOf EXCEPT ![x] = {}]
          /\ next' = next - 1
          /\ UNCHANGED <<phase, stack, order, parent>>
  BY DEF FindImplicitIDom
<1>11. CASE phase' = "threw" /\ UNCHANGED context
  BY <1>2, <1>11 DEF context, TypeOK, Phases
<1> HIDE DEF semi, sem, blocksOf, decided, x, u, P, w, s
<1>12. CASE /\ sdom' = semi
            /\ idom' = [v \in Blocks |->
                 IF v \in decided THEN IF semi[u(v)] < semi[v] THEN u(v) ELSE x
                 ELSE idom[v]]
            /\ bucket' = [blocksOf EXCEPT ![x] = {}]
            /\ next' = next - 1
            /\ UNCHANGED <<phase, stack, order, parent>>
  <2>1. idom' \in [Blocks -> Blocks \cup {NoBlock}]
    BY <1>8, <1>9, <1>12 DEF TypeOK
  <2> QED
    BY <1>2, <1>6, <1>7, <1>12, <2>1 DEF TypeOK
<1> QED
  BY <1>10, <1>11, <1>12

LEMMA TreeStep ==
  ASSUME TreeInv, Next
  PROVE  TreeInv'
<1>1. children' = children
  BY DEF Next, UpdateDominatorTree, Visit, SearchEnds, FindImplicitIDom, ImplicitEnds, FindExplicitIDom, SetDominators
<1>2. phase \in Phases /\ phase # "ok" /\ phase # "threw"
  BY DEF Next, UpdateDominatorTree, Visit, SearchEnds, FindImplicitIDom, ImplicitEnds, FindExplicitIDom, SetDominators, Phases
<1>3. Reached' = Reached
  BY <1>1 DEF Reached, ReachedWithout
<1>4. ASSUME phase' \notin {"ok", "threw"} PROVE DominatorsAreRight' /\ ThrowsForUnreachedParent'
  BY <1>4 DEF DominatorsAreRight, ThrowsForUnreachedParent
<1>5. CASE UpdateDominatorTree
  <2>1. NoContext /\ TypeOK /\ phase' = "search" /\ stack' = <<Entry>>
        /\ UNCHANGED <<children, order, parent, sdom, bucket, idom, next, depthFirst, dominators>>
    BY <1>5 DEF UpdateDominatorTree, TreeInv
  <2>2. SearchInv(children, order, parent, <<Entry>>)
    BY <2>1, SearchBegins DEF TypeOK, Graph
  <2>3. TypeOK'
    BY <2>1, BlocksAssumption DEF TypeOK, Phases
  <2>4. NothingFound' /\ Numbered' /\ \A b \in Blocks : sdom'[b] >= -1
    BY <2>1 DEF NoContext, NothingFound, Numbered, SeqToSet
  <2> QED
    BY <1>4, <2>1, <2>2, <2>3, <2>4 DEF TreeInv
<1>6. CASE Visit
  <2> DEFINE v == stack[Len(stack)]
             unseen == children[v] \ (SeqToSet(order) \cup SeqToSet(stack))
  <2>1. SearchInv(children, order, parent, stack) /\ NothingFound /\ Numbered /\ TypeOK
    BY <1>6 DEF Visit, TreeInv
  <2>2. SearchInv(children', order', parent', stack')
    BY <1>6, <2>1, VisitKeeps
  <2>3. /\ phase' = "search" /\ stack # <<>>
        /\ order' = Append(order, v) /\ sdom' = [sdom EXCEPT ![v] = Len(order)]
        /\ UNCHANGED <<bucket, idom, next, depthFirst, dominators>>
    BY <1>6 DEF Visit
  <2>4. v \in SeqToSet(stack) /\ v \in Blocks /\ Len(order) \in Nat
    <3>1. Len(stack) \in DOMAIN stack /\ stack \in Seq(Blocks) /\ order \in Seq(Blocks)
      BY <2>1, <2>3, EmptySeq, LenProperties DEF TypeOK
    <3> QED
      BY <3>1 DEF SeqToSet
  <2>5. v \notin SeqToSet(order) /\ Order(order)
    BY <2>1, <2>4 DEF SearchInv, StackInv
  <2>6. sdom' \in [Blocks -> Int] /\ \A b \in Blocks : sdom'[b] = IF b = v THEN Len(order) ELSE sdom[b]
    BY <2>1, <2>3, <2>4 DEF TypeOK
  <2>7. NothingFound'
    BY <2>1, <2>3 DEF NothingFound
  <2> HIDE DEF v
  <2>8. Numbered'
    BY <2>1, <2>3, <2>4, <2>5, <2>6, NumberOfNext DEF Numbered
  <2>9. TypeOK'
    BY <1>1, <2>1, <2>2, <2>3, <2>6 DEF TypeOK, SearchInv, Order, Parental, Phases
  <2>10. \A b \in Blocks : sdom'[b] >= -1
    BY <2>4, <2>6 DEF TreeInv
  <2> QED
    BY <1>4, <2>2, <2>3, <2>7, <2>8, <2>9, <2>10 DEF TreeInv
<1>7. CASE SearchEnds
  <2>1. /\ phase = "search" /\ stack = <<>> /\ phase' = "implicit" /\ next' = Len(order) /\ depthFirst' = IsDepthFirst
        /\ UNCHANGED <<children, stack, order, parent, sdom, bucket, idom, dominators>>
    BY <1>7 DEF SearchEnds
  <2>2. SearchInv(children, order, parent, <<>>) /\ NothingFound /\ Numbered /\ TypeOK
    BY <2>1 DEF TreeInv
  <2>3. Searched(children, order, parent)
    BY <2>2, SearchFinds
  <2>4. Tree(children, order, parent) /\ Len(order) \in Nat
    BY <2>3 DEF Searched, Tree, Order
  <2>5. Len(order) >= 1 /\ From(order, Len(order)) = {}
    <3>1. Entry \in SeqToSet(order) /\ \A b \in SeqToSet(order) : Num(order, b) \in 0..(Len(order) - 1)
      BY <2>4, Types
    <3>2. \A b \in SeqToSet(order) : ~(Num(order, b) >= Len(order))
      BY <2>4, <3>1
    <3>3. Len(order) >= 1
      BY <2>4, <3>1
    <3> QED
      BY <3>2, <3>3 DEF From
  <2>6. ImplicitInv(children, order, parent, sdom, bucket, idom, Len(order))
    BY <2>2, <2>5 DEF ImplicitInv, NothingFound, Numbered, Untouched
  <2>7. IsDepthFirst => Forward(children, order, parent)
    BY <2>4, ForwardEdges DEF Forward
  <2>8. TypeOK'
    BY <2>1, <2>2, <2>4 DEF TypeOK, Phases, IsDepthFirst
  <2>9. SearchedInv' /\ (depthFirst' => FoundInv')
    BY <2>1, <2>3, <2>4, <2>6, <2>7 DEF SearchedInv, FoundInv
  <2> QED
    BY <1>4, <2>1, <2>8, <2>9 DEF TreeInv
<1>8. CASE FindImplicitIDom
  <2>1. /\ phase = "implicit" /\ SearchedInv /\ (depthFirst => FoundInv) /\ TypeOK /\ \A b \in Blocks : sdom[b] >= -1
        /\ UNCHANGED <<children, depthFirst, dominators>>
    BY <1>8 DEF FindImplicitIDom, TreeInv
  <2>2. /\ sdom' \in [Blocks -> Int] /\ \A b \in Blocks : sdom'[b] >= -1
        /\ bucket' \in [Blocks -> SUBSET Blocks]
        /\ idom' \in [Blocks -> Blocks \cup {NoBlock}]
        /\ next' \in Nat /\ next' <= next
        /\ phase' \in {"implicit", "threw"} /\ phase' \in Phases
        /\ UNCHANGED <<stack, order, parent>>
    BY <1>8, <2>1, ImplicitTypes
  <2>3. TypeOK'
    BY <2>1, <2>2 DEF TypeOK
  <2>4. SearchedInv'
    BY <2>1, <2>2, OrderIsShort DEF SearchedInv, Searched, Tree, TypeOK
  <2>5. ASSUME depthFirst
        PROVE  \/ /\ phase' = "threw"
                  /\ \E p \in Blocks \ SeqToSet(order) : \E w \in SeqToSet(order) : w \in children[p]
               \/ /\ phase' = phase /\ UNCHANGED <<stack, order, parent>> /\ next' = next - 1
                  /\ ImplicitInv(children, order, parent, sdom', bucket', idom', next')
    BY <1>8, <2>1, <2>5, ImplicitStep DEF SearchedInv, FoundInv, ContextTypes, TypeOK
  <2>6. ThrowsForUnreachedParent'
    <3> SUFFICES ASSUME phase' = "threw", depthFirst
                 PROVE  \E p \in Blocks \ Reached : children[p] \cap Reached # {}
      BY <1>1, <1>3, <2>1 DEF ThrowsForUnreachedParent
    <3>1. Reached = SeqToSet(order)
      BY <2>1, ReachedIsVisited DEF SearchedInv
    <3> QED
      BY <2>1, <2>5, <3>1
  <2>7. depthFirst' /\ phase' = "implicit" => FoundInv'
    BY <2>1, <2>2, <2>5 DEF FoundInv
  <2>8. DominatorsAreRight'
    BY <2>2 DEF DominatorsAreRight
  <2> QED
    BY <2>2, <2>3, <2>4, <2>6, <2>7, <2>8 DEF TreeInv
<1>9. CASE ImplicitEnds
  <2>1. /\ phase = "implicit" /\ next <= 1 /\ phase' = "explicit" /\ next' = 2
        /\ UNCHANGED <<children, stack, order, parent, sdom, bucket, idom, depthFirst, dominators>>
    BY <1>9 DEF ImplicitEnds
  <2>2. SearchedInv /\ (depthFirst => FoundInv) /\ TypeOK /\ \A b \in Blocks : sdom[b] >= -1
    BY <2>1 DEF TreeInv
  <2>3. TypeOK'
    BY <2>1, <2>2 DEF TypeOK, Phases
  <2>4. depthFirst => ExplicitInv(children, order, parent, sdom, idom, 2)
    BY <2>1, <2>2, ExplicitBegins DEF SearchedInv, FoundInv, ContextTypes, TypeOK
  <2>5. depthFirst' => DecidedInv'
    BY <2>1, <2>2, <2>4 DEF DecidedInv, FoundInv
  <2> QED
    BY <1>4, <2>1, <2>2, <2>3, <2>5 DEF TreeInv, SearchedInv
<1>10. CASE FindExplicitIDom
  <2>1. /\ phase = "explicit" /\ next <= Len(order) /\ next' = next + 1
        /\ UNCHANGED <<children, stack, order, parent, sdom, bucket, depthFirst, dominators>>
    BY <1>10 DEF FindExplicitIDom
  <2>2. /\ Searched(children, order, parent) /\ next >= 2 /\ (depthFirst => DecidedInv) /\ TypeOK
        /\ \A b \in Blocks : sdom[b] >= -1
    BY <2>1 DEF TreeInv
  <2>3. order[next] \in Blocks
    BY <2>1, <2>2 DEF TypeOK
  <2>4. idom' \in [Blocks -> Blocks \cup {NoBlock}] /\ phase' \in {"explicit", "threw"}
    BY <1>10, <2>1, <2>2, <2>3 DEF FindExplicitIDom, TypeOK
  <2>5. TypeOK' /\ next' >= 2
    BY <2>1, <2>2, <2>4 DEF TypeOK, Phases
  <2>6. depthFirst => phase' = phase /\ DecidedInv'
    BY <1>10, <2>1, <2>2, ExplicitStep DEF DecidedInv, ContextTypes, TypeOK
  <2>7. DominatorsAreRight' /\ ThrowsForUnreachedParent'
    BY <2>1, <2>4, <2>6 DEF DominatorsAreRight, ThrowsForUnreachedParent
  <2> QED
    BY <2>1, <2>2, <2>4, <2>5, <2>6, <2>7 DEF TreeInv
<1>11. CASE SetDominators
  <2>1. /\ phase = "explicit" /\ next > Len(order)
        /\ phase' = IF \E i \in 2..Len(order) : idom[order[i]] = NoBlock THEN "threw" ELSE "ok"
        /\ dominators' = idom /\ ClearContext /\ UNCHANGED <<children, depthFirst>>
    BY <1>11 DEF SetDominators
  <2>2. /\ Searched(children, order, parent) /\ (depthFirst => DecidedInv) /\ TypeOK
        /\ \A b \in Blocks : sdom[b] >= -1
    BY <2>1 DEF TreeInv
  <2>3. TypeOK' /\ \A b \in Blocks : sdom'[b] >= -1
    BY <2>1, <2>2 DEF TypeOK, ClearContext, Phases
  <2>4. ASSUME depthFirst
        PROVE  /\ phase' = "ok"
               /\ \A b \in Blocks : IF b \in Reached \ {Entry} THEN IsImmediateDominator(idom[b], b)
                                    ELSE idom[b] = NoBlock
    BY <2>1, <2>2, <2>4, DominatorsFound DEF ContextTypes, TypeOK
  <2>5. \A d, b : StrictlyDominates(d, b)' <=> StrictlyDominates(d, b)
    BY <1>1, <1>3 DEF StrictlyDominates, ReachedWithout
  <2>6. DominatorsAreRight'
    <3> DEFINE Right(id) == \A b \in Blocks : IF b \in Reached \ {Entry} THEN IsImmediateDominator(id[b], b)
                                              ELSE id[b] = NoBlock
    <3>1. ASSUME NEW id PROVE Right(id)' <=> Right(id)
      BY <1>1, <1>3 DEF IsImmediateDominator, StrictlyDominates, ReachedWithout
    <3>2. ASSUME depthFirst PROVE Right(dominators)'
      <4>1. Right(idom)
        BY <2>4, <3>2
      <4> QED
        BY <2>1, <3>1, <4>1
    <3> QED
      BY <2>1, <3>2 DEF DominatorsAreRight
  <2>7. ThrowsForUnreachedParent'
    BY <2>1, <2>4 DEF ThrowsForUnreachedParent
  <2>8. phase' \in {"ok", "threw"}
    BY <2>1
  <2> QED
    BY <2>3, <2>6, <2>7, <2>8 DEF TreeInv
<1> QED
  BY <1>5, <1>6, <1>7, <1>8, <1>9, <1>10, <1>11 DEF Next

-----------------------------------------------------------------------------
(* From the parser to the interpreter.                                      *)

(* What strict domination is, without counting rounds.                      *)
LEMMA Dominates ==
  ASSUME Graph(children), NEW d \in Blocks, NEW b \in Blocks
  PROVE  StrictlyDominates(d, b) <=> d # b /\ Leads(children, NoBlock, d) /\ ~Leads(children, d, b)
BY ReachedIsLeads DEF StrictlyDominates, Reached

LEMMA LeadsPast ==
  ASSUME NEW ch, Graph(ch), NEW x \in Blocks, NEW c \in Blocks, NEW b \in Blocks,
         ~Leads(ch, x, c), Leads(ch, x, b)
  PROVE  Leads(ch, c, b)
<1> SUFFICES ASSUME NEW S \in SUBSET Blocks, DownClosed(ch, c, S)
             PROVE  b \in S
  BY DEF Leads
<1> DEFINE T == {y \in S : Leads(ch, x, y)}
<1>1. Entry # x => Entry \in T
  BY LeadsToEntry DEF DownClosed
<1>2. ASSUME NEW y \in T, NEW z \in ch[y] \ {x} PROVE z \in T
  <2>1. Leads(ch, x, z)
    BY <1>2, LeadsToChild
  <2>2. z # c
    BY <2>1
  <2> QED
    BY <1>2, <2>1, <2>2 DEF DownClosed
<1>3. DownClosed(ch, x, T) /\ T \in SUBSET Blocks
  <2> HIDE DEF T
  <2>1. DownClosed(ch, x, T)
    BY <1>1, <1>2 DEF DownClosed
  <2>2. T \in SUBSET Blocks
    BY DEF T
  <2> QED
    BY <2>1, <2>2
<1> QED
  BY <1>3 DEF Leads

(* No two blocks dominate one another.                                     *)
LEMMA DominatesAnti ==
  ASSUME NEW ch, Graph(ch), NEW b \in Blocks, NEW c \in Blocks, b # c,
         Leads(ch, NoBlock, b), ~Leads(ch, b, c), ~Leads(ch, c, b)
  PROVE  FALSE
<1> DEFINE S == {y \in Blocks : Leads(ch, b, y) /\ Leads(ch, c, y)}
<1>1. b # Entry /\ c # Entry
  BY LeadsToEntry
<1>2. Entry \in S
  BY <1>1, LeadsToEntry, BlocksAssumption
<1>3. ASSUME NEW y \in S, NEW z \in ch[y] PROVE z \in S
  <2>1. z \in Blocks
    BY <1>3 DEF Graph
  <2>2. z # b /\ z # c
    BY <1>3, LeadsToChild
  <2> QED
    BY <1>3, <2>1, <2>2, LeadsToChild
<1>4. b \in S
  <2> HIDE DEF S
  <2>1. DownClosed(ch, NoBlock, S)
    BY <1>2, <1>3 DEF DownClosed
  <2>2. S \in SUBSET Blocks
    BY DEF S
  <2> QED
    BY <2>1, <2>2 DEF Leads
<1> QED
  BY <1>4, LeadsNot

LEMMA DominatesTransitive ==
  ASSUME Graph(children), NEW x \in Blocks, NEW c \in Blocks, NEW b \in Blocks,
         StrictlyDominates(x, c), StrictlyDominates(c, b), Leads(children, NoBlock, b)
  PROVE  StrictlyDominates(x, b)
<1>1. x # c /\ Leads(children, NoBlock, x) /\ ~Leads(children, x, c)
  BY Dominates
<1>2. c # b /\ Leads(children, NoBlock, c) /\ ~Leads(children, c, b)
  BY Dominates
<1>3. x # b
  BY <1>1, <1>2, DominatesAnti
<1>4. ~Leads(children, x, b)
  BY <1>1, <1>2, LeadsPast
<1> QED
  BY <1>1, <1>3, <1>4, Dominates

(* A dominator of a block dominates the blocks from which it is reached.    *)
LEMMA DominatesParent ==
  ASSUME Graph(children), NEW d \in Blocks, NEW b \in Blocks, NEW p \in Blocks,
         StrictlyDominates(d, b), b \in children[p]
  PROVE  d = p \/ StrictlyDominates(d, p)
<1>1. d # b /\ Leads(children, NoBlock, d) /\ ~Leads(children, d, b)
  BY Dominates
<1>2. ~Leads(children, d, p)
  BY <1>1, LeadsToChild
<1> QED
  BY <1>1, <1>2, Dominates

LEMMA NothingDominatesEntry ==
  ASSUME Graph(children), NEW d \in Blocks
  PROVE  ~StrictlyDominates(d, Entry)
BY Dominates, LeadsToEntry, BlocksAssumption

(* The blocks that DominatorsOf collects.                                  *)
StepUp == [c \in Blocks \cup {NoBlock} |-> IF c = NoBlock THEN NoBlock ELSE dominators[c]]

LEMMA DominatorsOfIs ==
  ASSUME dominators \in [Blocks -> Blocks \cup {NoBlock}], NEW b \in Blocks
  PROVE  \E f \in [0..Cardinality(Blocks) -> Blocks \cup {NoBlock}] :
           Iterates(f, b, StepUp, Cardinality(Blocks)) /\ DominatorsOf(b) = SeqToSet(f)
<1> DEFINE n == Cardinality(Blocks)
           D == Blocks \cup {NoBlock}
           Is(f) == f = [i \in 0..n |-> IF i = 0 THEN b
                          ELSE IF f[i - 1] = NoBlock THEN NoBlock ELSE dominators[f[i - 1]]]
           g == CHOOSE f : Is(f)
<1>1. n \in Nat
  BY BlocksAssumption, FS_CardinalityType
<1>2. StepUp \in [D -> D]
  BY DEF StepUp
<1>3. \A c \in D : StepUp[c] = IF c = NoBlock THEN NoBlock ELSE dominators[c]
  BY DEF StepUp
<1> HIDE DEF n
<1>4. PICK f \in [0..n -> D] : Iterates(f, b, StepUp, n)
  BY <1>1, <1>2, Iteration
<1>5. Is(f)
  <2>1. ASSUME NEW i \in 0..n, i # 0
        PROVE  f[i] = IF f[i - 1] = NoBlock THEN NoBlock ELSE dominators[f[i - 1]]
    <3>1. i \in 1..n /\ i - 1 \in 0..n
      BY <1>1, <2>1
    <3>2. f[i] = StepUp[f[i - 1]] /\ f[i - 1] \in D
      BY <1>4, <3>1 DEF Iterates
    <3> HIDE DEF D
    <3> QED
      BY <1>3, <3>2
  <2> QED
    BY <1>1, <1>4, <2>1 DEF Iterates
<1>6. Is(g)
  BY <1>5
<1> HIDE DEF g
<1>7. \A i \in 1..n : g[i - 1] \in D => g[i] = StepUp[g[i - 1]]
  <2> SUFFICES ASSUME NEW i \in 1..n, g[i - 1] \in D
               PROVE  g[i] = StepUp[g[i - 1]]
    OBVIOUS
  <2>1. i # 0 /\ i \in 0..n
    BY <1>1
  <2>2. g[i] = IF g[i - 1] = NoBlock THEN NoBlock ELSE dominators[g[i - 1]]
    BY <1>6, <2>1, Zenon
  <2> QED
    BY <1>3, <2>2
<1>8. g[0] = b /\ DOMAIN g = 0..n
  BY <1>1, <1>6
<1> HIDE DEF D
<1>9. (\A i \in 0..n : g[i] \in D) /\ Iterates(g, b, StepUp, n)
  <2>1. b \in D
    BY DEF D
  <2> QED
    BY <1>1, <1>2, <1>7, <1>8, <2>1, IteratesThroughout
<1>10. g = [i \in 0..n |-> g[i]]
  BY <1>6
<1>11. g \in [0..n -> D]
  BY <1>9, <1>10
<1>12. DominatorsOf(b) = SeqToSet(g)
  BY DEF DominatorsOf, g, n
<1> QED
  BY <1>9, <1>11, <1>12 DEF n, D

LEMMA DominatorsOfDominate ==
  ASSUME TypeOK, phase = "ok", depthFirst, DominatorsAreRight, NEW b \in Reached,
         NEW d \in Blocks, d \in DominatorsOf(b), d # b
  PROVE  StrictlyDominates(d, b)
<1> DEFINE n == Cardinality(Blocks)
           T == {c \in Blocks : c = b \/ StrictlyDominates(c, b)} \cup {NoBlock}
<1>1. Graph(children) /\ n \in Nat
  BY BlocksAssumption, FS_CardinalityType DEF TypeOK, Graph
<1>2. b \in Blocks /\ \A c \in Blocks : c \in Reached <=> Leads(children, NoBlock, c)
  BY <1>1, ReachedIsLeads, RoundsSaturate DEF Reached
<1>3. PICK f : Iterates(f, b, StepUp, n) /\ DominatorsOf(b) = SeqToSet(f) /\ DOMAIN f = 0..n
  BY <1>2, DominatorsOfIs DEF TypeOK
<1>4. ASSUME NEW c \in T PROVE StepUp[c] \in T
  <2>1. CASE c = NoBlock
    BY <2>1 DEF StepUp
  <2>2. CASE c # NoBlock
    <3>1. c \in Blocks /\ (c = b \/ StrictlyDominates(c, b)) /\ StepUp[c] = dominators[c]
      BY <1>4, <2>2 DEF StepUp
    <3>2. c \in Reached
      BY <3>1 DEF StrictlyDominates
    <3>3. CASE c = Entry
      <4>1. dominators[c] = NoBlock
        BY <3>1, <3>3 DEF DominatorsAreRight
      <4> QED
        BY <3>1, <4>1
    <3>4. CASE c # Entry
      <4>1. StrictlyDominates(dominators[c], c)
        BY <3>1, <3>2, <3>4 DEF DominatorsAreRight, IsImmediateDominator
      <4>2. dominators[c] \in Blocks
        <5>1. dominators[c] \in Reached /\ Reached \in SUBSET Blocks
          BY <1>1, <4>1, RoundsSaturate DEF StrictlyDominates, Reached
        <5> QED
          BY <5>1
      <4>3. StrictlyDominates(dominators[c], b)
        BY <1>1, <1>2, <3>1, <4>1, <4>2, DominatesTransitive
      <4> QED
        BY <3>1, <4>2, <4>3
    <3> QED
      BY <3>3, <3>4
  <2> QED
    BY <2>1, <2>2
<1>5. b \in T
  BY <1>2
<1> HIDE DEF T, n
<1>6. \A i \in 0..n : f[i] \in T
  BY <1>1, <1>3, <1>4, <1>5, IteratesIn
<1>7. d \in T
  BY <1>3, <1>6 DEF SeqToSet
<1> QED
  BY <1>7, BlocksAssumption DEF T

-----------------------------------------------------------------------------
(* What the checker and the interpreter rely on.                            *)
Instrs == [kind: {"mov", "phi"}, result: Operands, uses: SUBSET Operands, args: SUBSET (Blocks \X Operands)]

Accepted ==
  /\ CheckValuesInFunc /\ \A b \in Present : CheckBlock(b)
  /\ phase = "threw" => ~NeedsDominators

(* Every value is computed whose definition was passed: in this block, in   *)
(* the one before it, or in one that dominates that.                        *)
Passed(d) ==
  \/ d[1] = current /\ d[2] < index
  \/ previous # NoBlock /\ (d[1] = previous \/ StrictlyDominates(d[1], previous))

RunInv ==
  /\ Accepted
  /\ current \in Reached
  /\ previous = NoBlock => current = Entry
  /\ previous # NoBlock => previous \in Reached /\ current \in children[previous]
  /\ \A v \in Values : \A d \in DefinitionsOf(v) : Passed(d) => v \in computed

FuncTypes ==
  /\ terminator \in [Blocks -> Terminators]
  /\ instrs \in [Blocks -> Seq(Instrs)]
  /\ stage \in Stages
  /\ current \in Blocks
  /\ previous \in Blocks \cup {NoBlock}
  /\ index \in 1..(Len(instrs[current]) + 1)
  /\ computed \subseteq Values

FuncInv ==
  /\ TreeInv
  /\ FuncTypes
  /\ phase # "edit" => Present = Named
  /\ stage = "parse" => current = Entry /\ previous = NoBlock /\ index = 1 /\ computed = {}
  /\ stage # "parse" => phase \in {"ok", "threw"}
  /\ stage = "run" => RunInv
  /\ AcceptedFuncRunsIfDepthFirst

LEMMA FuncTypesOK ==
  ASSUME FuncInv
  PROVE  FuncTypeOK
<1>1. FuncTypes /\ TypeOK
  BY DEF FuncInv, TreeInv
<1>2. ASSUME NEW b \in Blocks, NEW i \in DOMAIN instrs[b] PROVE IsInstr(instrs[b][i])
  <2>1. instrs[b] \in Seq(Instrs)
    BY <1>1 DEF FuncTypes
  <2>2. instrs[b][i] \in Instrs
    BY <2>1
  <2> QED
    BY <2>2 DEF Instrs, IsInstr
<1> QED
  BY <1>1, <1>2 DEF FuncTypes, FuncTypeOK

LEMMA FuncInitRight ==
  ASSUME FuncInit
  PROVE  FuncInv
<1>1. TypeOK
  BY BlocksAssumption DEF FuncInit, NoContext, TypeOK, Phases
<1>2. \A b \in Blocks : sdom[b] >= -1
  BY DEF FuncInit, NoContext
<1>3. phase = "edit" /\ NoContext /\ stage = "parse" /\ current = Entry /\ previous = NoBlock /\ index = 1 /\ computed = {}
  BY DEF FuncInit
<1>4. TreeInv
  BY <1>1, <1>2, <1>3 DEF TreeInv, DominatorsAreRight, ThrowsForUnreachedParent
<1>5. FuncTypes
  BY <1>3, BlocksAssumption DEF FuncInit, FuncTypes, Stages, Terminators
<1> QED
  BY <1>3, <1>4, <1>5 DEF FuncInv, AcceptedFuncRunsIfDepthFirst, AcceptedFuncRuns

(* Only the blocks that exist are reached.                                 *)
LEMMA ReachedIsPresent ==
  ASSUME FuncInv, phase # "edit"
  PROVE  Reached \subseteq Present /\ Entry \in Reached /\ Reached \in SUBSET Blocks
<1>1. Present = Named /\ Graph(children)
  BY DEF FuncInv, TreeInv, TypeOK, Graph
<1>2. Present \in SUBSET Blocks /\ DownClosed(children, NoBlock, Present)
  <2>1. Entry \in Present /\ \A b \in Present : children[b] \subseteq Present
    BY <1>1 DEF Named
  <2> QED
    BY <2>1 DEF DownClosed, Present
<1>3. \A b \in Blocks : b \in Reached <=> Leads(children, NoBlock, b)
  BY <1>1, ReachedIsLeads DEF Reached
<1>4. Reached \in SUBSET Blocks
  BY <1>1, RoundsSaturate DEF Reached
<1>5. Entry \in Reached
  BY <1>3, LeadsToEntry, BlocksAssumption
<1> QED
  BY <1>2, <1>3, <1>4, <1>5 DEF Leads

(* A value that is used at a place was computed before.                     *)
LEMMA UsedIsPassed ==
  ASSUME FuncInv, stage = "run", depthFirst, NEW v \in Values, NEW u \in UsesOf(v),
         \/ u = <<current, index>>
         \/ previous # NoBlock /\ u[1] = previous
  PROVE  v \in computed
<1> DEFINE Defs == DefinitionsOf(v)
<1>1. RunInv /\ FuncTypes /\ TypeOK /\ DominatorsAreRight /\ phase \in {"ok", "threw"} /\ Graph(children)
  BY DEF FuncInv, TreeInv, TypeOK, Graph
<1>2. Defs # {} /\ \A d \in Defs : CheckDefinitionDominatesUse(d, u)
  BY <1>1 DEF RunInv, Accepted, CheckValuesInFunc
<1>3. \A d \in Defs : d[1] \in Blocks
  BY DEF DefinitionsOf, Places
<1> HIDE DEF Defs
<1>4. Blocks \subseteq Nat
  <2>1. Cardinality(Blocks) \in Nat
    BY BlocksAssumption, FS_CardinalityType
  <2> QED
    BY <2>1, NumbersAssumption
<1>5. PICK d \in Defs : \A e \in Defs : d[1] <= e[1]
  <2> DEFINE T == {d[1] : d \in Defs}
  <2>1. T \in SUBSET Nat /\ T # {}
    BY <1>2, <1>3, <1>4
  <2>2. PICK k \in T : \A l \in T : k <= l
    BY <2>1, SmallestElement
  <2> QED
    BY <2>2
<1>6. u[1] \in Reached /\ u[1] \in {current, previous}
  BY <1>1 DEF RunInv
<1>7. CASE d[1] = u[1]
  <2>1. d[2] < u[2]
    BY <1>2, <1>7 DEF CheckDefinitionDominatesUse
  <2>2. Passed(d)
    BY <1>7, <2>1 DEF Passed
  <2> QED
    BY <1>1, <2>2 DEF RunInv, Defs
<1>8. CASE d[1] # u[1]
  <2>1. d[1] \in DominatorsOf(u[1])
    BY <1>2, <1>8 DEF CheckDefinitionDominatesUse
  <2>2. NeedsDominators
    BY <1>5, <1>8 DEF NeedsDominators, Defs
  <2>3. phase = "ok"
    BY <1>1, <2>2 DEF RunInv, Accepted
  <2>4. StrictlyDominates(d[1], u[1])
    BY <1>1, <1>3, <1>6, <1>8, <2>1, <2>3, DominatorsOfDominate
  <2>5. Passed(d)
    <3>1. CASE previous # NoBlock /\ u[1] = previous
      BY <2>4, <3>1 DEF Passed
    <3>2. CASE u = <<current, index>>
      <4>1. StrictlyDominates(d[1], current)
        BY <2>4, <3>2
      <4>2. current # Entry /\ previous # NoBlock
        BY <1>1, <1>3, <4>1, NothingDominatesEntry DEF RunInv
      <4>3. previous \in Blocks /\ current \in Blocks /\ current \in children[previous]
        BY <1>1, <4>2 DEF RunInv, FuncTypes
      <4>4. d[1] = previous \/ StrictlyDominates(d[1], previous)
        BY <1>1, <1>3, <4>1, <4>3, DominatesParent
      <4> QED
        BY <4>2, <4>4 DEF Passed
    <3> QED
      BY <3>1, <3>2
  <2> QED
    BY <1>1, <2>5 DEF RunInv, Defs
<1> QED
  BY <1>7, <1>8

(* The instruction executed finds what it uses.                            *)
LEMMA MovFindsItsOperands ==
  ASSUME FuncInv, AtInstr, depthFirst
  PROVE  Instr.uses \subseteq computed \cup {Constant}
<1>1. FuncTypes /\ instrs[current] \in Seq(Instrs) /\ stage = "run" /\ index \in DOMAIN instrs[current] /\ current \in Blocks
  BY DEF FuncInv, FuncTypes, AtInstr
<1>2. Instr \in Instrs
  BY <1>1 DEF Instr
<1>3. ASSUME NEW v \in Instr.uses, v # Constant PROVE v \in computed
  <2>1. v \in Values
    BY <1>2, <1>3 DEF Instrs, Operands
  <2>2. <<current, index>> \in UsesOf(v)
    BY <1>1, <1>3 DEF UsesOf, Places, InstrAt, Instr
  <2> QED
    BY <1>1, <2>1, <2>2, UsedIsPassed
<1> QED
  BY <1>3

LEMMA PhiFindsItsOperand ==
  ASSUME FuncInv, AtInstr, Instr.kind = "phi", depthFirst
  PROVE  /\ {a[2] : a \in {b \in Instr.args : b[1] = previous}} # {}
         /\ {a[2] : a \in {b \in Instr.args : b[1] = previous}} \subseteq computed \cup {Constant}
<1>1. FuncTypes /\ instrs[current] \in Seq(Instrs) /\ stage = "run" /\ index \in DOMAIN instrs[current] /\ current \in Blocks
  BY DEF FuncInv, FuncTypes, AtInstr
<1>2. Instr \in Instrs
  BY <1>1 DEF Instr
<1>3. RunInv /\ phase # "edit"
  BY <1>1 DEF FuncInv
<1>4. CheckBlock(current)
  BY <1>3, ReachedIsPresent DEF RunInv, Accepted
<1>5. CheckPhiInstr(current, Instr) /\ (current = Entry => Parents(current) = {})
  BY <1>1, <1>4 DEF CheckBlock, BlockIsRight, Instr
<1>6. current # Entry
  <2> SUFFICES ASSUME current = Entry PROVE FALSE
    OBVIOUS
  <2>1. Cardinality({}) >= 2
    BY <1>5 DEF CheckPhiInstr
  <2> QED
    BY <2>1, FS_EmptySet
<1>7. previous # NoBlock /\ previous \in Parents(current)
  BY <1>1, <1>3, <1>6 DEF RunInv, FuncTypes, Parents
<1>8. PICK a \in Instr.args : a[1] = previous
  BY <1>5, <1>7 DEF CheckPhiInstr
<1>9. ASSUME NEW b \in Instr.args, b[1] = previous, b[2] # Constant PROVE b[2] \in computed
  <2>1. b[2] \in Values
    BY <1>2, <1>9 DEF Instrs, Operands
  <2>2. <<current, index>> \in Places /\ InstrAt(<<current, index>>) = Instr
    BY <1>1 DEF Places, InstrAt, Instr
  <2> DEFINE u == <<b[1], Len(instrs[b[1]]) + 1>>
  <2>3. u \in UsesOf(b[2])
    <3>1. b \in {c \in InstrAt(<<current, index>>).args : c[2] = b[2]}
      BY <2>2
    <3> QED
      BY <2>2, <3>1 DEF UsesOf
  <2>4. u[1] = previous
    BY <1>9
  <2> QED
    BY <1>1, <1>7, <2>1, <2>3, <2>4, UsedIsPassed
<1> QED
  BY <1>8, <1>9

-----------------------------------------------------------------------------
(* What the steps leave as it is.                                          *)
LEMMA GraphKept ==
  ASSUME children' = children
  PROVE  /\ Reached' = Reached
         /\ \A d : ReachedWithout(d)' = ReachedWithout(d)
         /\ \A d, b : StrictlyDominates(d, b)' <=> StrictlyDominates(d, b)
         /\ \A b : Parents(b)' = Parents(b)
BY DEF Reached, ReachedWithout, StrictlyDominates, Parents

LEMMA ProgramKept ==
  ASSUME UNCHANGED <<program, tree>>
  PROVE  /\ Places' = Places /\ \A p : InstrAt(p)' = InstrAt(p)
         /\ \A v : DefinitionsOf(v)' = DefinitionsOf(v) /\ UsesOf(v)' = UsesOf(v)
         /\ (Accepted <=> Accepted')
<1>1. UNCHANGED <<children, terminator, instrs, phase, dominators>>
  BY DEF program, tree
<1>2. Places' = Places /\ \A p : InstrAt(p)' = InstrAt(p)
  BY <1>1 DEF Places, InstrAt
<1>3. \A v : DefinitionsOf(v)' = DefinitionsOf(v)
  BY <1>1 DEF Places, InstrAt, DefinitionsOf
<1>4. \A v : UsesOf(v)' = UsesOf(v)
  BY <1>1 DEF Places, InstrAt, UsesOf
<1>5. Present' = Present /\ \A b : CheckBlock(b)' <=> CheckBlock(b)
  BY <1>1 DEF Present, CheckBlock, BlockIsRight, CheckPhiInstr, Parents
<1>6. \A d, u : CheckDefinitionDominatesUse(d, u)' <=> CheckDefinitionDominatesUse(d, u)
  BY <1>1 DEF CheckDefinitionDominatesUse, DominatorsOf
<1>7. CheckValuesInFunc' <=> CheckValuesInFunc
  BY <1>3, <1>4, <1>6 DEF CheckValuesInFunc
<1>8. NeedsDominators' <=> NeedsDominators
  BY <1>3, <1>4 DEF NeedsDominators
<1> QED
  BY <1>1, <1>2, <1>3, <1>4, <1>5, <1>7, <1>8 DEF Accepted

LEMMA TreeKept ==
  ASSUME TreeInv, UNCHANGED children, UNCHANGED tree
  PROVE  TreeInv'
<1>1. UNCHANGED <<children, phase, stack, order, parent, sdom, bucket, idom, next, depthFirst, dominators>>
  BY DEF tree, context
<1>2. Reached' = Reached /\ \A d, b : StrictlyDominates(d, b)' <=> StrictlyDominates(d, b)
  BY <1>1, GraphKept
<1>3. DominatorsAreRight'
  <2> DEFINE Right(id) == \A b \in Blocks : IF b \in Reached \ {Entry} THEN IsImmediateDominator(id[b], b)
                                            ELSE id[b] = NoBlock
  <2>1. ASSUME NEW id PROVE Right(id)' <=> Right(id)
    BY <1>1, <1>2 DEF IsImmediateDominator, StrictlyDominates, ReachedWithout
  <2>2. ASSUME phase = "ok", depthFirst PROVE Right(dominators)'
    <3>1. Right(dominators)
      BY <2>2 DEF TreeInv, DominatorsAreRight
    <3> QED
      BY <1>1, <2>1, <3>1
  <2> QED
    BY <1>1, <2>2 DEF DominatorsAreRight
<1>4. ThrowsForUnreachedParent'
  BY <1>1, <1>2 DEF TreeInv, ThrowsForUnreachedParent
<1>5. TypeOK' /\ (\A b \in Blocks : sdom'[b] >= -1) /\ (phase' = "edit" => NoContext')
  BY <1>1 DEF TreeInv, TypeOK, NoContext
<1>6. phase' = "search" => SearchInv(children, order, parent, stack)' /\ NothingFound' /\ Numbered'
  BY <1>1 DEF TreeInv, NothingFound, Numbered
<1>7. phase' = "implicit" => SearchedInv' /\ (depthFirst' => FoundInv')
  BY <1>1 DEF TreeInv, SearchedInv, FoundInv
<1>8. phase' = "explicit" => Searched(children, order, parent)' /\ (next >= 2)' /\ (depthFirst' => DecidedInv')
  BY <1>1 DEF TreeInv, DecidedInv
<1> QED
  BY <1>3, <1>4, <1>5, <1>6, <1>7, <1>8 DEF TreeInv

LEMMA NamedKept ==
  ASSUME UNCHANGED <<children, terminator>>
  PROVE  Present' = Present /\ Named' = Named
BY DEF Present, Named

-----------------------------------------------------------------------------
LEMMA ParseBlocksKeeps ==
  ASSUME FuncInv, ParseBlocks
  PROVE  FuncInv'
<1>1. stage = "parse" /\ phase = "edit" /\ UNCHANGED <<instrs, tree, stage, execution>>
  BY DEF ParseBlocks, ParseBlock
<1>2. UNCHANGED <<phase, stack, order, parent, sdom, bucket, idom, next, depthFirst, dominators,
                  stage, current, previous, index, computed, instrs>>
  BY <1>1 DEF tree, context, execution
<1>0. PICK kind \in Terminators \ {"absent"} : \E targets \in Targets(kind) : ParseBlock(kind, targets)
  BY DEF ParseBlocks
<1>3. PICK targets \in Targets(kind) : ParseBlock(kind, targets)
  BY <1>0
<1>4. targets \in SUBSET Blocks
  BY <1>3 DEF Targets
<1>5. TypeOK /\ FuncTypes /\ NoContext /\ \A b \in Blocks : sdom[b] >= -1
  BY <1>1 DEF FuncInv, TreeInv
<1>6. children' \in [Blocks -> SUBSET Blocks] /\ terminator' \in [Blocks -> Terminators]
  BY <1>3, <1>4, <1>5 DEF ParseBlock, TypeOK, FuncTypes
<1>7. TypeOK' /\ FuncTypes' /\ NoContext' /\ \A b \in Blocks : sdom'[b] >= -1
  BY <1>2, <1>5, <1>6 DEF TypeOK, FuncTypes, NoContext
<1>8. TreeInv'
  BY <1>1, <1>2, <1>7 DEF TreeInv, DominatorsAreRight, ThrowsForUnreachedParent
<1> QED
  BY <1>1, <1>2, <1>7, <1>8 DEF FuncInv, AcceptedFuncRunsIfDepthFirst, AcceptedFuncRuns

LEMMA InstrTypes ==
  ASSUME NEW b \in Blocks, NEW v \in Operands
  PROVE  /\ \A o \in Operands : Mov(v, {o}) \in Instrs
         /\ \A args \in PhiArgs(b) : Phi(v, args) \in Instrs
<1>1. ASSUME NEW args \in PhiArgs(b) PROVE args \subseteq Blocks \X Operands
  <2>0. PICK origins \in {Parents(b)} \cup {Parents(b) \ {p} : p \in Parents(b)} :
          args \in {{<<o, f[o]>> : o \in origins} : f \in [origins -> Operands]}
    BY DEF PhiArgs
  <2>1. PICK f \in [origins -> Operands] : args = {<<o, f[o]>> : o \in origins}
    BY <2>0
  <2>2. origins \subseteq Blocks
    BY DEF Parents
  <2> QED
    BY <2>1, <2>2
<1>2. \A o \in Operands : Mov(v, {o}) \in Instrs
  BY DEF Mov, Instrs
<1>3. \A args \in PhiArgs(b) : Phi(v, args) \in Instrs
  BY <1>1 DEF Phi, Instrs
<1> QED
  BY <1>2, <1>3

LEMMA ParseInstrsKeeps ==
  ASSUME FuncInv, ParseInstrs
  PROVE  FuncInv'
<1>1. stage = "parse" /\ phase \in {"ok", "threw"}
  BY DEF ParseInstrs, RoomForInstr
<1>2. PICK b \in Blocks, instr \in Instrs : ParseInstr(b, instr)
  <2>1. PICK b \in Present, v \in Operands :
          \/ \E o \in Operands : ParseInstr(b, Mov(v, {o}))
          \/ \E args \in PhiArgs(b) : ParseInstr(b, Phi(v, args))
    BY DEF ParseInstrs
  <2>2. b \in Blocks
    BY DEF Present
  <2> QED
    BY <2>1, <2>2, InstrTypes
<1>3. UNCHANGED <<children, terminator, tree, stage, execution>> /\ instrs' = [instrs EXCEPT ![b] = Append(@, instr)]
  BY <1>2 DEF ParseInstr
<1>4. UNCHANGED <<phase, depthFirst, children, terminator, stage, current, previous, index, computed>>
  BY <1>3 DEF tree, execution
<1>5. FuncTypes /\ current = Entry /\ index = 1
  BY <1>1 DEF FuncInv
<1>6. instrs' \in [Blocks -> Seq(Instrs)]
  BY <1>3, <1>5 DEF FuncTypes
<1>7. index' \in 1..(Len(instrs'[current']) + 1)
  <2>1. instrs'[current'] \in Seq(Instrs)
    BY <1>4, <1>5, <1>6 DEF FuncTypes
  <2>2. Len(instrs'[current']) \in Nat
    BY <2>1
  <2> QED
    BY <1>4, <1>5, <2>2
<1>8. FuncTypes'
  BY <1>4, <1>5, <1>6, <1>7 DEF FuncTypes
<1>9. TreeInv'
  BY <1>3, <1>4, TreeKept DEF FuncInv
<1>10. phase' # "edit" => Present' = Named'
  BY <1>4, NamedKept DEF FuncInv
<1> QED
  BY <1>1, <1>4, <1>8, <1>9, <1>10 DEF FuncInv, AcceptedFuncRunsIfDepthFirst, AcceptedFuncRuns

LEMMA UpdateTreeKeeps ==
  ASSUME FuncInv, UpdateTree
  PROVE  FuncInv'
<1>1. stage = "parse" /\ Present = Named /\ Next /\ UNCHANGED <<terminator, instrs, stage, current, previous, index, computed>>
  BY DEF UpdateTree, OtherVars, execution
<1>2. children' = children
  BY <1>1 DEF Next, UpdateDominatorTree, Visit, SearchEnds, FindImplicitIDom, ImplicitEnds, FindExplicitIDom, SetDominators
<1>3. TreeInv'
  BY <1>1, TreeStep DEF FuncInv
<1>4. FuncTypes'
  BY <1>1 DEF FuncInv, FuncTypes
<1>5. Present' = Named'
  BY <1>1, <1>2, NamedKept
<1> QED
  BY <1>1, <1>3, <1>4, <1>5 DEF FuncInv, AcceptedFuncRunsIfDepthFirst, AcceptedFuncRuns

LEMMA CheckFuncKeeps ==
  ASSUME FuncInv, CheckFunc
  PROVE  FuncInv'
<1>1. /\ stage = "parse" /\ phase \in {"ok", "threw"}
      /\ stage' = IF phase = "threw" /\ NeedsDominators THEN "crashed"
                  ELSE IF CheckValuesInFunc /\ \A b \in Present : CheckBlock(b) THEN "run"
                  ELSE "rejected"
      /\ UNCHANGED <<program, tree, execution>>
  BY DEF CheckFunc
<1>2. UNCHANGED <<children, terminator, instrs, phase, depthFirst, current, previous, index, computed>>
  BY <1>1 DEF program, tree, execution
<1>3. current = Entry /\ previous = NoBlock /\ index = 1 /\ computed = {} /\ FuncTypes
  BY <1>1 DEF FuncInv
<1>4. TreeInv'
  BY <1>1, <1>2, TreeKept DEF FuncInv
<1>5. FuncTypes' /\ stage' \in {"crashed", "run", "rejected"}
  BY <1>1, <1>2, <1>3 DEF FuncTypes, Stages
<1>6. phase' # "edit" => Present' = Named'
  BY <1>2, NamedKept DEF FuncInv
<1>7. ASSUME stage' = "run" PROVE RunInv'
  <2>1. Accepted'
    BY <1>1, <1>7, ProgramKept DEF Accepted
  <2>2. current' \in Reached'
    BY <1>1, <1>2, <1>3, GraphKept, ReachedIsPresent
  <2>3. \A v \in Values : \A d \in DefinitionsOf(v)' : ~Passed(d)'
    <3> SUFFICES ASSUME NEW v \in Values, NEW d \in DefinitionsOf(v)' PROVE ~Passed(d)'
      OBVIOUS
    <3>1. d \in Places
      BY <1>1, ProgramKept DEF DefinitionsOf
    <3>2. PICK b \in Blocks : \E i \in DOMAIN instrs[b] : d = <<b, i>>
      BY <3>1 DEF Places
    <3>3. PICK i \in DOMAIN instrs[b] : d = <<b, i>>
      BY <3>2
    <3>4. instrs[b] \in Seq(Instrs)
      BY <1>3 DEF FuncTypes
    <3>5. i \in 1..Len(instrs[b]) /\ Len(instrs[b]) \in Nat
      BY <3>4
    <3>6. ~(d[2] < index')
      BY <1>2, <1>3, <3>3, <3>5
    <3> QED
      BY <1>2, <1>3, <3>6 DEF Passed
  <2> QED
    BY <1>2, <1>3, <2>1, <2>2, <2>3 DEF RunInv
<1> QED
  BY <1>1, <1>2, <1>4, <1>5, <1>6, <1>7 DEF FuncInv, AcceptedFuncRunsIfDepthFirst, AcceptedFuncRuns

(* The interpreter.                                                        *)
LEMMA ComputeKeeps ==
  ASSUME FuncInv, AtInstr, NEW operands, Compute(operands),
         depthFirst => operands \subseteq computed \cup {Constant}
  PROVE  FuncInv'
<1>1. stage = "run" /\ index \in DOMAIN instrs[current] /\ RunInv /\ FuncTypes
  BY DEF AtInstr, FuncInv
<1>2. UNCHANGED <<program, tree, current, previous, children, terminator, instrs, phase, depthFirst>>
  BY DEF Compute, program, tree
<1>3. TreeInv' /\ (phase' # "edit" => Present' = Named')
  BY <1>2, TreeKept, NamedKept DEF FuncInv
<1>4. index \in 1..Len(instrs[current]) /\ Len(instrs[current]) \in Nat
  <2>1. instrs[current] \in Seq(Instrs)
    BY <1>1 DEF FuncTypes
  <2> QED
    BY <1>1, <2>1
<1>5. CASE operands \subseteq computed \cup {Constant}
  <2>1. computed' = computed \cup ({Instr.result} \cap Values) /\ index' = index + 1 /\ stage' = stage
    BY <1>5 DEF Compute
  <2>2. FuncTypes'
    BY <1>1, <1>2, <1>4, <2>1 DEF FuncTypes
  <2>3. Accepted' /\ current' \in Reached'
    BY <1>1, <1>2, ProgramKept, GraphKept DEF RunInv
  <2>4. ASSUME NEW v \in Values, NEW d \in DefinitionsOf(v)', Passed(d)'
        PROVE  v \in computed'
    <3>1. d \in DefinitionsOf(v) /\ d \in Places
      BY <1>2, <2>4, ProgramKept DEF DefinitionsOf
    <3>2. PICK b \in Blocks : \E i \in DOMAIN instrs[b] : d = <<b, i>>
      BY <3>1 DEF Places
    <3>3. PICK i \in DOMAIN instrs[b] : d = <<b, i>>
      BY <3>2
    <3>4. i \in Nat
      <4>1. instrs[b] \in Seq(Instrs)
        BY <1>1 DEF FuncTypes
      <4> QED
        BY <4>1
    <3>5. CASE d[1] = current /\ d[2] = index
      <4>1. Instr.result = v
        BY <3>1, <3>3, <3>5 DEF DefinitionsOf, InstrAt, Instr
      <4> QED
        BY <2>1, <4>1
    <3>6. CASE ~(d[1] = current /\ d[2] = index)
      <4>1. Passed(d)
        <5>1. CASE d[1] = current /\ d[2] < index + 1
          BY <1>4, <3>3, <3>4, <3>6, <5>1 DEF Passed
        <5>2. CASE previous # NoBlock /\ (d[1] = previous \/ StrictlyDominates(d[1], previous))
          BY <5>2 DEF Passed
        <5> QED
          BY <1>2, <2>1, <2>4, <5>1, <5>2, GraphKept DEF Passed
      <4>2. v \in computed
        BY <1>1, <3>1, <4>1 DEF RunInv
      <4> QED
        BY <2>1, <4>2
    <3> QED
      BY <3>5, <3>6
  <2>5. RunInv'
    BY <1>1, <1>2, <2>3, <2>4, GraphKept DEF RunInv
  <2> QED
    BY <1>1, <1>2, <1>3, <2>1, <2>2, <2>5 DEF FuncInv, AcceptedFuncRunsIfDepthFirst, AcceptedFuncRuns
<1>6. CASE ~(operands \subseteq computed \cup {Constant})
  <2>1. stage' = "failed" /\ UNCHANGED <<computed, index>> /\ ~depthFirst
    BY <1>6 DEF Compute
  <2>2. FuncTypes'
    BY <1>1, <1>2, <2>1 DEF FuncTypes, Stages
  <2> QED
    BY <1>1, <1>2, <1>3, <2>1, <2>2 DEF FuncInv, AcceptedFuncRunsIfDepthFirst
<1> QED
  BY <1>5, <1>6

(* A step after which the interpreter has stopped.                          *)
LEMMA StopKeeps ==
  ASSUME FuncInv, stage = "run", UNCHANGED <<program, tree, execution>>,
         stage' \in {"returned", "failed"}, depthFirst => stage' = "returned"
  PROVE  FuncInv'
<1>1. UNCHANGED <<children, terminator, instrs, phase, depthFirst, current, previous, index, computed>>
  BY DEF program, tree, execution
<1>2. TreeInv' /\ (phase' # "edit" => Present' = Named')
  BY <1>1, TreeKept, NamedKept DEF FuncInv
<1>3. FuncTypes'
  BY <1>1 DEF FuncInv, FuncTypes, Stages
<1> QED
  BY <1>1, <1>2, <1>3 DEF FuncInv, AcceptedFuncRunsIfDepthFirst, AcceptedFuncRuns

LEMMA PhiKeeps ==
  ASSUME FuncInv, ExecutePhiInstr
  PROVE  FuncInv'
<1> DEFINE inherited == {a[2] : a \in {b \in Instr.args : b[1] = previous}}
<1>1. /\ AtInstr /\ Instr.kind = "phi" /\ stage = "run"
      /\ IF inherited # {} THEN \E o \in inherited : Compute({o})
         ELSE stage' = "failed" /\ UNCHANGED <<program, tree, execution>>
  BY DEF ExecutePhiInstr, AtInstr
<1>2. depthFirst => inherited # {} /\ inherited \subseteq computed \cup {Constant}
  BY <1>1, PhiFindsItsOperand
<1> HIDE DEF inherited
<1>3. CASE inherited # {}
  <2>1. PICK o \in inherited : Compute({o})
    BY <1>1, <1>3
  <2>2. depthFirst => {o} \subseteq computed \cup {Constant}
    BY <1>2
  <2> QED
    BY <1>1, <2>1, <2>2, ComputeKeeps
<1>4. CASE inherited = {}
  BY <1>1, <1>2, <1>4, StopKeeps
<1> QED
  BY <1>3, <1>4

(* Where a jump leads, what was passed is what was passed before it: the    *)
(* block that is left was executed to its end, and what dominates it was    *)
(* passed when it was entered.                                             *)
LEMMA JumpKeeps ==
  ASSUME FuncInv, NEW b \in Blocks, ExecuteJumpInstr(b)
  PROVE  FuncInv'
<1>1. /\ stage = "run" /\ index = Len(instrs[current]) + 1 /\ b \in children[current]
      /\ previous' = current /\ current' = b /\ index' = 1
      /\ UNCHANGED <<program, tree, stage, computed, children, terminator, instrs, phase, depthFirst>>
  BY DEF ExecuteJumpInstr, AtTerminator, program, tree
<1>2. RunInv /\ FuncTypes /\ Graph(children) /\ phase # "edit" /\ current \in Blocks
  BY <1>1 DEF FuncInv, FuncTypes, TreeInv, TypeOK, Graph
<1>3. TreeInv' /\ (phase' # "edit" => Present' = Named')
  BY <1>1, TreeKept, NamedKept DEF FuncInv
<1>4. current # NoBlock /\ b # NoBlock
  BY <1>2, BlocksAssumption
<1>5. b \in Reached
  <2>1. Leads(children, NoBlock, current)
    BY <1>2, ReachedIsLeads DEF RunInv, Reached
  <2>2. Leads(children, NoBlock, b)
    BY <1>1, <1>2, <1>4, <2>1, LeadsToChild
  <2> QED
    BY <1>2, <2>2, ReachedIsLeads DEF Reached
<1>6. FuncTypes'
  <2>1. instrs[b] \in Seq(Instrs)
    BY <1>2 DEF FuncTypes
  <2>2. Len(instrs[b]) \in Nat
    BY <2>1
  <2>3. index' \in 1..(Len(instrs'[current']) + 1)
    BY <1>1, <2>2
  <2> QED
    BY <1>1, <1>2, <2>3 DEF FuncTypes
<1>7. Accepted'
  BY <1>1, <1>2, ProgramKept DEF RunInv
<1>8. ASSUME NEW v \in Values, NEW d \in DefinitionsOf(v)', Passed(d)'
      PROVE  v \in computed'
  <2>1. d \in DefinitionsOf(v) /\ d \in Places
    BY <1>1, <1>8, ProgramKept DEF DefinitionsOf
  <2>2. PICK c \in Blocks : \E i \in DOMAIN instrs[c] : d = <<c, i>>
    BY <2>1 DEF Places
  <2>3. PICK i \in DOMAIN instrs[c] : d = <<c, i>>
    BY <2>2
  <2>4. i \in 1..Len(instrs[c]) /\ Len(instrs[c]) \in Nat
    <3>1. instrs[c] \in Seq(Instrs)
      BY <1>2 DEF FuncTypes
    <3> QED
      BY <3>1
  <2>5. d[1] = current \/ StrictlyDominates(d[1], current)
    BY <1>1, <1>8, <2>3, <2>4, GraphKept DEF Passed
  <2>6. Passed(d)
    <3>1. CASE d[1] = current
      BY <1>1, <2>3, <2>4, <3>1 DEF Passed
    <3>2. CASE StrictlyDominates(d[1], current)
      <4>1. d[1] \in Blocks
        BY <2>3
      <4>2. current # Entry /\ previous # NoBlock
        BY <1>2, <3>2, <4>1, NothingDominatesEntry DEF RunInv
      <4>3. previous \in Blocks /\ current \in children[previous]
        BY <1>2, <4>2 DEF RunInv, FuncTypes
      <4>4. d[1] = previous \/ StrictlyDominates(d[1], previous)
        BY <1>2, <3>2, <4>1, <4>3, DominatesParent
      <4> QED
        BY <4>2, <4>4 DEF Passed
    <3> QED
      BY <2>5, <3>1, <3>2
  <2> QED
    BY <1>1, <1>2, <2>1, <2>6 DEF RunInv
<1>9. RunInv'
  <2>1. current' \in Reached' /\ previous' \in Reached' /\ previous' # NoBlock /\ current' \in children'[previous']
    BY <1>1, <1>2, <1>4, <1>5, GraphKept DEF RunInv
  <2> QED
    BY <1>7, <1>8, <2>1 DEF RunInv
<1> QED
  BY <1>1, <1>2, <1>3, <1>6, <1>9 DEF FuncInv, AcceptedFuncRunsIfDepthFirst, AcceptedFuncRuns

LEMMA InterpretKeeps ==
  ASSUME FuncInv, Interpret
  PROVE  FuncInv'
<1>1. CASE ExecuteMovInstr
  <2>1. AtInstr /\ Compute(Instr.uses)
    BY <1>1 DEF ExecuteMovInstr
  <2> QED
    BY <2>1, MovFindsItsOperands, ComputeKeeps
<1>2. CASE ExecutePhiInstr
  BY <1>2, PhiKeeps
<1>3. CASE \E b \in Blocks : ExecuteJumpInstr(b)
  BY <1>3, JumpKeeps
<1>4. CASE ExecuteFuncExit
  <2>1. /\ stage = "run" /\ UNCHANGED <<program, tree, execution>>
        /\ stage' = IF terminator[current] = "return" THEN "returned" ELSE "failed"
        /\ terminator[current] \in {"return", "none"}
    BY <1>4 DEF ExecuteFuncExit, AtTerminator
  <2>2. RunInv /\ phase # "edit"
    BY <2>1 DEF FuncInv
  <2>3. terminator[current] # "none"
    BY <2>2, ReachedIsPresent DEF RunInv, Accepted, CheckBlock, BlockIsRight
  <2> QED
    BY <2>1, <2>3, StopKeeps
<1> QED
  BY <1>1, <1>2, <1>3, <1>4 DEF Interpret

LEMMA FuncStepKeeps ==
  ASSUME FuncInv, [FuncNext]_funcVars
  PROVE  FuncInv'
<1>1. CASE UNCHANGED funcVars
  <2>1. UNCHANGED <<program, tree, children, terminator, instrs, phase, depthFirst, stage, current, previous, index, computed>>
    BY <1>1 DEF funcVars, program, tree, execution
  <2>2. TreeInv' /\ (phase' # "edit" => Present' = Named')
    BY <2>1, TreeKept, NamedKept DEF FuncInv
  <2>3. FuncTypes'
    BY <2>1 DEF FuncInv, FuncTypes
  <2>4. \A d : Passed(d)' <=> Passed(d)
    BY <2>1, GraphKept DEF Passed
  <2>5. RunInv => RunInv'
    BY <2>1, <2>4, ProgramKept, GraphKept DEF RunInv
  <2> QED
    BY <2>1, <2>2, <2>3, <2>5 DEF FuncInv, AcceptedFuncRunsIfDepthFirst, AcceptedFuncRuns
<1>2. CASE FuncNext
  BY <1>2, ParseBlocksKeeps, ParseInstrsKeeps, UpdateTreeKeeps, CheckFuncKeeps, InterpretKeeps DEF FuncNext
<1> QED
  BY <1>1, <1>2

-----------------------------------------------------------------------------
(* The inductive invariant holds of every function.                         *)
THEOREM FuncAlwaysRight == FuncSpec => []FuncInv
<1>1. FuncInit => FuncInv
  BY FuncInitRight
<1>2. FuncInv /\ [FuncNext]_funcVars => FuncInv'
  BY FuncStepKeeps
<1> QED
  BY <1>1, <1>2, PTL DEF FuncSpec

(* Every variable has its type.                                             *)
THEOREM FuncTypesAreRight == FuncSpec => []FuncTypeOK
<1>1. FuncInv => FuncTypeOK
  BY FuncTypesOK
<1> QED
  BY <1>1, FuncAlwaysRight, PTL

(* Func::UpdateDominatorTree: whatever the control-flow graph and the order *)
(* in which children are pushed, if the tree FindDFSTree built is one of a  *)
(* depth-first search, then DominatorOf answers with the immediate          *)
(* dominator of every block the entry reaches, and with none for the others. *)
THEOREM DominatorTreeIsRight == FuncSpec => []DominatorsAreRight
<1>1. FuncInv => DominatorsAreRight
  BY DEF FuncInv, TreeInv
<1> QED
  BY <1>1, FuncAlwaysRight, PTL

(* Func::UpdateDominatorTree throws, after a depth-first search, only if an *)
(* edge leads from a block that is not reached to one that is.              *)
THEOREM TreeThrowsForUnreachedParent == FuncSpec => []ThrowsForUnreachedParent
<1>1. FuncInv => ThrowsForUnreachedParent
  BY DEF FuncInv, TreeInv
<1> QED
  BY <1>1, FuncAlwaysRight, PTL

(* A function the checker has no issue with is interpreted without failure: *)
(* each operand was computed, each phi has a value for the block before,    *)
(* each block that is executed ends with a control flow instruction.        *)
THEOREM CheckerIsSound == FuncSpec => []AcceptedFuncRunsIfDepthFirst
<1>1. FuncInv => AcceptedFuncRunsIfDepthFirst
  BY DEF FuncInv
<1> QED
  BY <1>1, FuncAlwaysRight, PTL
=============================================================================
