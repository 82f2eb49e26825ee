---------------------- MODULE RegisterAllocationProofs ----------------------
(***************************************************************************)
(* Live ranges, interference graph, coloring and phi resolution, for every *)
(* function the checker accepts: the worklist ends with the liveness by    *)
(* paths, and the allocated function reads what the function reads, in     *)
(* all functions that have none of the five shapes.                        *)
(***************************************************************************)
EXTENDS RegisterAllocation, FiniteSetTheorems, SequenceTheorems, WellFoundedInduction, TLAPS

Less == OpToRel(<, Nat)

LEMMA SmallestElement ==
  ASSUME NEW T \in SUBSET Nat, T # {}
  PROVE  \E x \in T : \A y \in T : x <= y
<1>1. IsWellFoundedOn(Less, Nat)
  BY NatLessThanWellFounded, Zenon DEF OpToRel, Less
<1>2. PICK x \in T : \A y \in T : ~(<<y, x>> \in Less)
  BY <1>1, WFMin, Zenon
<1>3. ASSUME NEW y \in T PROVE x <= y
  <2>1. SUFFICES ASSUME y < x PROVE FALSE
    OBVIOUS
  <2>2. <<y, x>> \in Nat \X Nat /\ <<y, x>>[1] < <<y, x>>[2]
    BY <2>1
  <2>3. <<y, x>> \in Less
    BY <2>2, Zenon DEF Less, OpToRel
  <2> QED
    BY <1>2, <2>3
<1> QED
  BY <1>3

(* A function that is defined by its values before: x, step[x], ...         *)
Iterates(f, x, step, n) ==
  /\ f[0] = x
  /\ \A i \in 1..n : f[i] = step[f[i - 1]]

LEMMA Iteration ==
  ASSUME NEW D, NEW x \in D, NEW step \in [D -> D], NEW n \in Nat
  PROVE  \E f \in [0..n -> D] : Iterates(f, x, step, n)
<1> DEFINE P(k) == \E f \in [0..k -> D] : Iterates(f, x, step, k)
           Bad == {k \in Nat : ~P(k)}
<1> SUFFICES ASSUME Bad # {} PROVE FALSE
  OBVIOUS
<1>1. PICK k \in Bad : \A l \in Bad : k <= l
  BY SmallestElement
<1>2. CASE k = 0
  <2>1. [i \in 0..0 |-> x] \in [0..0 -> D] /\ Iterates([i \in 0..0 |-> x], x, step, 0)
    BY DEF Iterates
  <2> QED
    BY <1>1, <1>2, <2>1
<1>3. CASE k # 0
  <2>1. k - 1 \in Nat /\ k - 1 \notin Bad /\ k \in Nat
    BY <1>1, <1>3
  <2>2. PICK f \in [0..(k - 1) -> D] : Iterates(f, x, step, k - 1)
    BY <2>1
  <2> DEFINE g == [i \in 0..k |-> IF i = k THEN step[f[k - 1]] ELSE f[i]]
  <2>3. g \in [0..k -> D]
    BY <2>1, <2>2
  <2>4. Iterates(g, x, step, k)
    <3>1. g[0] = x
      BY <1>3, <2>1, <2>2 DEF Iterates
    <3>2. ASSUME NEW i \in 1..k
          PROVE  g[i] = step[g[i - 1]]
      BY <1>3, <2>1, <2>2 DEF Iterates
    <3> QED
      BY <3>1, <3>2 DEF Iterates
  <2> QED
    BY <1>1, <2>3, <2>4
<1> QED
  BY <1>2, <1>3

LEMMA IteratesThroughout ==
  ASSUME NEW D, NEW x \in D, NEW step \in [D -> D], NEW n \in Nat, NEW g, g[0] = x,
         \A i \in 1..n : g[i - 1] \in D => g[i] = step[g[i - 1]]
  PROVE  (\A i \in 0..n : g[i] \in D) /\ Iterates(g, x, step, n)
<1>1. \A i \in 0..n : g[i] \in D
  <2> DEFINE Bad == {i \in Nat : i <= n /\ g[i] \notin D}
  <2> SUFFICES ASSUME Bad # {} PROVE FALSE
    OBVIOUS
  <2>1. PICK k \in Bad : \A l \in Bad : k <= l
    BY SmallestElement
  <2>2. k # 0
    BY <2>1
  <2>3. k - 1 \in Nat /\ k - 1 <= n /\ k - 1 \notin Bad /\ k \in 1..n
    BY <2>1, <2>2
  <2>4. g[k - 1] \in D
    BY <2>3
  <2> QED
    BY <2>1, <2>3, <2>4
<1>2. \A i \in 1..n : g[i] = step[g[i - 1]]
  BY <1>1
<1> QED
  BY <1>1, <1>2 DEF Iterates

LEMMA IteratesIn ==
  ASSUME NEW x, NEW step, NEW n \in Nat, NEW f, Iterates(f, x, step, n),
         NEW T, x \in T, \A y \in T : step[y] \in T
  PROVE  \A i \in 0..n : f[i] \in T
<1> DEFINE Bad == {i \in Nat : i <= n /\ f[i] \notin T}
<1> SUFFICES ASSUME Bad # {} PROVE FALSE
  OBVIOUS
<1>1. PICK k \in Bad : \A l \in Bad : k <= l
  BY SmallestElement
<1>2. k # 0
  BY <1>1 DEF Iterates
<1>3. k - 1 \in Nat /\ k - 1 <= n /\ k - 1 \notin Bad /\ k \in 1..n
  BY <1>1, <1>2
<1> QED
  BY <1>1, <1>3 DEF Iterates

-----------------------------------------------------------------------------
(* ReachedAround is the least set that holds b and the children of each of  *)
(* its blocks that is no stop.                                             *)
Grow(f, stops) == [S \in SUBSET Blocks(f) |-> S \cup (UNION {Children(f, c) : c \in S \ stops})]

LEMMA SeqFacts ==
  ASSUME NEW s, IsSeq(s)
  PROVE  Len(s) \in Nat /\ DOMAIN s = 1..Len(s) /\ s \in Seq(ToSet(s)) /\ \A i \in 1..Len(s) : s[i] \in ToSet(s)
  BY DEF IsSeq, ToSet

LEMMA ToSetIs ==
  ASSUME NEW s, NEW v
  PROVE  v \in ToSet(s) <=> \E i \in DOMAIN s : s[i] = v
  BY DEF ToSet

LEMMA BlocksAre ==
  ASSUME NEW f, IsFunc(f)
  PROVE  /\ Blocks(f) = 1..Len(f.blocks) /\ Len(f.blocks) \in Nat /\ 1 \in Blocks(f)
         /\ IsFiniteSet(Blocks(f)) /\ Cardinality(Blocks(f)) = Len(f.blocks)
<1>1. IsSeq(f.blocks) /\ f.blocks # <<>>
  BY DEF IsFunc
<1>2. Len(f.blocks) \in Nat /\ DOMAIN f.blocks = 1..Len(f.blocks)
  BY <1>1, SeqFacts
<1>3. Len(f.blocks) # 0
  BY <1>1 DEF IsSeq
<1>4. IsFiniteSet(1..Len(f.blocks)) /\ Cardinality(1..Len(f.blocks)) = Len(f.blocks)
  BY <1>2, <1>3, FS_Interval
<1> QED
  BY <1>2, <1>3, <1>4 DEF Blocks

(* The instructions of a block.                                            *)
LEMMA InstrsAre ==
  ASSUME NEW f, IsFunc(f), NEW b \in Blocks(f)
  PROVE  /\ IsSeq(f.blocks[b]) /\ Len(f.blocks[b]) \in Nat \ {0}
         /\ DOMAIN f.blocks[b] = 1..Len(f.blocks[b])
         /\ \A i \in 1..Len(f.blocks[b]) : IsInstr(f, b, i)
         /\ LastInstr(f, b) = f.blocks[b][Len(f.blocks[b])]
         /\ Children(f, b) \subseteq Blocks(f)
<1>1. IsBlock(f, b)
  BY DEF IsFunc
<1>2. IsSeq(f.blocks[b]) /\ f.blocks[b] # <<>> /\ \A i \in DOMAIN f.blocks[b] : IsInstr(f, b, i)
  BY <1>1 DEF IsBlock
<1>3. Len(f.blocks[b]) \in Nat \ {0}
  BY <1>2 DEF IsSeq
<1>4. DOMAIN f.blocks[b] = 1..Len(f.blocks[b])
  BY <1>2, SeqFacts
<1>5. IsInstr(f, b, Len(f.blocks[b]))
  BY <1>2, <1>3, <1>4
<1>6. LastInstr(f, b).to \subseteq Blocks(f)
  BY <1>3, <1>5 DEF IsInstr, LastInstr
<1> QED
  BY <1>2, <1>3, <1>4, <1>6 DEF LastInstr, Children

LEMMA GrowFinds ==
  ASSUME NEW f, IsFunc(f), NEW stops
  PROVE  /\ Grow(f, stops) \in [SUBSET Blocks(f) -> SUBSET Blocks(f)]
         /\ \A S \in SUBSET Blocks(f) : \A c :
              c \in Grow(f, stops)[S] <=> c \in S \/ \E p \in S \ stops : c \in Children(f, p)
<1>1. ASSUME NEW S \in SUBSET Blocks(f)
      PROVE  (UNION {Children(f, c) : c \in S \ stops}) \in SUBSET Blocks(f)
  BY InstrsAre
<1>2. Grow(f, stops) \in [SUBSET Blocks(f) -> SUBSET Blocks(f)]
  BY <1>1 DEF Grow
<1>3. ASSUME NEW S \in SUBSET Blocks(f), NEW c
      PROVE  c \in Grow(f, stops)[S] <=> c \in S \/ \E p \in S \ stops : c \in Children(f, p)
  <2>1. c \in UNION {Children(f, p) : p \in S \ stops} <=> \E p \in S \ stops : c \in Children(f, p)
    OBVIOUS
  <2> QED
    BY <2>1 DEF Grow
<1> QED
  BY <1>2, <1>3

LEMMA WalkIs ==
  ASSUME NEW f, IsFunc(f), NEW b \in Blocks(f), NEW stops
  PROVE  \E g \in [0..Cardinality(Blocks(f)) -> SUBSET Blocks(f)] :
           /\ Iterates(g, {b}, Grow(f, stops), Cardinality(Blocks(f)))
           /\ ReachedAround(f, b, stops) = g[Cardinality(Blocks(f))]
<1> DEFINE n == Cardinality(Blocks(f))
           B == Blocks(f)
           Is(g) == g = [i \in 0..n |-> IF i = 0 THEN {b}
                          ELSE g[i - 1] \cup (UNION {Children(f, c) : c \in g[i - 1] \ stops})]
           walk == CHOOSE g : Is(g)
<1>1. n \in Nat
  BY BlocksAre
<1>2. Grow(f, stops) \in [SUBSET B -> SUBSET B]
  BY GrowFinds
<1>3. {b} \in SUBSET B
  OBVIOUS
<1> HIDE DEF n
<1>4. PICK g \in [0..n -> SUBSET B] : Iterates(g, {b}, Grow(f, stops), n)
  BY <1>1, <1>2, <1>3, Iteration
<1>5. Is(g)
  <2>1. ASSUME NEW i \in 0..n, i # 0
        PROVE  g[i] = g[i - 1] \cup (UNION {Children(f, c) : c \in g[i - 1] \ stops})
    <3>1. i \in 1..n /\ i - 1 \in 0..n
      BY <1>1, <2>1
    <3>2. g[i] = Grow(f, stops)[g[i - 1]] /\ g[i - 1] \in SUBSET B
      BY <1>4, <3>1 DEF Iterates
    <3> QED
      BY <3>2 DEF Grow
  <2> QED
    BY <1>1, <1>4, <2>1 DEF Iterates
<1>6. Is(walk)
  BY <1>5
<1> HIDE DEF walk
<1>7. \A i \in 1..n : walk[i - 1] \in SUBSET B => walk[i] = Grow(f, stops)[walk[i - 1]]
  <2> SUFFICES ASSUME NEW i \in 1..n, walk[i - 1] \in SUBSET B
               PROVE  walk[i] = Grow(f, stops)[walk[i - 1]]
    OBVIOUS
  <2>1. i # 0 /\ i \in 0..n
    BY <1>1
  <2>2. walk[i] = walk[i - 1] \cup (UNION {Children(f, c) : c \in walk[i - 1] \ stops})
    BY <1>6, <2>1, Zenon
  <2> QED
    BY <2>2 DEF Grow
<1>8. walk[0] = {b} /\ DOMAIN walk = 0..n
  BY <1>1, <1>6
<1>9. (\A i \in 0..n : walk[i] \in SUBSET B) /\ Iterates(walk, {b}, Grow(f, stops), n)
  BY <1>1, <1>2, <1>3, <1>7, <1>8, IteratesThroughout
<1>10. walk = [i \in 0..n |-> walk[i]]
  BY <1>6
<1>11. walk \in [0..n -> SUBSET B]
  BY <1>9, <1>10
<1>12. ReachedAround(f, b, stops) = walk[n]
  BY DEF ReachedAround, walk, n
<1> QED
  BY <1>9, <1>11, <1>12 DEF n

LEMMA WalkSaturates ==
  ASSUME NEW f, IsFunc(f), NEW b \in Blocks(f), NEW stops
  PROVE  /\ Grow(f, stops)[ReachedAround(f, b, stops)] = ReachedAround(f, b, stops)
         /\ ReachedAround(f, b, stops) \in SUBSET Blocks(f)
<1> DEFINE B == Blocks(f)
           n == Cardinality(B)
           step == Grow(f, stops)
<1>1. n \in Nat /\ IsFiniteSet(B)
  BY BlocksAre
<1>2. PICK g \in [0..n -> SUBSET B] : Iterates(g, {b}, step, n) /\ ReachedAround(f, b, stops) = g[n]
  BY WalkIs
<1>3. step \in [SUBSET B -> SUBSET B] /\ \A S \in SUBSET B : S \subseteq step[S]
  BY GrowFinds
<1> HIDE DEF n, step, B
<1> DEFINE Good(i) == Cardinality(g[i]) >= i \/ step[g[i]] = g[i]
           Bad == {i \in Nat : i <= n /\ ~Good(i)}
<1>4. \A i \in 0..n : Good(i)
  <2> SUFFICES ASSUME Bad # {} PROVE FALSE
    BY <1>1
  <2>1. PICK k \in Bad : \A l \in Bad : k <= l
    BY SmallestElement
  <2>2. g[k] \in SUBSET B /\ Cardinality(g[k]) \in Nat
    BY <1>1, <1>2, <2>1, FS_Subset, FS_CardinalityType
  <2>3. k # 0
    BY <2>1, <2>2
  <2> HIDE DEF Good
  <2>4. k - 1 \in Nat /\ k - 1 <= n /\ k - 1 \notin Bad /\ k \in 1..n /\ k - 1 \in 0..n
    BY <1>1, <2>1, <2>3
  <2> USE DEF Good
  <2>5. Good(k - 1) /\ g[k] = step[g[k - 1]] /\ g[k - 1] \in SUBSET B
    BY <1>2, <2>4 DEF Iterates
  <2>6. g[k - 1] \subseteq g[k] /\ g[k - 1] # g[k]
    BY <1>3, <2>1, <2>5
  <2>7. Cardinality(g[k - 1]) >= k - 1
    BY <2>5, <2>6
  <2>8. IsFiniteSet(g[k]) /\ g[k - 1] \in SUBSET g[k]
    BY <1>1, <2>2, <2>6, FS_Subset
  <2>9. /\ Cardinality(g[k - 1]) <= Cardinality(g[k])
        /\ Cardinality(g[k]) = Cardinality(g[k - 1]) => g[k] = g[k - 1]
    BY <2>8, FS_Subset
  <2>10. Cardinality(g[k - 1]) \in Nat
    BY <2>8, FS_Subset, FS_CardinalityType
  <2>11. Cardinality(g[k]) >= k
    BY <2>1, <2>2, <2>6, <2>7, <2>9, <2>10
  <2> QED
    BY <2>1, <2>11
<1>5. Good(n) /\ g[n] \in SUBSET B
  BY <1>1, <1>2, <1>4
<1>6. CASE Cardinality(g[n]) >= n
  <2>1. Cardinality(g[n]) <= n /\ (Cardinality(B) = Cardinality(g[n]) => B = g[n])
    BY <1>1, <1>5, FS_Subset DEF n
  <2>2. Cardinality(g[n]) \in Nat
    BY <1>1, <1>5, FS_Subset, FS_CardinalityType
  <2>3. g[n] = B
    BY <1>1, <1>6, <2>1, <2>2 DEF n
  <2>4. step[B] = B
    <3>1. B \in SUBSET B
      OBVIOUS
    <3>2. step[B] \in SUBSET B /\ B \subseteq step[B]
      BY <1>3, <3>1
    <3> QED
      BY <3>2
  <2> QED
    BY <1>2, <1>5, <2>3, <2>4 DEF step, B
<1> QED
  BY <1>2, <1>5, <1>6 DEF step, B

(* What it holds.                                                          *)
LEMMA ReachedAroundIs ==
  ASSUME NEW f, IsFunc(f), NEW b \in Blocks(f), NEW stops
  PROVE  /\ ReachedAround(f, b, stops) \in SUBSET Blocks(f) /\ b \in ReachedAround(f, b, stops)
         /\ \A c \in ReachedAround(f, b, stops) \ stops : Children(f, c) \subseteq ReachedAround(f, b, stops)
         /\ \A T \in SUBSET Blocks(f) :
              b \in T /\ (\A c \in T \ stops : Children(f, c) \subseteq T) => ReachedAround(f, b, stops) \subseteq T
<1> DEFINE R == ReachedAround(f, b, stops)
           step == Grow(f, stops)
           n == Cardinality(Blocks(f))
<1>1. n \in Nat
  BY BlocksAre
<1>0. /\ step \in [SUBSET Blocks(f) -> SUBSET Blocks(f)]
      /\ \A S \in SUBSET Blocks(f) : \A c : c \in step[S] <=> c \in S \/ \E p \in S \ stops : c \in Children(f, p)
  BY GrowFinds
<1>2. PICK g \in [0..n -> SUBSET Blocks(f)] : Iterates(g, {b}, step, n) /\ R = g[n]
  BY WalkIs
<1>3. step[R] = R /\ R \in SUBSET Blocks(f)
  BY WalkSaturates
<1> HIDE DEF n, step, R
<1>4. \A c \in R \ stops : Children(f, c) \subseteq R
  BY <1>0, <1>3
<1>5. b \in R
  <2> DEFINE T == {S \in SUBSET Blocks(f) : b \in S}
  <2>1. {b} \in T /\ \A S \in T : step[S] \in T
    BY <1>0
  <2> HIDE DEF T
  <2>2. g[n] \in T
    BY <1>1, <1>2, <2>1, IteratesIn
  <2> QED
    BY <1>2, <2>2 DEF T
<1>6. ASSUME NEW T \in SUBSET Blocks(f), b \in T, \A c \in T \ stops : Children(f, c) \subseteq T
      PROVE  R \subseteq T
  <2> DEFINE D == SUBSET T
  <2>1. {b} \in D /\ \A S \in D : step[S] \in D
    <3>1. ASSUME NEW S \in D PROVE step[S] \subseteq T
      <4>1. S \in SUBSET Blocks(f)
        BY <1>6
      <4>2. ASSUME NEW c \in step[S] PROVE c \in T
        <5>1. c \in S \/ \E p \in S \ stops : c \in Children(f, p)
          BY <1>0, <4>1
        <5> QED
          BY <1>6, <5>1
      <4> QED
        BY <4>2
    <3> QED
      BY <1>6, <3>1
  <2> HIDE DEF D
  <2>2. g[n] \in D
    BY <1>1, <1>2, <2>1, IteratesIn
  <2> QED
    BY <1>2, <2>2 DEF D
<1> QED
  BY <1>3, <1>4, <1>5, <1>6 DEF R

-----------------------------------------------------------------------------
(* Finite sets and their greatest elements.                                *)
LEMMA ImageFinite ==
  ASSUME NEW S, IsFiniteSet(S), NEW g
  PROVE  IsFiniteSet({g[x] : x \in S})
<1> DEFINE T == {g[x] : x \in S}
           h == [x \in S |-> g[x]]
<1>1. h \in Surjection(S, T)
  BY DEF Surjection
<1> QED
  BY <1>1, FS_Surjection

LEMMA UnionFinite ==
  ASSUME NEW S, IsFiniteSet(S), NEW g, \A x \in S : IsFiniteSet(g[x])
  PROVE  IsFiniteSet(UNION {g[x] : x \in S})
<1>1. IsFiniteSet({g[x] : x \in S})
  BY ImageFinite
<1>2. \A T \in {g[x] : x \in S} : IsFiniteSet(T)
  OBVIOUS
<1> QED
  BY <1>1, <1>2, FS_UNION

LEMMA ToSetFinite ==
  ASSUME NEW s, IsSeq(s)
  PROVE  IsFiniteSet(ToSet(s))
<1>1. DOMAIN s = 1..Len(s) /\ Len(s) \in Nat
  BY SeqFacts
<1>2. IsFiniteSet(DOMAIN s)
  BY <1>1, FS_Interval
<1> QED
  BY <1>2, ImageFinite DEF ToSet

LEMMA MaxIs ==
  ASSUME NEW S \in SUBSET Nat, S # {}, NEW n \in Nat, \A x \in S : x <= n
  PROVE  Max(S) \in S /\ \A y \in S : y <= Max(S)
<1> DEFINE T == {n - x : x \in S}
<1>1. T \in SUBSET Nat /\ T # {}
  <2>1. ASSUME NEW x \in S PROVE n - x \in Nat
    <3>1. x \in Nat /\ x <= n
      OBVIOUS
    <3> QED
      BY <3>1
  <2>2. \A t \in T : t \in Nat
    BY <2>1
  <2> QED
    BY <2>2
<1>2. PICK t \in T : \A u \in T : t <= u
  BY <1>1, SmallestElement
<1>3. PICK x \in S : t = n - x
  BY <1>2
<1>4. \A y \in S : x >= y
  <2> SUFFICES ASSUME NEW y \in S PROVE x >= y
    OBVIOUS
  <2>1. n - y \in T
    OBVIOUS
  <2>2. n - x <= n - y
    BY <1>2, <1>3, <2>1
  <2> QED
    BY <2>2
<1>5. Max(S) \in S /\ \A y \in S : Max(S) >= y
  BY <1>3, <1>4 DEF Max
<1> QED
  BY <1>5

LEMMA MinIs ==
  ASSUME NEW S \in SUBSET Nat, S # {}
  PROVE  Min(S) \in S /\ \A y \in S : Min(S) <= y
<1>1. PICK x \in S : \A y \in S : x <= y
  BY SmallestElement
<1> QED
  BY <1>1 DEF Min

-----------------------------------------------------------------------------
(* What a function is made of.                                             *)
LEMMA DefinedInHas ==
  ASSUME NEW f, NEW b, NEW v
  PROVE  /\ v \in DefinedIn(f, b) <=> \E i \in DOMAIN f.blocks[b] : v \in ToSet(f.blocks[b][i].defs)
         /\ v \in UsedIn(f, b) <=> v # 0 /\ \E i \in DOMAIN f.blocks[b] : v \in ToSet(f.blocks[b][i].uses)
  BY DEF DefinedIn, UsedIn

LEMMA AllValuesHas ==
  ASSUME NEW f, NEW v
  PROVE  v \in AllValues(f) <=> v \in ToSet(f.args) \/ \E b \in Blocks(f) : v \in DefinedIn(f, b)
  BY DEF AllValues

LEMMA AllValuesFinite ==
  ASSUME NEW f, IsFunc(f)
  PROVE  IsFiniteSet(AllValues(f))
<1>1. ASSUME NEW b \in Blocks(f) PROVE IsFiniteSet(DefinedIn(f, b))
  <2> DEFINE g == [i \in DOMAIN f.blocks[b] |-> ToSet(f.blocks[b][i].defs)]
  <2>1. IsFiniteSet(DOMAIN f.blocks[b])
    BY InstrsAre, FS_Interval
  <2>2. \A i \in DOMAIN f.blocks[b] : IsFiniteSet(g[i])
    BY InstrsAre, ToSetFinite DEF IsInstr
  <2>3. IsFiniteSet(UNION {g[i] : i \in DOMAIN f.blocks[b]})
    <3> HIDE DEF g
    <3> QED
      BY <2>1, <2>2, UnionFinite
  <2>4. DefinedIn(f, b) = UNION {g[i] : i \in DOMAIN f.blocks[b]}
    BY DEF DefinedIn
  <2> QED
    BY <2>3, <2>4
<1> DEFINE h == [b \in Blocks(f) |-> DefinedIn(f, b)]
<1>2. IsFiniteSet(Blocks(f)) /\ \A b \in Blocks(f) : IsFiniteSet(h[b])
  BY <1>1, BlocksAre
<1>3. IsFiniteSet(UNION {h[b] : b \in Blocks(f)})
  <2> HIDE DEF h
  <2> QED
    BY <1>2, UnionFinite
<1>4. AllValues(f) = ToSet(f.args) \cup (UNION {h[b] : b \in Blocks(f)})
  BY DEF AllValues
<1>5. IsFiniteSet(ToSet(f.args))
  BY ToSetFinite DEF IsFunc
<1> QED
  BY <1>3, <1>4, <1>5, FS_Union

LEMMA PhisAre ==
  ASSUME NEW f, IsFunc(f), NEW b \in Blocks(f)
  PROVE  /\ NumPhis(f, b) \in 0..(Len(f.blocks[b]) - 1)
         /\ \A i \in 1..Len(f.blocks[b]) : IsPhi(f.blocks[b][i]) <=> i <= NumPhis(f, b)
         /\ Len(Phis(f, b)) = NumPhis(f, b) /\ DOMAIN Phis(f, b) = 1..NumPhis(f, b)
         /\ \A i \in 1..NumPhis(f, b) : Phis(f, b)[i] = f.blocks[b][i]
         /\ \A phi : phi \in ToSet(Phis(f, b)) <=> \E i \in 1..NumPhis(f, b) : phi = f.blocks[b][i]
<1> DEFINE n == Len(f.blocks[b])
           k == NumPhis(f, b)
<1>1. n \in Nat \ {0} /\ DOMAIN f.blocks[b] = 1..n /\ f.blocks[b] \in Seq(ToSet(f.blocks[b]))
  BY InstrsAre, SeqFacts
<1>2. IsBlock(f, b)
  BY DEF IsFunc
<1>3. k \in 0..n /\ \A i \in 1..n : IsPhi(f.blocks[b][i]) <=> i <= k
  BY <1>1, <1>2 DEF IsBlock, NumPhis
<1>4. k # n
  <2>1. IsInstr(f, b, n)
    BY <1>1, InstrsAre
  <2>2. ~IsPhi(f.blocks[b][n])
    BY <1>1, <2>1 DEF IsInstr, IsPhi
  <2> QED
    BY <1>1, <1>3, <2>2
<1> HIDE DEF k, n
<1>5. k \in 0..(n - 1)
  BY <1>1, <1>3, <1>4
<1>6. Len(SubSeq(f.blocks[b], 1, k)) = k /\ DOMAIN SubSeq(f.blocks[b], 1, k) = 1..k
      /\ \A i \in 1..k : SubSeq(f.blocks[b], 1, k)[i] = f.blocks[b][i]
  BY <1>1, <1>5 DEF n
<1>7. Len(Phis(f, b)) = k /\ DOMAIN Phis(f, b) = 1..k /\ \A i \in 1..k : Phis(f, b)[i] = f.blocks[b][i]
  BY <1>6 DEF Phis, k
<1>8. \A phi : phi \in ToSet(Phis(f, b)) <=> \E i \in 1..k : phi = f.blocks[b][i]
  BY <1>7 DEF ToSet
<1> QED
  BY <1>3, <1>5, <1>7, <1>8 DEF k, n

LEMMA PlacesAre ==
  ASSUME NEW f, IsFunc(f), NEW b \in Blocks(f), NEW v
  PROVE  /\ DefinedBy(f, b, v) \subseteq 1..Len(f.blocks[b]) /\ UsedBy(f, b, v) \subseteq 1..Len(f.blocks[b])
         /\ \A i \in 1..Len(f.blocks[b]) :
              /\ i \in DefinedBy(f, b, v) <=> i > NumPhis(f, b) /\ v \in ToSet(f.blocks[b][i].defs)
              /\ i \in UsedBy(f, b, v) <=> v \in ToSet(f.blocks[b][i].uses)
<1>1. DOMAIN f.blocks[b] = 1..Len(f.blocks[b]) /\ Len(f.blocks[b]) \in Nat
  BY InstrsAre
<1>2. ASSUME NEW i \in 1..Len(f.blocks[b])
      PROVE  /\ i \in DefinedBy(f, b, v) <=> i > NumPhis(f, b) /\ v \in ToSet(f.blocks[b][i].defs)
             /\ i \in UsedBy(f, b, v) <=> v \in ToSet(f.blocks[b][i].uses)
  <2>1. IsPhi(f.blocks[b][i]) <=> i <= NumPhis(f, b)
    BY PhisAre
  <2>2. NumPhis(f, b) \in Int
    BY <1>1, PhisAre
  <2>3. IsPhi(f.blocks[b][i]) => f.blocks[b][i].uses = <<>>
    BY <1>2, InstrsAre DEF IsInstr, IsPhi
  <2>4. ToSet(<<>>) = {}
    BY DEF ToSet
  <2> QED
    BY <1>1, <2>1, <2>2, <2>3, <2>4 DEF DefinedBy, UsedBy
<1> QED
  BY <1>1, <1>2 DEF DefinedBy, UsedBy

LEMMA InheritedHas ==
  ASSUME NEW f, IsFunc(f), NEW b \in Blocks(f), NEW v
  PROVE  v \in InheritedFrom(f, b) <=>
           v # 0 /\ \E c \in Children(f, b) : \E i \in 1..NumPhis(f, c) : f.blocks[c][i].from[b] = v
<1>1. \A c \in Children(f, b) : \A phi : phi \in ToSet(Phis(f, c)) <=> \E i \in 1..NumPhis(f, c) : phi = f.blocks[c][i]
  BY InstrsAre, PhisAre
<1>2. v \in InheritedFrom(f, b) <=> v # 0 /\ \E c \in Children(f, b) : \E phi \in ToSet(Phis(f, c)) : phi.from[b] = v
  BY DEF InheritedFrom
<1> QED
  BY <1>1, <1>2

LEMMA InheritedAreValues ==
  ASSUME NEW f, IsFunc(f), NEW b \in Blocks(f)
  PROVE  InheritedFrom(f, b) \subseteq AllValues(f)
  BY DEF IsFunc, DefinedBeforeUse

-----------------------------------------------------------------------------
(* Live ranges: what BacktraceBlock establishes for a block, and what the   *)
(* worklist adds.                                                          *)
LiveRange == [start : Nat, end : Nat]
PlacesOf(f, b, v) == DefinedBy(f, b, v) \cup UsedBy(f, b, v)

Sound(f, b, r) ==
  /\ r \in [DOMAIN r -> LiveRange] /\ DOMAIN r \subseteq AllValues(f)
  /\ \A v \in AllValues(f) : PlacesOf(f, b, v) # {} \/ v \in InheritedFrom(f, b) => v \in DOMAIN r
  /\ \A v \in DOMAIN r :
       /\ r[v].start = Null <=> DefinedBy(f, b, v) = {}
       /\ r[v].end # Null => r[v].end \in PlacesOf(f, b, v) /\ \A j \in PlacesOf(f, b, v) : j <= r[v].end
  /\ InheritedFrom(f, b) \subseteq ExitSet(r)

LiveOut(f, b) == InheritedFrom(f, b) \cup (UNION {LiveIn(f, c) : c \in Children(f, b)})

(* The blocks whose entry set the parents do not know yet are queued.       *)
Told(f, rs, q) == \A c \in Blocks(f) : \A p \in Parents(f, c) : c \in q \/ EntrySet(rs[c]) \subseteq ExitSet(rs[p])

LEMMA BacktraceSound ==
  ASSUME NEW f, IsFunc(f), NEW b \in Blocks(f)
  PROVE  Sound(f, b, BacktraceBlock(f, b)) /\ ExitSet(BacktraceBlock(f, b)) \subseteq InheritedFrom(f, b)
<1> DEFINE r == BacktraceBlock(f, b)
           D == {v \in AllValues(f) : PlacesOf(f, b, v) # {} \/ v \in InheritedFrom(f, b)}
           n == Len(f.blocks[b])
<1>1. r = [v \in D |-> [start |-> Max(DefinedBy(f, b, v) \cup {Null}),
                        end |-> IF v \in InheritedFrom(f, b) THEN Null ELSE Max(UsedBy(f, b, v) \cup DefinedBy(f, b, v))]]
  BY DEF BacktraceBlock, PlacesOf
<1>2. n \in Nat /\ \A v : DefinedBy(f, b, v) \subseteq 1..n /\ UsedBy(f, b, v) \subseteq 1..n
  BY InstrsAre, PlacesAre
<1>3. ASSUME NEW v \in D
      PROVE  /\ r[v] \in LiveRange
             /\ r[v].start = Null <=> DefinedBy(f, b, v) = {}
             /\ r[v].end = Null <=> v \in InheritedFrom(f, b)
             /\ r[v].end # Null => r[v].end \in PlacesOf(f, b, v) /\ \A j \in PlacesOf(f, b, v) : j <= r[v].end
  <2> DEFINE S == DefinedBy(f, b, v) \cup {Null}
             T == UsedBy(f, b, v) \cup DefinedBy(f, b, v)
  <2>1. r[v].start = Max(S) /\ r[v].end = (IF v \in InheritedFrom(f, b) THEN Null ELSE Max(T))
        /\ r[v] = [start |-> Max(S), end |-> IF v \in InheritedFrom(f, b) THEN Null ELSE Max(T)]
    BY <1>1
  <2>2. S \in SUBSET Nat /\ S # {} /\ \A x \in S : x <= n
    BY <1>2 DEF Null
  <2>3. Max(S) \in S /\ \A y \in S : y <= Max(S)
    BY <1>2, <2>2, MaxIs
  <2>4. Max(S) = Null <=> DefinedBy(f, b, v) = {}
    <3>1. DefinedBy(f, b, v) = {} => Max(S) = Null
      BY <2>3
    <3>2. ASSUME NEW x \in DefinedBy(f, b, v) PROVE Max(S) # 0
      <4>1. x \in 1..n /\ x \in S
        BY <1>2
      <4> HIDE DEF S
      <4>2. x <= Max(S)
        BY <2>3, <4>1
      <4> QED
        BY <4>1, <4>2
    <3> QED
      BY <3>1, <3>2 DEF Null
  <2>5. CASE v \in InheritedFrom(f, b)
    BY <2>1, <2>2, <2>3, <2>4, <2>5 DEF LiveRange, Null
  <2>6. CASE v \notin InheritedFrom(f, b)
    <3>1. T \in SUBSET Nat /\ T # {} /\ T = PlacesOf(f, b, v) /\ \A x \in T : 1 <= x /\ x <= n
      BY <1>2, <2>6 DEF PlacesOf
    <3>2. Max(T) \in T /\ \A y \in T : y <= Max(T)
      BY <1>2, <3>1, MaxIs
    <3>3. Max(T) \in Nat /\ Max(T) # Null
      BY <3>1, <3>2 DEF Null
    <3> QED
      <4>1. Max(S) \in Nat
        BY <2>2, <2>3
      <4>2. r[v] = [start |-> Max(S), end |-> Max(T)]
        BY <2>1, <2>6
      <4> HIDE DEF S, T, r
      <4> QED
        BY <2>4, <2>6, <3>1, <3>2, <3>3, <4>1, <4>2 DEF LiveRange
  <2> QED
    BY <2>5, <2>6
<1>4. DOMAIN r = D
  BY <1>1
<1>5. InheritedFrom(f, b) \subseteq D
  BY InheritedAreValues
<1> HIDE DEF r
<1>6. r = [v \in DOMAIN r |-> r[v]]
  BY <1>1
<1>7. r \in [DOMAIN r -> LiveRange]
  BY <1>3, <1>4, <1>6
<1> HIDE DEF D
<1>8. ExitSet(r) = InheritedFrom(f, b)
  BY <1>3, <1>4, <1>5 DEF ExitSet
<1> USE DEF D
<1>9. Sound(f, b, r)
  BY <1>3, <1>4, <1>7, <1>8 DEF Sound
<1> QED
  BY <1>8, <1>9 DEF r

LEMMA PropagateAdds ==
  ASSUME NEW f, IsFunc(f), NEW b \in Blocks(f), NEW r, Sound(f, b, r), NEW values \in SUBSET AllValues(f)
  PROVE  /\ Sound(f, b, PropagateBackwards(r, values))
         /\ ExitSet(PropagateBackwards(r, values)) = ExitSet(r) \cup values
         /\ EntrySet(PropagateBackwards(r, values)) = EntrySet(r) \cup (values \ DOMAIN r)
<1> DEFINE new == PropagateBackwards(r, values)
<1>1. DOMAIN new = DOMAIN r \cup values /\ new = [v \in DOMAIN new |-> new[v]]
  BY DEF PropagateBackwards
<1>2. ASSUME NEW v \in values, v \notin DOMAIN r
      PROVE  new[v] = [start |-> Null, end |-> Null] /\ DefinedBy(f, b, v) = {}
    BY <1>2 DEF PropagateBackwards, Sound, PlacesOf
<1>3. ASSUME NEW v \in DOMAIN r
      PROVE  /\ new[v] \in LiveRange /\ new[v].start = r[v].start
             /\ new[v].end = IF v \in values THEN Null ELSE r[v].end
  <2>1. r[v] \in LiveRange
    BY DEF Sound
  <2>2. new[v] = IF v \in values THEN [r[v] EXCEPT !.end = Null] ELSE r[v]
    BY DEF PropagateBackwards
  <2> QED
    BY <2>1, <2>2 DEF LiveRange, Null
<1> HIDE DEF new
<1>4. ASSUME NEW v \in DOMAIN new PROVE new[v] \in LiveRange
  BY <1>1, <1>2, <1>3 DEF LiveRange, Null
<1>5. new \in [DOMAIN new -> LiveRange]
  BY <1>1, <1>4
<1>6. ExitSet(new) = ExitSet(r) \cup values
  BY <1>1, <1>2, <1>3 DEF ExitSet
<1>7. EntrySet(new) = EntrySet(r) \cup (values \ DOMAIN r)
  BY <1>1, <1>2, <1>3 DEF EntrySet
<1>8. Sound(f, b, new)
  <2>1. DOMAIN new \subseteq AllValues(f) /\ InheritedFrom(f, b) \subseteq ExitSet(new)
    BY <1>1, <1>6 DEF Sound
  <2>2. \A v \in AllValues(f) : PlacesOf(f, b, v) # {} \/ v \in InheritedFrom(f, b) => v \in DOMAIN new
    BY <1>1 DEF Sound
  <2>3. ASSUME NEW v \in DOMAIN new
        PROVE  /\ new[v].start = Null <=> DefinedBy(f, b, v) = {}
               /\ new[v].end # Null => new[v].end \in PlacesOf(f, b, v) /\ \A j \in PlacesOf(f, b, v) : j <= new[v].end
    <3>1. CASE v \in DOMAIN r
      BY <1>3, <3>1 DEF Sound
    <3>2. CASE v \notin DOMAIN r
      BY <1>1, <1>2, <3>2
    <3> QED
      BY <3>1, <3>2
  <2> QED
    BY <1>5, <2>1, <2>2, <2>3 DEF Sound
<1> QED
  BY <1>6, <1>7, <1>8 DEF new

(* What is live by paths.                                                  *)
LEMMA LiveHere ==
  ASSUME NEW f, IsFunc(f), NEW b \in Blocks(f), NEW v \in AllValues(f), UpwardExposed(f, b, v)
  PROVE  v \in LiveIn(f, b)
<1>1. b \in ReachedFrom(f, b, v)
  BY ReachedAroundIs DEF ReachedFrom
<1> QED
  BY <1>1 DEF LiveIn

LEMMA LiveAbove ==
  ASSUME NEW f, IsFunc(f), NEW b \in Blocks(f), NEW c \in Children(f, b), NEW v,
         v \in LiveIn(f, c), DefinedBy(f, b, v) = {}
  PROVE  v \in LiveIn(f, b)
<1> DEFINE stops == {x \in Blocks(f) : DefinedBy(f, x, v) # {}}
<1>1. c \in Blocks(f)
  BY InstrsAre
<1>2. PICK x \in ReachedFrom(f, c, v) : UpwardExposed(f, x, v) /\ v \in AllValues(f)
  BY DEF LiveIn
<1>3. b \notin stops
  OBVIOUS
<1> HIDE DEF stops
<1>4. c \in ReachedAround(f, b, stops)
  BY <1>3, ReachedAroundIs
<1>5. ReachedAround(f, c, stops) \subseteq ReachedAround(f, b, stops)
  BY <1>1, <1>4, ReachedAroundIs
<1>6. x \in ReachedFrom(f, b, v)
  BY <1>2, <1>5 DEF ReachedFrom, stops
<1> QED
  BY <1>2, <1>6 DEF LiveIn

LEMMA EntryIsLive ==
  ASSUME NEW f, IsFunc(f), NEW b \in Blocks(f), NEW r, Sound(f, b, r), ExitSet(r) \subseteq LiveOut(f, b)
  PROVE  EntrySet(r) \subseteq LiveIn(f, b)
<1> SUFFICES ASSUME NEW v \in EntrySet(r) PROVE v \in LiveIn(f, b)
  OBVIOUS
<1>1. v \in DOMAIN r /\ v \in AllValues(f) /\ DefinedBy(f, b, v) = {}
  BY DEF EntrySet, Sound
<1>2. CASE v \in InheritedFrom(f, b) \/ UsedBy(f, b, v) # {}
  <2>1. UpwardExposed(f, b, v)
    BY <1>1, <1>2 DEF UpwardExposed
  <2> QED
    BY <1>1, <2>1, LiveHere
<1>3. CASE v \notin InheritedFrom(f, b) /\ UsedBy(f, b, v) = {}
  <2>1. r[v].end = Null
    BY <1>1, <1>3 DEF Sound, PlacesOf
  <2>2. v \in LiveOut(f, b)
    BY <1>1, <2>1 DEF ExitSet
  <2>3. PICK c \in Children(f, b) : v \in LiveIn(f, c)
    BY <1>3, <2>2 DEF LiveOut
  <2> QED
    BY <1>1, <2>3, LiveAbove
<1> QED
  BY <1>2, <1>3

LEMMA LiveIsEntry ==
  ASSUME NEW f, IsFunc(f), NEW rs, \A b \in Blocks(f) : Sound(f, b, rs[b]), Told(f, rs, {}), NEW b \in Blocks(f)
  PROVE  LiveIn(f, b) \subseteq EntrySet(rs[b])
<1> SUFFICES ASSUME NEW v \in LiveIn(f, b), v \notin EntrySet(rs[b]) PROVE FALSE
  OBVIOUS
<1> DEFINE T == {c \in Blocks(f) : v \notin EntrySet(rs[c])}
           stops == {x \in Blocks(f) : DefinedBy(f, x, v) # {}}
<1>1. PICK x \in ReachedFrom(f, b, v) : UpwardExposed(f, x, v) /\ v \in AllValues(f)
  BY DEF LiveIn
<1>2. ASSUME NEW c \in T \ stops, NEW d \in Children(f, c) PROVE d \in T
  <2>1. d \in Blocks(f) /\ c \in Parents(f, d)
    BY InstrsAre DEF Parents
  <2>2. SUFFICES ASSUME v \in EntrySet(rs[d]) PROVE FALSE
    BY <2>1
  <2>3. v \in ExitSet(rs[c])
    BY <2>1, <2>2 DEF Told
  <2>4. v \in EntrySet(rs[c])
    BY <2>3 DEF ExitSet, EntrySet, Sound
  <2> QED
    BY <2>4
<1>3. ReachedAround(f, b, stops) \subseteq T
  <2>1. T \in SUBSET Blocks(f) /\ b \in T
    OBVIOUS
  <2> HIDE DEF T, stops
  <2> QED
    BY <1>2, <2>1, ReachedAroundIs
<1>4. x \in T
  BY <1>1, <1>3 DEF ReachedFrom
<1>5. v \in EntrySet(rs[x])
  BY <1>1, <1>4 DEF UpwardExposed, Sound, EntrySet, PlacesOf
<1> QED
  BY <1>4, <1>5

-----------------------------------------------------------------------------
(* The interference graph: values live at the same time are connected.      *)
LEMMA PairIs ==
  ASSUME NEW v, NEW w, v # w
  PROVE  Cardinality({v, w}) = 2
<1>1. IsFiniteSet({v}) /\ Cardinality({v}) = 1
  BY FS_Singleton
<1>2. Cardinality({v} \cup {w}) = 2
  BY <1>1, FS_AddElement
<1>3. {v, w} = {v} \cup {w}
  OBVIOUS
<1> QED
  BY <1>2, <1>3

LEMMA EdgesAre ==
  ASSUME NEW f, NEW rs, NEW e
  PROVE  e \in BuildInterferenceGraph(f, rs).edges <=>
           \E b \in Blocks(f) :
             \/ e \in AddEdgesIn(ExitSet(rs[b]))
             \/ \E i \in DOMAIN f.blocks[b] : e \in EdgesAtInstr(f.blocks[b][i], LiveAfter(f, b, ExitSet(rs[b]), i))
<1> DEFINE Edges(b) == PopulateInterferenceGraphForBlock(f, b, rs[b])
<1>1. ASSUME NEW b
      PROVE  e \in Edges(b) <=>
               \/ e \in AddEdgesIn(ExitSet(rs[b]))
               \/ \E i \in DOMAIN f.blocks[b] : e \in EdgesAtInstr(f.blocks[b][i], LiveAfter(f, b, ExitSet(rs[b]), i))
  BY Zenon DEF PopulateInterferenceGraphForBlock
<1>2. BuildInterferenceGraph(f, rs).edges = UNION {Edges(b) : b \in Blocks(f)}
  BY DEF BuildInterferenceGraph
<1> HIDE DEF Edges
<1> QED
  BY <1>1, <1>2

LEMMA EdgesOfResult ==
  ASSUME NEW instr, NEW live, NEW j \in DOMAIN instr.defs, instr.defs[j] \notin live,
         NEW w \in live, w \notin ToSet(instr.defs), DOMAIN instr.defs = 1..Len(instr.defs), Len(instr.defs) \in Nat
  PROVE  {w, instr.defs[j]} \in EdgesAtInstr(instr, live)
<1> DEFINE Earlier(i) == {instr.defs[k] : k \in 1..(i - 1)}
           I == {i \in DOMAIN instr.defs : instr.defs[i] \notin live}
<1>1. w \notin Earlier(j)
  BY DEF ToSet
<1>2. w # instr.defs[j]
  OBVIOUS
<1>3. {w, instr.defs[j]} \in AddEdgesBetween(live \ Earlier(j), instr.defs[j])
  BY <1>1, <1>2 DEF AddEdgesBetween
<1>4. j \in I
  OBVIOUS
<1>5. {w, instr.defs[j]} \in UNION {AddEdgesBetween(live \ Earlier(i), instr.defs[i]) : i \in I}
  BY <1>3, <1>4
<1> QED
  BY <1>5, Zenon DEF EdgesAtInstr

LEMMA EdgesOfUse ==
  ASSUME NEW instr, ~IsPhi(instr), NEW live, NEW u \in ToSet(instr.uses) \ {0}, u \notin live \ ToSet(instr.defs),
         NEW w \in (live \ ToSet(instr.defs)) \cup (ToSet(instr.uses) \ {0}), w # u
  PROVE  {w, u} \in EdgesAtInstr(instr, live)
<1> DEFINE uses == ToSet(instr.uses) \ {0}
           through == live \ ToSet(instr.defs)
<1>1. {w, u} \in AddEdgesBetween(through \cup uses, u)
  BY DEF AddEdgesBetween
<1>2. {w, u} \in UNION {AddEdgesBetween(through \cup uses, v) : v \in uses \ through}
  BY <1>1
<1> QED
  BY <1>2 DEF EdgesAtInstr

(* Every edge is between values of the function.                            *)
LEMMA EdgesBetweenValues ==
  ASSUME NEW f, IsFunc(f), NEW rs, \A b \in Blocks(f) : Sound(f, b, rs[b]),
         NEW e \in BuildInterferenceGraph(f, rs).edges
  PROVE  e \subseteq AllValues(f)
<1>1. PICK b \in Blocks(f) :
             \/ e \in AddEdgesIn(ExitSet(rs[b]))
             \/ \E i \in DOMAIN f.blocks[b] : e \in EdgesAtInstr(f.blocks[b][i], LiveAfter(f, b, ExitSet(rs[b]), i))
  BY EdgesAre
<1>2. CASE e \in AddEdgesIn(ExitSet(rs[b]))
  BY <1>2 DEF AddEdgesIn, Sound, ExitSet
<1>3. ASSUME NEW i \in DOMAIN f.blocks[b], e \in EdgesAtInstr(f.blocks[b][i], LiveAfter(f, b, ExitSet(rs[b]), i))
      PROVE  e \subseteq AllValues(f)
  <2> DEFINE instr == f.blocks[b][i]
             live == LiveAfter(f, b, ExitSet(rs[b]), i)
             uses == (IF IsPhi(instr) THEN Sources(instr) ELSE ToSet(instr.uses)) \ {0}
  <2>1. live \subseteq AllValues(f)
    BY DEF LiveAfter
  <2>2. IsInstr(f, b, i) /\ i \in 1..Len(f.blocks[b])
    BY InstrsAre
  <2>3. ToSet(instr.defs) \subseteq AllValues(f)
    BY DefinedInHas, AllValuesHas
  <2>4. uses \subseteq AllValues(f)
    <3>1. CASE ~IsPhi(instr)
      BY <2>2, <3>1 DEF IsInstr
    <3>2. CASE IsPhi(instr)
      <4>1. DOMAIN instr.from = Parents(f, b) /\ i <= NumPhis(f, b) /\ i \in 1..NumPhis(f, b)
        BY <2>2, <3>2, InstrsAre, PhisAre DEF IsInstr, IsPhi
      <4>2. ASSUME NEW o \in DOMAIN instr.from, instr.from[o] # 0 PROVE instr.from[o] \in AllValues(f)
        <5>1. o \in Blocks(f) /\ b \in Children(f, o)
          BY <4>1 DEF Parents
        <5>2. instr.from[o] \in InheritedFrom(f, o)
          BY <4>1, <4>2, <5>1, InheritedHas
        <5> QED
          BY <5>1, <5>2, InheritedAreValues
      <4> QED
        BY <3>2, <4>2 DEF Sources
    <3> QED
      BY <3>1, <3>2
  <2> DEFINE through == live \ ToSet(instr.defs)
             group == IF IsPhi(instr) THEN through ELSE through \cup uses
             Earlier(j) == {instr.defs[k] : k \in 1..(j - 1)}
             I == {j \in DOMAIN instr.defs : instr.defs[j] \notin live}
  <2>5. \/ \E j \in I : e \in AddEdgesBetween(live \ Earlier(j), instr.defs[j])
        \/ \E v \in uses \ through : e \in AddEdgesBetween(group, v)
    <3>1. e \in (UNION {AddEdgesBetween(live \ Earlier(j), instr.defs[j]) : j \in I})
                 \cup (UNION {AddEdgesBetween(group, v) : v \in uses \ through})
      BY <1>3, Zenon DEF EdgesAtInstr
    <3> HIDE DEF uses, through, group, Earlier, I, live
    <3> QED
      BY <3>1
  <2>6. group \subseteq AllValues(f)
    BY <2>1, <2>4
  <2> HIDE DEF uses, through, group, live, Earlier
  <2>7. \A j \in DOMAIN instr.defs : instr.defs[j] \in AllValues(f)
    BY <2>3 DEF ToSet
  <2> QED
    BY <2>1, <2>4, <2>5, <2>6, <2>7 DEF AddEdgesBetween
<1> QED
  BY <1>1, <1>2, <1>3

LEMMA LiveTogether ==
  ASSUME NEW f, IsFunc(f), NEW rs, \A b \in Blocks(f) : Sound(f, b, rs[b]), NEW b \in Blocks(f)
  PROVE  \A i \in NumPhis(f, b)..Len(f.blocks[b]) : \A v, w \in LiveAfter(f, b, ExitSet(rs[b]), i) :
           v # w => {v, w} \in BuildInterferenceGraph(f, rs).edges
<1> DEFINE n == Len(f.blocks[b])
           Live(i) == LiveAfter(f, b, ExitSet(rs[b]), i)
           Edges == BuildInterferenceGraph(f, rs).edges
           Bad == {m \in Nat : m <= n - NumPhis(f, b) /\ \E v, w \in Live(n - m) : v # w /\ {v, w} \notin Edges}
<1>1. n \in Nat \ {0} /\ NumPhis(f, b) \in 0..(n - 1) /\ DOMAIN f.blocks[b] = 1..n
  BY InstrsAre, PhisAre
<1> HIDE DEF Live, Edges, n
<1>2. SUFFICES ASSUME Bad # {} PROVE FALSE
  <2>1. ASSUME NEW i \in NumPhis(f, b)..n, NEW v \in Live(i), NEW w \in Live(i), v # w, {v, w} \notin Edges
        PROVE  FALSE
    <3>1. n - i \in Nat /\ n - i <= n - NumPhis(f, b) /\ n - (n - i) = i
      BY <1>1
    <3>2. n - i \in Bad
      BY <2>1, <3>1
    <3> QED
      BY <1>2, <3>2
  <2> QED
    BY <2>1 DEF Live, Edges, n
<1>3. PICK m \in Bad : \A l \in Bad : m <= l
  BY <1>2, SmallestElement
<1>4. PICK v \in Live(n - m), w \in Live(n - m) : v # w /\ {v, w} \notin Edges
  BY <1>3
<1>5. CASE m = 0
  <2>1. v \in ExitSet(rs[b]) /\ w \in ExitSet(rs[b])
    <3>1. \A x : ~\E j \in UsedBy(f, b, x) : j > n
      BY <1>1, PlacesAre DEF n
    <3> QED
      BY <1>1, <1>4, <1>5, <3>1 DEF Live, LiveAfter
  <2>2. {v, w} \in AddEdgesIn(ExitSet(rs[b]))
    BY <1>4, <2>1, PairIs DEF AddEdgesIn
  <2> QED
    BY <1>4, <2>2, EdgesAre DEF Edges
<1>6. CASE m # 0
  <2> DEFINE i == n - m + 1
             instr == f.blocks[b][i]
             through == Live(i) \ ToSet(instr.defs)
             uses == ToSet(instr.uses) \ {0}
  <2>1. i \in 1..n /\ i > NumPhis(f, b) /\ n - m = i - 1 /\ m - 1 \in Nat /\ n - (m - 1) = i /\ m - 1 <= n - NumPhis(f, b)
    BY <1>1, <1>3, <1>6
  <2>2. IsInstr(f, b, i) /\ ~IsPhi(instr)
    BY <2>1, InstrsAre, PhisAre, <1>1 DEF n
  <2> HIDE DEF i
  <2>3. m - 1 \notin Bad
    BY <1>3, <2>1
  <2>4. \A x, y \in Live(i) : x # y => {x, y} \in Edges
    BY <2>1, <2>3
  <2>5. ASSUME NEW x \in Live(i - 1) PROVE x \in through \cup uses
    <3>1. /\ x \in AllValues(f) /\ (x \in ExitSet(rs[b]) \/ \E j \in UsedBy(f, b, x) : j > i - 1)
          /\ \A j \in 1..n : x \in ToSet(f.blocks[b][j].defs) => j <= i - 1
      BY <1>1, <2>5 DEF Live, LiveAfter
    <3>2. x \notin ToSet(instr.defs)
      <4>1. x \in ToSet(instr.defs) => i <= i - 1
        BY <2>1, <3>1
      <4>2. ~(i <= i - 1)
        BY <1>1, <2>1
      <4> QED
        BY <4>1, <4>2
    <3>3. CASE x \in ExitSet(rs[b]) \/ \E j \in UsedBy(f, b, x) : j > i
      <4>1. \A j \in 1..n : j <= i - 1 => j <= i
        BY <2>1
      <4>2. x \in Live(i)
        BY <1>1, <3>1, <3>3, <4>1 DEF Live, LiveAfter
      <4> QED
        BY <3>2, <4>2
    <3>4. CASE \E j \in UsedBy(f, b, x) : j > i - 1 /\ ~(j > i)
      <4>1. i \in UsedBy(f, b, x)
        <5>1. PICK j \in UsedBy(f, b, x) : j > i - 1 /\ ~(j > i)
          BY <3>4
        <5>2. j \in 1..n
          BY PlacesAre DEF n
        <5>3. j = i
          BY <2>1, <5>1, <5>2
        <5> QED
          BY <5>1, <5>3
      <4>2. x \in ToSet(instr.uses)
        BY <2>1, <4>1, PlacesAre DEF n
      <4>3. x # 0
        <5>1. CASE x \in ToSet(f.args)
          BY <5>1 DEF IsFunc
        <5>2. ASSUME NEW c \in Blocks(f), x \in DefinedIn(f, c) PROVE x # 0
          <6>1. PICK j \in DOMAIN f.blocks[c] : x \in ToSet(f.blocks[c][j].defs)
            BY <5>2, DefinedInHas
          <6>2. IsInstr(f, c, j)
            BY <6>1, InstrsAre
          <6> QED
            BY <6>1, <6>2 DEF IsInstr
        <5> QED
          BY <3>1, <5>1, <5>2, AllValuesHas
      <4> QED
        BY <4>2, <4>3
    <3> QED
      BY <3>1, <3>3, <3>4
  <2>6. v \in through \cup uses /\ w \in through \cup uses
    BY <1>4, <2>1, <2>5
  <2>7. \A e : e \in EdgesAtInstr(instr, Live(i)) => e \in Edges
    <3>1. i \in DOMAIN f.blocks[b]
      BY <1>1, <2>1
    <3> QED
      BY <3>1, EdgesAre DEF Edges, Live
  <2>8. CASE v \in through /\ w \in through
    BY <1>4, <2>4, <2>8
  <2>9. CASE v \notin through
    <3>1. {w, v} \in EdgesAtInstr(instr, Live(i))
      BY <1>4, <2>2, <2>6, <2>9, EdgesOfUse
    <3>2. {w, v} = {v, w}
      OBVIOUS
    <3> QED
      BY <1>4, <2>7, <3>1, <3>2
  <2>10. CASE w \notin through
    <3>1. {v, w} \in EdgesAtInstr(instr, Live(i))
      BY <1>4, <2>2, <2>6, <2>10, EdgesOfUse
    <3> QED
      BY <1>4, <2>7, <3>1
  <2> QED
    BY <2>8, <2>9, <2>10
<1> QED
  BY <1>5, <1>6

(* A result and what is live after its instruction.                         *)
LEMMA ResultsApart ==
  ASSUME NEW f, IsFunc(f), NEW rs, \A b \in Blocks(f) : Sound(f, b, rs[b]), NEW b \in Blocks(f),
         NEW i \in 1..Len(f.blocks[b]), i > NumPhis(f, b), NEW d \in ToSet(f.blocks[b][i].defs),
         NEW w \in LiveAfter(f, b, ExitSet(rs[b]), i), w # d,
         w \notin ToSet(f.blocks[b][i].defs) \/ d \in LiveAfter(f, b, ExitSet(rs[b]), i)
  PROVE  {w, d} \in BuildInterferenceGraph(f, rs).edges
<1> DEFINE live == LiveAfter(f, b, ExitSet(rs[b]), i)
           instr == f.blocks[b][i]
<1>1. CASE d \in live
  <2>1. i \in NumPhis(f, b)..Len(f.blocks[b])
    BY InstrsAre, PhisAre
  <2> QED
    BY <1>1, <2>1, LiveTogether
<1>2. CASE d \notin live
  <2>1. PICK j \in DOMAIN instr.defs : instr.defs[j] = d
    BY ToSetIs
  <2>2. IsInstr(f, b, i)
    BY InstrsAre
  <2>3. DOMAIN instr.defs = 1..Len(instr.defs) /\ Len(instr.defs) \in Nat
    BY <2>2, SeqFacts DEF IsInstr
  <2>4. {w, d} \in EdgesAtInstr(instr, live)
    <3> HIDE DEF live, instr
    <3> QED
      BY <1>2, <2>1, <2>3, EdgesOfResult DEF live, instr
  <2>5. i \in DOMAIN f.blocks[b]
    BY InstrsAre
  <2> QED
    BY <2>4, <2>5, EdgesAre
<1> QED
  BY <1>1, <1>2

-----------------------------------------------------------------------------
(* Colors: connected values that have one have different ones.              *)
ProperColors(g, cs) == \A v, w \in DOMAIN cs : v # w /\ {v, w} \in g.edges => cs[v] # cs[w]

LEMMA ColorDiffers ==
  ASSUME NEW f, NEW g, NEW cs, NEW v, IsFiniteSet(Neighbors(g, v)), NEW w \in DOMAIN cs, w # v, {v, w} \in g.edges
  PROVE  ColorOf(f, g, cs, v) # cs[w]
<1> DEFINE taken == {GetColor(cs, x) : x \in Neighbors(g, v)}
           n == Cardinality(taken)
           get == [x \in Neighbors(g, v) |-> GetColor(cs, x)]
           free == (0..n) \ taken
<1>1. IsFiniteSet(taken)
  <2>1. IsFiniteSet({get[x] : x \in Neighbors(g, v)})
    <3> HIDE DEF get
    <3> QED
      BY ImageFinite
  <2>2. taken = {get[x] : x \in Neighbors(g, v)}
    OBVIOUS
  <2> QED
    BY <2>1, <2>2
<1>2. cs[w] \in taken
  <2>1. w \in Neighbors(g, v)
    BY DEF Neighbors
  <2>2. GetColor(cs, w) = cs[w]
    BY DEF GetColor
  <2> QED
    BY <2>1, <2>2
<1>3. ColorOf(f, g, cs, v) = IF PreferredColors(f)[v] # NoColor /\ PreferredColors(f)[v] \notin taken
                               THEN PreferredColors(f)[v] ELSE Min(free)
  BY DEF ColorOf
<1> HIDE DEF taken
<1>4. n \in Nat
  BY <1>1, FS_CardinalityType
<1>5. free # {}
  <2> SUFFICES ASSUME 0..n \subseteq taken PROVE FALSE
    OBVIOUS
  <2>1. Cardinality(0..n) <= Cardinality(taken)
    BY <1>1, FS_Subset
  <2>2. Cardinality(0..n) = n + 1
    BY <1>4, FS_Interval
  <2> QED
    BY <1>4, <2>1, <2>2
<1>6. Min(free) \in free
  <2>1. free \in SUBSET Nat
    BY <1>4
  <2> HIDE DEF free
  <2> QED
    BY <1>5, <2>1, MinIs
<1> QED
  BY <1>2, <1>3, <1>6

-----------------------------------------------------------------------------
(* The movs of a block, if it has one child, or none of them has phis.      *)
LEMMA MovsIntoAre ==
  ASSUME NEW f, IsFunc(f), NEW b \in Blocks(f), NEW c \in Blocks(f)
  PROVE  /\ IsSeq(MovsInto(f, c, b))
         /\ c \notin Children(f, b) \/ NumPhis(f, c) = 0 => MovsInto(f, c, b) = <<>>
         /\ c \in Children(f, b) =>
              /\ Len(MovsInto(f, c, b)) = NumPhis(f, c)
              /\ \A i \in 1..NumPhis(f, c) :
                   MovsInto(f, c, b)[i] = [op |-> "mov", defs |-> f.blocks[c][i].defs, uses |-> <<f.blocks[c][i].from[b]>>]
<1> DEFINE M == MovsInto(f, c, b)
           k == NumPhis(f, c)
<1>1. k \in Nat /\ DOMAIN Phis(f, c) = 1..k /\ \A i \in 1..k : Phis(f, c)[i] = f.blocks[c][i]
  BY PhisAre, InstrsAre
<1>2. CASE c \notin Children(f, b)
  <2>1. M = <<>>
    BY <1>2 DEF MovsInto
  <2>2. IsSeq(<<>>)
    BY DEF IsSeq, ToSet
  <2> QED
    BY <1>2, <2>1, <2>2
<1>3. CASE c \in Children(f, b)
  <2>1. M = [i \in 1..k |-> [op |-> "mov", defs |-> Phis(f, c)[i].defs, uses |-> <<Phis(f, c)[i].from[b]>>]]
    BY <1>1, <1>3 DEF MovsInto
  <2>2. DOMAIN M = 1..k /\ \A i \in 1..k : M[i] \in ToSet(M)
    BY <2>1 DEF ToSet
  <2>3. M \in [1..k -> ToSet(M)]
    <3>1. M = [i \in 1..k |-> M[i]]
      BY <2>1
    <3> HIDE DEF M
    <3> QED
      BY <2>2, <3>1
  <2> HIDE DEF M, k
  <2>4. M \in Seq(ToSet(M)) /\ Len(M) = k
    BY <1>1, <2>3
  <2>5. k = 0 => M = <<>>
    BY <2>4
  <2>6. \A i \in 1..k : M[i] = [op |-> "mov", defs |-> f.blocks[c][i].defs, uses |-> <<f.blocks[c][i].from[b]>>]
    BY <1>1, <2>1
  <2> QED
    BY <1>3, <2>4, <2>5, <2>6 DEF IsSeq, M, k
<1> QED
  BY <1>2, <1>3

Collects(g, f, b) ==
  g = [n \in 0..Len(f.blocks) |-> IF n = 0 THEN <<>> ELSE g[n - 1] \o MovsInto(f, n, b)]

LEMMA MovsOfAre ==
  ASSUME NEW f, IsFunc(f), NEW b \in Blocks(f), NEW h, Collects(h, f, b)
  PROVE  MovsOf(f, b) = h[Len(f.blocks)]
<1> DEFINE n == Len(f.blocks)
           g == CHOOSE x : Collects(x, f, b)
           Bad == {i \in Nat : i <= n /\ g[i] # h[i]}
<1>1. n \in Nat
  BY BlocksAre
<1>2. Collects(g, f, b)
  OBVIOUS
<1>3. MovsOf(f, b) = g[n]
  BY DEF MovsOf, Collects
<1> HIDE DEF g, n
<1>4. SUFFICES ASSUME Bad # {} PROVE FALSE
  <2>1. n \notin Bad
    BY <1>4
  <2>2. g[n] = h[n]
    BY <1>1, <2>1
  <2> QED
    BY <1>3, <2>2 DEF n
<1>5. PICK i \in Bad : \A j \in Bad : i <= j
  BY <1>4, SmallestElement
<1>6. CASE i = 0
  BY <1>1, <1>2, <1>5, <1>6 DEF Collects, n
<1>7. CASE i # 0
  <2>1. i \in 0..n /\ i - 1 \in Nat /\ i - 1 <= n /\ i - 1 \notin Bad
    BY <1>1, <1>5, <1>7
  <2>2. g[i] = g[i - 1] \o MovsInto(f, i, b) /\ h[i] = h[i - 1] \o MovsInto(f, i, b)
    BY <1>2, <1>7, <2>1 DEF Collects, n
  <2>3. g[i - 1] = h[i - 1]
    BY <2>1
  <2> QED
    BY <1>5, <2>2, <2>3
<1> QED
  BY <1>6, <1>7

LEMMA EmptyConcat ==
  ASSUME NEW s, IsSeq(s)
  PROVE  s \o <<>> = s /\ <<>> \o s = s
  BY DEF IsSeq

LEMMA NoMovs ==
  ASSUME NEW f, IsFunc(f), NEW b \in Blocks(f), \A c \in Children(f, b) : NumPhis(f, c) = 0
  PROVE  MovsOf(f, b) = <<>>
<1> DEFINE h == [n \in 0..Len(f.blocks) |-> <<>>]
<1>1. Len(f.blocks) \in Nat /\ Blocks(f) = 1..Len(f.blocks)
  BY BlocksAre
<1>2. \A n \in 1..Len(f.blocks) : MovsInto(f, n, b) = <<>>
  BY <1>1, MovsIntoAre
<1>3. <<>> \o <<>> = <<>>
  OBVIOUS
<1>4. Collects(h, f, b)
  <2>1. \A n \in 0..Len(f.blocks) : n # 0 => h[n - 1] \o MovsInto(f, n, b) = <<>>
    BY <1>1, <1>2, <1>3
  <2>2. [n \in 0..Len(f.blocks) |-> IF n = 0 THEN <<>> ELSE h[n - 1] \o MovsInto(f, n, b)] = h
    BY <2>1
  <2> QED
    BY <2>2 DEF Collects
<1>5. MovsOf(f, b) = h[Len(f.blocks)]
  <2> HIDE DEF h
  <2> QED
    BY <1>4, MovsOfAre
<1> QED
  BY <1>1, <1>5

LEMMA MovsOfOne ==
  ASSUME NEW f, IsFunc(f), NEW b \in Blocks(f), NEW c \in Blocks(f), Children(f, b) = {c}
  PROVE  MovsOf(f, b) = MovsInto(f, c, b)
<1> DEFINE M == MovsInto(f, c, b)
           h == [n \in 0..Len(f.blocks) |-> IF n < c THEN <<>> ELSE M]
<1>1. Len(f.blocks) \in Nat /\ Blocks(f) = 1..Len(f.blocks)
  BY BlocksAre
<1>2. \A n \in 1..Len(f.blocks) : n # c => MovsInto(f, n, b) = <<>>
  BY <1>1, MovsIntoAre
<1>3. IsSeq(M) /\ M \o <<>> = M /\ <<>> \o M = M /\ <<>> \o <<>> = <<>>
  BY MovsIntoAre, EmptyConcat
<1>4. Collects(h, f, b)
  <2>1. ASSUME NEW n \in 0..Len(f.blocks), n # 0 PROVE h[n - 1] \o MovsInto(f, n, b) = h[n]
    <3>0. n \in 1..Len(f.blocks) /\ n - 1 \in 0..Len(f.blocks) /\ c \in 1..Len(f.blocks)
      BY <1>1, <2>1
    <3>1. CASE n < c
      BY <1>2, <1>3, <3>0, <3>1
    <3>2. CASE n = c
      BY <1>3, <3>0, <3>2
    <3>3. CASE n > c
      <4>1. ~(n - 1 < c) /\ ~(n < c) /\ n # c
        BY <3>0, <3>3
      <4> QED
        BY <1>2, <1>3, <3>0, <4>1
    <3> QED
      BY <3>0, <3>1, <3>2, <3>3
  <2>2. h[0] = <<>>
    BY <1>1
  <2>3. [n \in 0..Len(f.blocks) |-> IF n = 0 THEN <<>> ELSE h[n - 1] \o MovsInto(f, n, b)] = h
    <3>1. \A n \in 0..Len(f.blocks) : (IF n = 0 THEN <<>> ELSE h[n - 1] \o MovsInto(f, n, b)) = h[n]
      BY <2>1, <2>2
    <3>2. h = [n \in 0..Len(f.blocks) |-> h[n]]
      OBVIOUS
    <3> HIDE DEF h
    <3> QED
      BY <3>1, <3>2
  <2> QED
    BY <2>3 DEF Collects
<1>5. MovsOf(f, b) = h[Len(f.blocks)]
  <2> HIDE DEF h
  <2> QED
    BY <1>4, MovsOfAre
<1>6. h[Len(f.blocks)] = M
  BY <1>1
<1> QED
  BY <1>5, <1>6

LEMMA ConcatIs ==
  ASSUME NEW S, NEW s \in Seq(S), NEW t \in Seq(S)
  PROVE  /\ s \o t \in Seq(S) /\ Len(s \o t) = Len(s) + Len(t)
         /\ \A i \in 1..Len(s) : (s \o t)[i] = s[i]
         /\ \A i \in 1..Len(t) : (s \o t)[Len(s) + i] = t[i]
<1>1. Len(s) \in Nat /\ Len(t) \in Nat
  OBVIOUS
<1>2. s \o t \in Seq(S) /\ Len(s \o t) = Len(s) + Len(t)
  OBVIOUS
<1>3. ASSUME NEW i \in 1..Len(s) PROVE (s \o t)[i] = s[i]
  OBVIOUS
<1>4. ASSUME NEW i \in 1..Len(t) PROVE (s \o t)[Len(s) + i] = t[i]
  <2>1. Len(s) + i \in 1..(Len(s) + Len(t)) /\ Len(s) + i > Len(s) /\ Len(s) + i - Len(s) = i
    BY <1>1
  <2> QED
    BY <2>1
<1> QED
  BY <1>2, <1>3, <1>4

(* The instructions of a block after the phis were resolved.                *)
LEMMA ResolvedIs ==
  ASSUME NEW f, IsFunc(f), NEW b \in Blocks(f), IsSeq(MovsOf(f, b))
  PROVE  LET R == ResolvePhisInFunc(f)[b]
             k == NumPhis(f, b)
             own == Len(f.blocks[b]) - 1 - k
             m == Len(MovsOf(f, b))
         IN /\ own \in Nat /\ m \in Nat /\ k \in Nat /\ Len(R) = own + m + 1
            /\ \A i \in 1..own : R[i] = f.blocks[b][k + i]
            /\ \A i \in 1..m : R[own + i] = MovsOf(f, b)[i]
            /\ R[own + m + 1] = LastInstr(f, b)
<1> DEFINE k == NumPhis(f, b)
           s == f.blocks[b]
           n == Len(s)
           M == MovsOf(f, b)
           A == SubSeq(s, k + 1, n - 1)
           L == <<LastInstr(f, b)>>
           S == ToSet(s) \cup ToSet(M) \cup {LastInstr(f, b)}
<1>1. n \in Nat \ {0} /\ s \in Seq(ToSet(s)) /\ k \in 0..(n - 1)
  BY InstrsAre, SeqFacts, PhisAre
<1>2. M \in Seq(ToSet(M)) /\ Len(M) \in Nat
  BY SeqFacts
<1>3. ResolvePhisInFunc(f)[b] = A \o M \o L
  BY DEF ResolvePhisInFunc
<1> HIDE DEF k, s, M, L
<1>4. A \in Seq(ToSet(s)) /\ Len(A) = n - 1 - k /\ \A i \in 1..(n - 1 - k) : A[i] = s[k + i]
  <2>1. CASE k = n - 1
    BY <1>1, <2>1
  <2>2. CASE k < n - 1
    BY <1>1, <2>2
  <2> QED
    BY <1>1, <2>1, <2>2
<1> HIDE DEF n, A
<1>5. A \in Seq(S) /\ M \in Seq(S)
  BY <1>2, <1>4
<1>6. L \in Seq(S) /\ Len(L) = 1 /\ L[1] = LastInstr(f, b)
  BY DEF L
<1> HIDE DEF S
<1>7. /\ A \o M \in Seq(S) /\ Len(A \o M) = n - 1 - k + Len(M)
      /\ \A i \in 1..(n - 1 - k) : (A \o M)[i] = A[i]
      /\ \A i \in 1..Len(M) : (A \o M)[n - 1 - k + i] = M[i]
  <2>1. /\ A \o M \in Seq(S) /\ Len(A \o M) = Len(A) + Len(M)
        /\ \A i \in 1..Len(A) : (A \o M)[i] = A[i]
        /\ \A i \in 1..Len(M) : (A \o M)[Len(A) + i] = M[i]
    BY <1>5, ConcatIs
  <2> QED
    BY <1>4, <2>1
<1> DEFINE B == A \o M
<1>8. /\ Len(B \o L) = n - 1 - k + Len(M) + 1
      /\ \A i \in 1..(n - 1 - k + Len(M)) : (B \o L)[i] = B[i]
      /\ (B \o L)[n - 1 - k + Len(M) + 1] = L[1]
  <2>1. B \in Seq(S) /\ Len(B) = n - 1 - k + Len(M)
    BY <1>7
  <2> HIDE DEF B
  <2>2. /\ Len(B \o L) = Len(B) + Len(L)
        /\ \A i \in 1..Len(B) : (B \o L)[i] = B[i]
        /\ \A i \in 1..Len(L) : (B \o L)[Len(B) + i] = L[i]
    BY <1>6, <2>1, ConcatIs
  <2> QED
    BY <1>6, <2>1, <2>2
<1>9. \A i \in 1..(n - 1 - k) : (B \o L)[i] = s[k + i]
  BY <1>1, <1>2, <1>4, <1>7, <1>8
<1>10. \A i \in 1..Len(M) : (B \o L)[n - 1 - k + i] = M[i]
  <2> SUFFICES ASSUME NEW i \in 1..Len(M) PROVE (B \o L)[n - 1 - k + i] = M[i]
    OBVIOUS
  <2>1. n - 1 - k + i \in 1..(n - 1 - k + Len(M))
    BY <1>1, <1>2
  <2> QED
    BY <1>7, <1>8, <2>1
<1>11. n - 1 - k \in Nat /\ k \in Nat /\ n - 1 - k = Len(s) - 1 - k
  BY <1>1 DEF n
<1>12. ResolvePhisInFunc(f)[b] = B \o L
  BY <1>3
<1> HIDE DEF B
<1> QED
  <2> DEFINE R == ResolvePhisInFunc(f)[b]
             own == Len(f.blocks[b]) - 1 - NumPhis(f, b)
             m == Len(MovsOf(f, b))
  <2>1. own = n - 1 - k /\ m = Len(M) /\ R = B \o L
    BY <1>11, <1>12 DEF s, k, M
  <2> HIDE DEF own, m, R
  <2>2. own \in Nat /\ m \in Nat /\ Len(R) = own + m + 1 /\ R[own + m + 1] = LastInstr(f, b)
    BY <1>2, <1>6, <1>8, <1>11, <2>1
  <2>3. \A i \in 1..own : R[i] = s[k + i]
    BY <1>9, <2>1
  <2>4. \A i \in 1..m : R[own + i] = M[i]
    BY <1>10, <2>1
  <2> QED
    BY <1>11, <2>2, <2>3, <2>4 DEF own, m, R, k, s, M

-----------------------------------------------------------------------------
(* The invariants.                                                         *)
RangesInv ==
  /\ func \in Funcs
  /\ phase \in {"propagate", "color", "undefined", "run"}
  /\ DOMAIN ranges = Blocks(func) /\ queue \subseteq Blocks(func)
  /\ \A b \in Blocks(func) : Sound(func, b, ranges[b]) /\ ExitSet(ranges[b]) \subseteq LiveOut(func, b)
  /\ Told(func, ranges, queue)
  /\ phase # "propagate" => queue = {}

ColorsInv ==
  /\ phase = "propagate" => colors = <<>>
  /\ phase # "propagate" => graph = BuildInterferenceGraph(func, ranges) /\ ProperColors(graph, colors)
  /\ phase = "color" => DOMAIN colors \subseteq graph.nodes
  /\ phase = "run" => DOMAIN colors = graph.nodes
  /\ phase # "run" => pos = <<1, 1>>

Shaped ==
  \/ SwappedPhis(func) \/ CriticalPhi(func) \/ UnusedPhi(func, ranges)
  \/ UnusedResult(func, ranges) \/ ArgElsewhere(func, colors)

\* The instructions of the function that come before the movs.
Own(f, b) == Len(f.blocks[b]) - 1 - NumPhis(f, b)

\* The value that is defined by phi l of the block.
PhiResult(f, c, l) == f.blocks[c][l].defs[1]

\* Before instruction i, what is live and defined is in its register.
LiveHold(b, i) ==
  \A v \in LiveAfter(func, b, ExitSet(ranges[b]), i - 1) :
    DefinedBefore(func, b, i, v) => regs[colors[v]] = env[v]

\* After j movs, the first j phis have theirs, the other values too.
Moved(b, j) ==
  \A c \in Children(func, b) :
    /\ \A l \in 1..j : regs[colors[PhiResult(func, c, l)]] = Inherited(func.blocks[c][l], b)
    /\ \A v \in ExitSet(ranges[b]) :
         DefinedBefore(func, b, Len(func.blocks[b]) + 1, v) /\ (\A l \in 1..j : v # PhiResult(func, c, l))
           => regs[colors[v]] = env[v]

Movs(f, b) == Len(MovsOf(f, b))

RunsRight ==
  /\ DOMAIN env = AllValues(func)
  /\ \A v \in DOMAIN colors : colors[v] \in DOMAIN regs
  /\ pos[1] \in Blocks(func) /\ pos[2] \in 1..(Own(func, pos[1]) + Movs(func, pos[1]) + 1)
  /\ pos[2] <= Own(func, pos[1]) + 1 => LiveHold(pos[1], NumPhis(func, pos[1]) + pos[2])
  /\ pos[2] > Own(func, pos[1]) + 1 => Moved(pos[1], pos[2] - Own(func, pos[1]) - 1)

RunInv == phase = "run" => Shaped \/ RunsRight

AllocationInv == RangesInv /\ ColorsInv /\ RunInv

LEMMA FuncIs ==
  ASSUME RangesInv
  PROVE  IsFunc(func)
  BY FuncsAssumption DEF RangesInv

LEMMA EntrySetFinite ==
  ASSUME NEW f, IsFunc(f), NEW b \in Blocks(f), NEW r, Sound(f, b, r)
  PROVE  IsFiniteSet(EntrySet(r)) /\ EntrySet(r) \subseteq AllValues(f)
<1>1. EntrySet(r) \subseteq AllValues(f)
  BY DEF EntrySet, Sound
<1> QED
  BY <1>1, AllValuesFinite, FS_Subset

LEMMA RangesInit ==
  ASSUME Init
  PROVE  RangesInv
<1>1. func \in Funcs /\ IsFunc(func) /\ phase = "propagate"
  BY FuncsAssumption DEF Init
<1>2. DOMAIN ranges = Blocks(func) /\ \A b \in Blocks(func) : ranges[b] = BacktraceBlock(func, b)
  BY DEF Init
<1>3. \A b \in Blocks(func) : Sound(func, b, ranges[b]) /\ ExitSet(ranges[b]) \subseteq InheritedFrom(func, b)
  BY <1>1, <1>2, BacktraceSound
<1>4. \A b \in Blocks(func) : ExitSet(ranges[b]) \subseteq LiveOut(func, b)
  BY <1>3 DEF LiveOut
<1>5. queue = {b \in Blocks(func) : EntrySet(ranges[b]) # {}}
  BY DEF Init
<1>6. Told(func, ranges, queue)
  BY <1>5 DEF Told
<1> QED
  BY <1>1, <1>2, <1>3, <1>4, <1>5, <1>6 DEF RangesInv

LEMMA RangesPropagate ==
  ASSUME RangesInv, Propagate
  PROVE  RangesInv'
<1>1. IsFunc(func)
  BY FuncIs
<1>2. PICK b \in queue :
        LET new == [p \in Blocks(func) |->
                      IF p \in Parents(func, b)
                        THEN PropagateBackwards(ranges[p], EntrySet(ranges[b])) ELSE ranges[p]]
        IN ranges' = new /\ queue' = (queue \ {b}) \cup Queued(b, ranges, new)
  BY DEF Propagate
<1>3. phase = "propagate" /\ phase' = phase /\ func' = func
  BY DEF Propagate
<1>4. DOMAIN ranges' = Blocks(func) /\ queue' = (queue \ {b}) \cup Queued(b, ranges, ranges')
  BY <1>2
<1>5. ASSUME NEW p \in Blocks(func)
      PROVE  ranges'[p] = IF p \in Parents(func, b) THEN PropagateBackwards(ranges[p], EntrySet(ranges[b])) ELSE ranges[p]
  BY <1>2
<1>6. b \in Blocks(func) /\ \A p \in Blocks(func) : Sound(func, p, ranges[p]) /\ ExitSet(ranges[p]) \subseteq LiveOut(func, p)
  BY DEF RangesInv
<1>7. EntrySet(ranges[b]) \subseteq LiveIn(func, b) /\ EntrySet(ranges[b]) \subseteq AllValues(func)
  BY <1>1, <1>6, EntryIsLive, EntrySetFinite
<1>8. ASSUME NEW p \in Blocks(func)
      PROVE  /\ Sound(func, p, ranges'[p]) /\ ExitSet(ranges'[p]) \subseteq LiveOut(func, p)
             /\ ExitSet(ranges[p]) \subseteq ExitSet(ranges'[p])
             /\ EntrySet(ranges[p]) \subseteq EntrySet(ranges'[p])
             /\ p \in Parents(func, b) => EntrySet(ranges[b]) \subseteq ExitSet(ranges'[p])
             /\ p \notin Parents(func, b) => ranges'[p] = ranges[p]
  <2>1. CASE p \in Parents(func, b)
    <3>1. ranges'[p] = PropagateBackwards(ranges[p], EntrySet(ranges[b]))
      BY <1>5, <2>1
    <3>2. /\ Sound(func, p, ranges'[p])
          /\ ExitSet(ranges'[p]) = ExitSet(ranges[p]) \cup EntrySet(ranges[b])
          /\ EntrySet(ranges[p]) \subseteq EntrySet(ranges'[p])
      BY <1>1, <1>6, <1>7, <3>1, PropagateAdds
    <3>3. LiveIn(func, b) \subseteq LiveOut(func, p)
      BY <2>1 DEF LiveOut, Parents
    <3> QED
      BY <1>6, <1>7, <2>1, <3>2, <3>3
  <2>2. CASE p \notin Parents(func, b)
    BY <1>5, <1>6, <2>2
  <2> QED
    BY <2>1, <2>2
<1>9. ASSUME NEW c \in Blocks(func), c \notin Queued(b, ranges, ranges')
      PROVE  EntrySet(ranges'[c]) = EntrySet(ranges[c])
  <2>1. CASE c \notin Parents(func, b)
    BY <1>8, <2>1
  <2>2. CASE c \in Parents(func, b)
    <3>1. ~(Cardinality(EntrySet(ranges[c])) < Cardinality(EntrySet(ranges'[c])))
      BY <1>9, <2>2 DEF Queued
    <3>2. EntrySet(ranges[c]) \subseteq EntrySet(ranges'[c]) /\ IsFiniteSet(EntrySet(ranges'[c]))
      BY <1>1, <1>8, EntrySetFinite
    <3> QED
      BY <3>1, <3>2, FS_Subset, FS_CardinalityType
  <2> QED
    BY <2>1, <2>2
<1>10. \A c \in Blocks(func) : \A p \in Parents(func, c) : c \in queue' \/ EntrySet(ranges'[c]) \subseteq ExitSet(ranges'[p])
  <2> SUFFICES ASSUME NEW c \in Blocks(func), NEW p \in Parents(func, c), c \notin queue'
               PROVE  EntrySet(ranges'[c]) \subseteq ExitSet(ranges'[p])
    OBVIOUS
  <2>1. p \in Blocks(func) /\ EntrySet(ranges'[c]) = EntrySet(ranges[c])
    BY <1>4, <1>9 DEF Parents
  <2>2. CASE c = b
    BY <1>8, <2>1, <2>2
  <2>3. CASE c # b
    <3>1. EntrySet(ranges[c]) \subseteq ExitSet(ranges[p])
      BY <1>4, <2>3 DEF RangesInv, Told
    <3> QED
      BY <1>8, <2>1, <3>1
  <2> QED
    BY <2>2, <2>3
<1>11. queue' \subseteq Blocks(func)
  BY <1>4, <1>6 DEF Queued, Parents, RangesInv
<1> QED
  BY <1>3, <1>4, <1>8, <1>10, <1>11 DEF RangesInv, Told

LEMMA RangesKeeps ==
  ASSUME RangesInv, [Next]_vars
  PROVE  RangesInv'
<1>1. CASE Propagate
  BY <1>1, RangesPropagate
<1>2. CASE UNCHANGED <<func, queue, ranges>> /\ phase' \in {"color", "undefined", "run", phase} /\ (phase' # "propagate" => queue = {})
  BY <1>2 DEF RangesInv, Told
<1>3. ASSUME BuildGraph \/ ColorValue \/ Enter \/ RunMov \/ RunOp \/ RunJump \/ UNCHANGED vars
      PROVE  UNCHANGED <<func, queue, ranges>> /\ phase' \in {"color", "undefined", "run", phase} /\ (phase' # "propagate" => queue = {})
  <2>1. CASE BuildGraph
    BY <2>1 DEF BuildGraph, run
  <2>2. CASE ColorValue
    BY <2>2 DEF ColorValue, run, RangesInv
  <2>3. CASE Enter
    BY <2>3 DEF Enter, run, RangesInv
  <2>4. CASE RunMov \/ RunOp \/ RunJump
    BY <2>4 DEF RunMov, RunOp, RunJump, RangesInv
  <2>5. CASE UNCHANGED vars
    BY <2>5 DEF vars, RangesInv
  <2> QED
    BY <1>3, <2>1, <2>2, <2>3, <2>4, <2>5
<1> QED
  BY <1>1, <1>2, <1>3 DEF Next, Allocate

LEMMA RangesHold == Spec => []RangesInv
<1>1. Init => RangesInv
  BY RangesInit
<1>2. RangesInv /\ [Next]_vars => RangesInv'
  BY RangesKeeps
<1> QED
  BY <1>1, <1>2, PTL DEF Spec

\* FindLiveRangesForFunc ends with the liveness by paths, whatever the order
\* in which the worklist hands out the blocks.
THEOREM LiveRangesAreRight == Spec => []RangesAreLiveness
<1>1. ASSUME RangesInv PROVE RangesAreLiveness
  <2> SUFFICES ASSUME phase \in {"color", "undefined"}, NEW b \in Blocks(func)
               PROVE  /\ EntrySet(ranges[b]) = LiveIn(func, b)
                      /\ (UNION {LiveIn(func, c) : c \in Children(func, b)}) \cup InheritedFrom(func, b)
                           = ExitSet(ranges[b])
    BY DEF RangesAreLiveness
  <2>1. IsFunc(func)
    BY <1>1, FuncIs
  <2>2. Told(func, ranges, {}) /\ \A c \in Blocks(func) : Sound(func, c, ranges[c]) /\ ExitSet(ranges[c]) \subseteq LiveOut(func, c)
    BY <1>1 DEF RangesInv
  <2>3. \A c \in Blocks(func) : EntrySet(ranges[c]) = LiveIn(func, c)
    <3> SUFFICES ASSUME NEW c \in Blocks(func) PROVE EntrySet(ranges[c]) = LiveIn(func, c)
      OBVIOUS
    <3>1. EntrySet(ranges[c]) \subseteq LiveIn(func, c)
      BY <2>1, <2>2, EntryIsLive
    <3>2. LiveIn(func, c) \subseteq EntrySet(ranges[c])
      BY <2>1, <2>2, LiveIsEntry
    <3> QED
      BY <3>1, <3>2
  <2>4. \A c \in Children(func, b) : c \in Blocks(func) /\ b \in Parents(func, c)
    BY <2>1, InstrsAre DEF Parents
  <2>5. \A c \in Children(func, b) : LiveIn(func, c) \subseteq ExitSet(ranges[b])
    BY <2>2, <2>3, <2>4 DEF Told
  <2>6. (UNION {LiveIn(func, c) : c \in Children(func, b)}) \cup InheritedFrom(func, b) \subseteq ExitSet(ranges[b])
    BY <2>2, <2>5 DEF Sound
  <2>7. ExitSet(ranges[b]) \subseteq (UNION {LiveIn(func, c) : c \in Children(func, b)}) \cup InheritedFrom(func, b)
    BY <2>2 DEF LiveOut
  <2> QED
    BY <2>3, <2>6, <2>7
<1> QED
  BY <1>1, RangesHold, PTL

LEMMA ColorsInit ==
  ASSUME Init
  PROVE  ColorsInv
  BY DEF Init, ColorsInv

LEMMA ColorValueKeeps ==
  ASSUME RangesInv, ColorsInv, ColorValue
  PROVE  ColorsInv'
<1>1. PICK v \in graph.nodes \ DOMAIN colors :
        colors' = [w \in DOMAIN colors \cup {v} |-> IF w = v THEN ColorOf(func, graph, colors, v) ELSE colors[w]]
  BY DEF ColorValue
<1>2. phase = "color" /\ UNCHANGED <<func, phase, ranges, graph, pos>>
  BY DEF ColorValue, run
<1>3. graph = BuildInterferenceGraph(func, ranges) /\ ProperColors(graph, colors)
  BY <1>2 DEF ColorsInv
<1>4. DOMAIN colors' = DOMAIN colors \cup {v} /\ colors'[v] = ColorOf(func, graph, colors, v)
      /\ \A w \in DOMAIN colors : colors'[w] = colors[w]
  BY <1>1
<1>5. IsFiniteSet(Neighbors(graph, v))
  <2>1. IsFunc(func) /\ \A b \in Blocks(func) : Sound(func, b, ranges[b])
    BY FuncIs DEF RangesInv
  <2>2. \A e \in graph.edges : e \subseteq AllValues(func)
    BY <1>3, <2>1, EdgesBetweenValues
  <2>3. Neighbors(graph, v) \subseteq AllValues(func)
    BY <2>2 DEF Neighbors
  <2> QED
    BY <2>1, <2>3, AllValuesFinite, FS_Subset
<1>6. ASSUME NEW w \in DOMAIN colors, {v, w} \in graph.edges PROVE colors'[v] # colors'[w]
  <2>1. w # v
    BY <1>1
  <2> QED
    BY <1>4, <1>5, <1>6, <2>1, ColorDiffers
<1>7. ProperColors(graph, colors')
  <2> SUFFICES ASSUME NEW x \in DOMAIN colors', NEW y \in DOMAIN colors', x # y, {x, y} \in graph.edges
               PROVE  colors'[x] # colors'[y]
    BY DEF ProperColors
  <2>1. {x, y} = {y, x}
    OBVIOUS
  <2>2. CASE x = v
    BY <1>4, <1>6, <2>2
  <2>3. CASE y = v
    BY <1>4, <1>6, <2>1, <2>3
  <2>4. CASE x # v /\ y # v
    BY <1>3, <1>4, <2>4 DEF ProperColors
  <2> QED
    BY <2>2, <2>3, <2>4
<1>8. DOMAIN colors' \subseteq graph.nodes
  BY <1>1, <1>2, <1>4 DEF ColorsInv
<1> QED
  BY <1>2, <1>3, <1>7, <1>8 DEF ColorsInv

LEMMA ColorsKeep ==
  ASSUME RangesInv, ColorsInv, [Next]_vars
  PROVE  ColorsInv'
<1>1. CASE Propagate
  BY <1>1 DEF Propagate, ColorsInv, run
<1>2. CASE BuildGraph
  <2>1. colors = <<>> /\ colors' = colors /\ DOMAIN colors = {}
    BY <1>2 DEF BuildGraph, ColorsInv
  <2>2. ProperColors(graph', colors')
    BY <2>1 DEF ProperColors
  <2> QED
    BY <1>2, <2>1, <2>2 DEF BuildGraph, ColorsInv, run
<1>3. CASE ColorValue
  BY <1>3, ColorValueKeeps
<1>4. CASE Enter
  BY <1>4 DEF Enter, ColorsInv
<1>5. CASE RunMov \/ RunOp \/ RunJump
  BY <1>5 DEF RunMov, RunOp, RunJump, ColorsInv
<1>6. CASE UNCHANGED vars
  BY <1>6 DEF vars, ColorsInv
<1> QED
  BY <1>1, <1>2, <1>3, <1>4, <1>5, <1>6 DEF Next, Allocate

-----------------------------------------------------------------------------
(* What the invariants say of a function with none of the five shapes.      *)

LEMMA DefinitionsHas ==
  ASSUME NEW f, NEW v, NEW b \in Blocks(f), NEW i \in DOMAIN f.blocks[b], v \in ToSet(f.blocks[b][i].defs)
  PROVE  <<b, i>> \in Definitions(f, v)
<1>1. <<b, i>> \in UNION {{c} \X DOMAIN f.blocks[c] : c \in Blocks(f)}
  OBVIOUS
<1> QED
  BY <1>1 DEF Definitions

LEMMA DefinitionsAre ==
  ASSUME NEW f, IsFunc(f), NEW v, NEW d \in Definitions(f, v)
  PROVE  /\ d[1] \in Blocks(f) /\ d[2] \in 1..Len(f.blocks[d[1]]) /\ d = <<d[1], d[2]>>
         /\ v \in ToSet(f.blocks[d[1]][d[2]].defs)
<1>1. PICK b \in Blocks(f) : d \in {b} \X DOMAIN f.blocks[b]
  BY DEF Definitions
<1>2. DOMAIN f.blocks[b] = 1..Len(f.blocks[b])
  BY InstrsAre
<1> QED
  BY <1>1, <1>2 DEF Definitions

\* A value has one definition.
LEMMA DefinedOnce ==
  ASSUME NEW f, IsFunc(f), NEW v, NEW b \in Blocks(f), NEW i \in 1..Len(f.blocks[b]), v \in ToSet(f.blocks[b][i].defs),
         NEW c \in Blocks(f), NEW j \in 1..Len(f.blocks[c]), v \in ToSet(f.blocks[c][j].defs)
  PROVE  b = c /\ i = j /\ v \in AllValues(f)
<1>1. i \in DOMAIN f.blocks[b] /\ j \in DOMAIN f.blocks[c]
  BY InstrsAre
<1>2. <<b, i>> \in Definitions(f, v) /\ <<c, j>> \in Definitions(f, v)
  BY <1>1, DefinitionsHas
<1>3. v \in AllValues(f)
  BY <1>1, DefinedInHas, AllValuesHas
<1>4. <<b, i>> = <<c, j>>
  BY <1>2, <1>3 DEF IsFunc
<1> QED
  BY <1>3, <1>4

LEMMA DefinedOnceIn ==
  ASSUME NEW f, IsFunc(f), NEW v, NEW b \in Blocks(f), NEW i, NEW j, i \in 1..Len(f.blocks[b]), j \in 1..Len(f.blocks[b]),
         v \in ToSet(f.blocks[b][i].defs), v \in ToSet(f.blocks[b][j].defs)
  PROVE  i = j
<1>1. i \in DOMAIN f.blocks[b] /\ j \in DOMAIN f.blocks[b]
  BY InstrsAre
<1>2. <<b, i>> \in Definitions(f, v) /\ <<b, j>> \in Definitions(f, v) /\ v \in AllValues(f)
  BY <1>1, DefinitionsHas, DefinedInHas, AllValuesHas
<1>3. <<b, i>> = <<b, j>>
  BY <1>2 DEF IsFunc
<1> QED
  BY <1>3

LEMMA ZeroIsNoValue ==
  ASSUME NEW f, IsFunc(f)
  PROVE  0 \notin AllValues(f)
<1>1. 0 \notin ToSet(f.args)
  BY DEF IsFunc
<1>2. ASSUME NEW b \in Blocks(f) PROVE 0 \notin DefinedIn(f, b)
  <2>1. \A i \in DOMAIN f.blocks[b] : 0 \notin ToSet(f.blocks[b][i].defs)
    BY InstrsAre DEF IsInstr
  <2> QED
    BY <2>1, DefinedInHas
<1> QED
  BY <1>1, <1>2, AllValuesHas

\* What is live somewhere in a block has a node.
LEMMA LiveHasNode ==
  ASSUME NEW f, IsFunc(f), NEW rs, NEW b \in Blocks(f)
  PROVE  /\ \A i \in Nat : LiveAfter(f, b, ExitSet(rs[b]), i) \subseteq BuildInterferenceGraph(f, rs).nodes
         /\ ExitSet(rs[b]) \subseteq BuildInterferenceGraph(f, rs).nodes
         /\ \A i \in 1..Len(f.blocks[b]) : ToSet(f.blocks[b][i].defs) \subseteq BuildInterferenceGraph(f, rs).nodes
<1> DEFINE nodes == BuildInterferenceGraph(f, rs).nodes
<1>0. DOMAIN f.blocks[b] = 1..Len(f.blocks[b])
  BY InstrsAre
<1>1. DefinedIn(f, b) \cup UsedIn(f, b) \cup ExitSet(rs[b]) \subseteq nodes
  BY DEF BuildInterferenceGraph
<1>2. ASSUME NEW i \in 1..Len(f.blocks[b]) PROVE ToSet(f.blocks[b][i].defs) \subseteq nodes
  BY <1>0, <1>1, DefinedInHas
<1>3. ASSUME NEW i \in Nat, NEW v \in LiveAfter(f, b, ExitSet(rs[b]), i) PROVE v \in nodes
  <2>1. v \in AllValues(f) /\ (v \in ExitSet(rs[b]) \/ \E j \in UsedBy(f, b, v) : TRUE)
    BY DEF LiveAfter
  <2>2. CASE v \in ExitSet(rs[b])
    BY <1>1, <2>2
  <2>3. ASSUME NEW j \in UsedBy(f, b, v) PROVE v \in nodes
    <3>1. j \in DOMAIN f.blocks[b] /\ v \in ToSet(f.blocks[b][j].uses)
      BY DEF UsedBy
    <3>2. v # 0
      BY <2>1, ZeroIsNoValue
    <3> QED
      BY <1>1, <3>1, <3>2, DefinedInHas
  <2> QED
    BY <2>1, <2>2, <2>3
<1> QED
  BY <1>1, <1>2, <1>3

LEMMA ExitApart ==
  ASSUME NEW f, NEW rs, NEW b \in Blocks(f), NEW v \in ExitSet(rs[b]), NEW w \in ExitSet(rs[b]), v # w
  PROVE  {v, w} \in BuildInterferenceGraph(f, rs).edges
<1>1. {v, w} \in AddEdgesIn(ExitSet(rs[b]))
  BY PairIs DEF AddEdgesIn
<1> QED
  BY <1>1, EdgesAre

LEMMA Apart ==
  ASSUME RangesInv, ColorsInv, phase = "run", NEW v, NEW w, v # w,
         v \in BuildInterferenceGraph(func, ranges).nodes, w \in BuildInterferenceGraph(func, ranges).nodes,
         {v, w} \in BuildInterferenceGraph(func, ranges).edges
  PROVE  colors[v] # colors[w]
  BY DEF ColorsInv, ProperColors

\* The movs of a block: those of the phis of every child.
LEMMA MovsAre ==
  ASSUME NEW f, IsFunc(f), NEW b \in Blocks(f), ~CriticalPhi(f)
  PROVE  /\ IsSeq(MovsOf(f, b)) /\ Len(MovsOf(f, b)) \in Nat
         /\ \A c \in Children(f, b) :
              /\ c \in Blocks(f) /\ Len(MovsOf(f, b)) = NumPhis(f, c)
              /\ \A i \in 1..NumPhis(f, c) :
                   MovsOf(f, b)[i] = [op |-> "mov", defs |-> f.blocks[c][i].defs, uses |-> <<f.blocks[c][i].from[b]>>]
              /\ NumPhis(f, c) # 0 => Children(f, b) = {c}
         /\ Len(MovsOf(f, b)) # 0 => Children(f, b) # {} /\ LastInstr(f, b).op = "jump"
<1>0. Children(f, b) \subseteq Blocks(f)
  BY InstrsAre
<1>1. ASSUME NEW c \in Children(f, b), NumPhis(f, c) # 0 PROVE Children(f, b) = {c}
  <2>1. b \in Parents(f, c) /\ c \in Blocks(f)
    BY <1>0 DEF Parents
  <2>2. Phis(f, c) # <<>>
    BY <1>1, <2>1, PhisAre
  <2>3. ~(Cardinality(Children(f, b)) > 1)
    BY <2>1, <2>2 DEF CriticalPhi
  <2>4. IsFiniteSet(Children(f, b)) /\ Cardinality(Children(f, b)) \in Nat
    BY <1>0, BlocksAre, FS_Subset, FS_CardinalityType
  <2> SUFFICES ASSUME NEW x \in Children(f, b), x # c PROVE FALSE
    BY <1>1
  <2>5. Cardinality({x, c}) = 2 /\ {x, c} \subseteq Children(f, b)
    BY PairIs
  <2>6. Cardinality({x, c}) <= Cardinality(Children(f, b))
    BY <2>4, <2>5, FS_Subset
  <2> QED
    BY <2>3, <2>4, <2>5, <2>6
<1>2. CASE \A c \in Children(f, b) : NumPhis(f, c) = 0
  <2>1. MovsOf(f, b) = <<>>
    BY <1>2, NoMovs
  <2>2. IsSeq(<<>>) /\ Len(<<>>) = 0
    BY DEF IsSeq, ToSet
  <2> QED
    BY <1>0, <1>2, <2>1, <2>2
<1>3. ASSUME NEW c \in Children(f, b), NumPhis(f, c) # 0
      PROVE  /\ IsSeq(MovsOf(f, b)) /\ Len(MovsOf(f, b)) = NumPhis(f, c) /\ Children(f, b) = {c}
             /\ c \in Blocks(f) /\ NumPhis(f, c) \in Nat
             /\ \A i \in 1..NumPhis(f, c) :
                  MovsOf(f, b)[i] = [op |-> "mov", defs |-> f.blocks[c][i].defs, uses |-> <<f.blocks[c][i].from[b]>>]
             /\ LastInstr(f, b).op = "jump"
  <2>1. Children(f, b) = {c} /\ c \in Blocks(f)
    BY <1>0, <1>1, <1>3
  <2>2. MovsOf(f, b) = MovsInto(f, c, b)
    BY <2>1, MovsOfOne
  <2>3. LastInstr(f, b).op \in {"jump", "cond", "ret"} /\ (LastInstr(f, b).op = "cond" => Cardinality(Children(f, b)) = 2)
        /\ (LastInstr(f, b).op = "ret" => Children(f, b) = {})
    <3>1. IsInstr(f, b, Len(f.blocks[b])) /\ LastInstr(f, b) = f.blocks[b][Len(f.blocks[b])] /\ Len(f.blocks[b]) \in Nat
      BY InstrsAre
    <3> QED
      BY <3>1 DEF IsInstr, Children
  <2>4. Cardinality({c}) = 1
    BY FS_Singleton
  <2>5. NumPhis(f, c) \in Nat
    BY <2>1, PhisAre, InstrsAre
  <2> QED
    BY <2>1, <2>2, <2>3, <2>4, <2>5, MovsIntoAre
<1> QED
  BY <1>2, <1>3

-----------------------------------------------------------------------------
(* The run of the function beside its allocated form.                      *)

LEMMA PhiIs ==
  ASSUME NEW f, IsFunc(f), NEW c \in Blocks(f), NEW l \in 1..NumPhis(f, c)
  PROVE  /\ l \in 1..Len(f.blocks[c]) /\ l \in DOMAIN f.blocks[c]
         /\ \A v : v \in ToSet(f.blocks[c][l].defs) <=> v = PhiResult(f, c, l)
         /\ DOMAIN f.blocks[c][l].from = Parents(f, c)
<1>1. NumPhis(f, c) \in 0..(Len(f.blocks[c]) - 1) /\ Len(f.blocks[c]) \in Nat /\ DOMAIN f.blocks[c] = 1..Len(f.blocks[c])
  BY PhisAre, InstrsAre
<1>2. l \in 1..Len(f.blocks[c])
  BY <1>1
<1>3. IsPhi(f.blocks[c][l]) /\ IsInstr(f, c, l)
  BY <1>2, PhisAre, InstrsAre
<1>4. IsSeq(f.blocks[c][l].defs) /\ Len(f.blocks[c][l].defs) = 1 /\ DOMAIN f.blocks[c][l].from = Parents(f, c)
  BY <1>3 DEF IsInstr, IsPhi
<1>5. DOMAIN f.blocks[c][l].defs = {1}
  BY <1>4, SeqFacts
<1> QED
  BY <1>1, <1>2, <1>4, <1>5 DEF PhiResult, ToSet

\* The last instruction defines nothing.
LEMMA LastDefines ==
  ASSUME NEW f, IsFunc(f), NEW b \in Blocks(f)
  PROVE  /\ Len(f.blocks[b]) \in Nat \ {0} /\ ToSet(f.blocks[b][Len(f.blocks[b])].defs) = {}
         /\ LastInstr(f, b).op = "jump" => LastInstr(f, b).uses = <<>>
         /\ LastInstr(f, b).op \in {"jump", "cond", "ret"}
<1>1. Len(f.blocks[b]) \in Nat \ {0} /\ IsInstr(f, b, Len(f.blocks[b])) /\ LastInstr(f, b) = f.blocks[b][Len(f.blocks[b])]
  BY InstrsAre
<1>2. /\ f.blocks[b][Len(f.blocks[b])].defs = <<>> /\ (LastInstr(f, b).op = "jump" => LastInstr(f, b).uses = <<>>)
      /\ LastInstr(f, b).op \in {"jump", "cond", "ret"}
  BY <1>1 DEF IsInstr
<1> QED
  BY <1>1, <1>2 DEF ToSet

LEMMA AtInstr ==
  ASSUME RangesInv, ~Shaped, RunsRight
  PROVE  LET b == pos[1]
             i == pos[2]
             k == NumPhis(func, b)
             own == Own(func, b)
         IN /\ IsFunc(func) /\ ~CriticalPhi(func) /\ b \in Blocks(func)
            /\ own \in Nat /\ k \in Nat /\ Movs(func, b) \in Nat /\ i \in 1..(own + Movs(func, b) + 1)
            /\ Len(func.blocks[b]) = k + own + 1
            /\ i <= own => Current = func.blocks[b][k + i] /\ Current.op = "op"
            /\ i > own /\ i <= own + Movs(func, b) => Current = MovsOf(func, b)[i - own] /\ Current.op = "mov"
            /\ i = own + Movs(func, b) + 1 => Current = LastInstr(func, b) /\ Current.op \in {"jump", "cond", "ret"}
<1> DEFINE b == pos[1]
           i == pos[2]
           k == NumPhis(func, b)
           own == Own(func, b)
           m == Movs(func, b)
           R == ResolvePhisInFunc(func)[b]
<1>1. IsFunc(func) /\ ~CriticalPhi(func) /\ b \in Blocks(func)
  BY FuncIs DEF Shaped, RunsRight
<1>2. IsSeq(MovsOf(func, b))
  BY <1>1, MovsAre
<1>3. /\ own \in Nat /\ m \in Nat /\ k \in Nat
      /\ \A x \in 1..own : R[x] = func.blocks[b][k + x]
      /\ \A x \in 1..m : R[own + x] = MovsOf(func, b)[x]
      /\ R[own + m + 1] = LastInstr(func, b)
  <2>1. own = Len(func.blocks[b]) - 1 - NumPhis(func, b) /\ m = Len(MovsOf(func, b))
    BY DEF Own, Movs
  <2>2. /\ Len(func.blocks[b]) - 1 - k \in Nat /\ Len(MovsOf(func, b)) \in Nat /\ k \in Nat
        /\ \A x \in 1..(Len(func.blocks[b]) - 1 - k) : R[x] = func.blocks[b][k + x]
        /\ \A x \in 1..Len(MovsOf(func, b)) : R[Len(func.blocks[b]) - 1 - k + x] = MovsOf(func, b)[x]
        /\ R[Len(func.blocks[b]) - 1 - k + Len(MovsOf(func, b)) + 1] = LastInstr(func, b)
    <3> HIDE DEF b
    <3> QED
      BY <1>1, <1>2, ResolvedIs
  <2> HIDE DEF own, m, R
  <2> QED
    BY <2>1, <2>2
<1>4. Current = R[i] /\ i \in 1..(own + m + 1)
  BY DEF Current, RunsRight
<1>5. Len(func.blocks[b]) = k + own + 1 /\ Len(func.blocks[b]) \in Nat
  <2>1. Len(func.blocks[b]) \in Nat
    BY <1>1, InstrsAre
  <2> QED
    BY <1>3, <2>1 DEF Own
<1>6. ASSUME i <= own PROVE Current = func.blocks[b][k + i] /\ Current.op = "op"
  <2>1. i \in 1..own /\ k + i \in 1..Len(func.blocks[b]) /\ k + i < Len(func.blocks[b]) /\ ~(k + i <= k)
    BY <1>3, <1>4, <1>5, <1>6
  <2>2. IsInstr(func, b, k + i) /\ ~IsPhi(func.blocks[b][k + i])
    BY <1>1, <2>1, PhisAre, InstrsAre
  <2>3. func.blocks[b][k + i].op = "op"
    BY <2>1, <2>2 DEF IsInstr, IsPhi
  <2> QED
    BY <1>3, <1>4, <2>1, <2>3
<1>7. ASSUME i > own, i <= own + m PROVE Current = MovsOf(func, b)[i - own] /\ Current.op = "mov"
  <2>1. i - own \in 1..m /\ i = own + (i - own)
    BY <1>3, <1>4, <1>7
  <2>2. Current = MovsOf(func, b)[i - own]
    BY <1>3, <1>4, <2>1
  <2>3. m # 0
    BY <2>1
  <2>4. PICK c \in Children(func, b) : TRUE
    BY <1>1, <2>3, MovsAre DEF Movs
  <2>5. m = NumPhis(func, c) /\ i - own \in 1..NumPhis(func, c)
    BY <1>1, <2>1, <2>4, MovsAre DEF Movs
  <2>6. MovsOf(func, b)[i - own] = [op |-> "mov", defs |-> func.blocks[c][i - own].defs,
                                    uses |-> <<func.blocks[c][i - own].from[b]>>]
    BY <1>1, <2>4, <2>5, MovsAre
  <2> QED
    BY <2>2, <2>6
<1>8. ASSUME i = own + m + 1 PROVE Current = LastInstr(func, b) /\ Current.op \in {"jump", "cond", "ret"}
  BY <1>1, <1>3, <1>4, <1>8, LastDefines
<1> QED
  BY <1>1, <1>3, <1>4, <1>5, <1>6, <1>7, <1>8

LEMMA DefinedEarlier ==
  ASSUME NEW f, IsFunc(f), NEW b \in Blocks(f), NEW i \in 1..Len(f.blocks[b]), NEW v,
         v \notin ToSet(f.blocks[b][i].defs), DefinedBefore(f, b, i + 1, v)
  PROVE  DefinedBefore(f, b, i, v)
<1>1. ASSUME NEW d \in Definitions(f, v), d[1] = b, d[2] < i + 1 PROVE d[2] < i
  <2>1. d[2] \in 1..Len(f.blocks[b]) /\ v \in ToSet(f.blocks[b][d[2]].defs) /\ Len(f.blocks[b]) \in Nat
    BY <1>1, DefinitionsAre, InstrsAre
  <2> QED
    BY <1>1, <2>1
<1> QED
  BY <1>1 DEF DefinedBefore

\* Before the first mov the exit set is in its registers.
LEMMA MovedAtFirst ==
  ASSUME RangesInv, ~Shaped, RunsRight, pos[2] > Own(func, pos[1])
  PROVE  Moved(pos[1], pos[2] - Own(func, pos[1]) - 1)
<1> DEFINE b == pos[1]
           own == Own(func, b)
           n == Len(func.blocks[b])
<1>1. IsFunc(func) /\ b \in Blocks(func) /\ own \in Nat /\ NumPhis(func, b) \in Nat /\ n = NumPhis(func, b) + own + 1 /\ pos[2] \in Nat
  BY AtInstr
<1>2. CASE pos[2] > own + 1
  BY <1>2 DEF RunsRight
<1>3. CASE pos[2] = own + 1
  <2>1. NumPhis(func, b) + pos[2] = n /\ pos[2] - own - 1 = 0 /\ pos[2] <= own + 1
    BY <1>1, <1>3
  <2>2. LiveHold(b, n)
    BY <2>1 DEF RunsRight
  <2>3. ASSUME NEW v \in ExitSet(ranges[b]), DefinedBefore(func, b, n + 1, v) PROVE regs[colors[v]] = env[v]
    <3>0. n \in Nat \ {0} /\ ToSet(func.blocks[b][n].defs) = {} /\ DOMAIN func.blocks[b] = 1..n
      BY <1>1, LastDefines, InstrsAre
    <3>1. n \in 1..n /\ v \notin ToSet(func.blocks[b][n].defs) /\ DOMAIN func.blocks[b] = 1..n
      <4> HIDE DEF n
      <4> QED
        BY <3>0
    <3>2. DefinedBefore(func, b, n, v)
      BY <1>1, <2>3, <3>1, DefinedEarlier
    <3>3. v \in AllValues(func)
      BY <1>1 DEF RangesInv, Sound, ExitSet
    <3>4. \A j \in DOMAIN func.blocks[b] : v \in ToSet(func.blocks[b][j].defs) => j <= n - 1
      BY <3>1
    <3>5. v \in LiveAfter(func, b, ExitSet(ranges[b]), n - 1)
      BY <3>3, <3>4 DEF LiveAfter
    <3> QED
      BY <2>2, <3>2, <3>5 DEF LiveHold
  <2>4. Moved(b, 0)
    BY <2>3 DEF Moved
  <2> QED
    BY <2>1, <2>4
<1> QED
  BY <1>1, <1>2, <1>3

\* What the instruction reads is live and defined before it.
LEMMA UsesAreLive ==
  ASSUME NEW f, IsFunc(f), NEW b \in Blocks(f), NEW i \in 1..Len(f.blocks[b]), NEW exit,
         NEW v \in ToSet(f.blocks[b][i].uses) \ {0}
  PROVE  v \in LiveAfter(f, b, exit, i - 1) /\ DefinedBefore(f, b, i, v)
<1>1. DOMAIN f.blocks[b] = 1..Len(f.blocks[b]) /\ Len(f.blocks[b]) \in Nat /\ IsInstr(f, b, i)
  BY InstrsAre
<1>2. v \in AllValues(f)
  BY <1>1 DEF IsInstr
<1>3. DefinedBefore(f, b, i, v) /\ \A d \in Definitions(f, v) : d[1] = b => d[2] < i
  BY <1>1 DEF IsFunc, DefinedBeforeUse
<1>4. i \in UsedBy(f, b, v) /\ i > i - 1
  BY <1>1, PlacesAre
<1>5. ASSUME NEW j \in DOMAIN f.blocks[b], v \in ToSet(f.blocks[b][j].defs) PROVE j <= i - 1
  <2>1. <<b, j>> \in Definitions(f, v)
    BY <1>5, DefinitionsHas
  <2>2. <<b, j>>[2] < i
    BY <1>3, <2>1
  <2> QED
    BY <1>1, <2>2
<1> QED
  BY <1>2, <1>3, <1>4, <1>5 DEF LiveAfter

LEMMA ReadsFollow ==
  ASSUME RangesInv, RunInv
  PROVE  ReadsAreRight
<1> SUFFICES ASSUME phase = "run", Current.op # "mov", ~Shaped, NEW v \in ToSet(Current.uses) \ {0}
             PROVE  regs[colors[v]] = env[v]
  BY DEF ReadsAreRight, Shaped
<1> DEFINE b == pos[1]
           i == pos[2]
           k == NumPhis(func, b)
           own == Own(func, b)
           m == Movs(func, b)
<1>1. RunsRight
  BY DEF RunInv
<1>2. /\ IsFunc(func) /\ b \in Blocks(func)
      /\ own \in Nat /\ k \in Nat /\ m \in Nat /\ i \in 1..(own + m + 1)
      /\ Len(func.blocks[b]) = k + own + 1
      /\ i <= own => Current = func.blocks[b][k + i]
      /\ i > own /\ i <= own + m => Current.op = "mov"
      /\ i = own + m + 1 => Current = LastInstr(func, b)
  BY <1>1, AtInstr
<1>3. ASSUME i <= own + 1, Current = func.blocks[b][k + i] PROVE regs[colors[v]] = env[v]
  <2>1. k + i \in 1..Len(func.blocks[b])
    BY <1>2, <1>3
  <2>2. v \in LiveAfter(func, b, ExitSet(ranges[b]), (k + i) - 1) /\ DefinedBefore(func, b, k + i, v)
    BY <1>2, <1>3, <2>1, UsesAreLive
  <2>3. LiveHold(b, k + i)
    BY <1>1, <1>3 DEF RunsRight
  <2> QED
    BY <2>2, <2>3 DEF LiveHold
<1>4. CASE i <= own
  BY <1>2, <1>3, <1>4
<1>5. CASE i = own + m + 1
  <2>1. CASE m = 0
    <3>1. i <= own + 1 /\ k + i = Len(func.blocks[b])
      BY <1>2, <1>5, <2>1
    <3>2. LastInstr(func, b) = func.blocks[b][Len(func.blocks[b])]
      BY DEF LastInstr
    <3> QED
      BY <1>2, <1>3, <1>5, <3>1, <3>2
  <2>2. CASE m # 0
    <3>1. ~CriticalPhi(func)
      BY DEF Shaped
    <3>2. LastInstr(func, b).op = "jump"
      BY <1>2, <2>2, <3>1, MovsAre DEF Movs
    <3>3. LastInstr(func, b).uses = <<>>
      BY <1>2, <3>2, LastDefines
    <3> QED
      BY <1>2, <1>5, <3>3 DEF ToSet
  <2> QED
    BY <2>1, <2>2
<1> QED
  BY <1>2, <1>4, <1>5

LEMMA EnterKeeps ==
  ASSUME RangesInv, ColorsInv, Enter
  PROVE  RunInv'
<1>1. phase = "color" /\ DOMAIN colors = graph.nodes /\ UNCHANGED <<func, queue, ranges, graph, colors, pos>> /\ pos = <<1, 1>>
  BY DEF Enter, ColorsInv
<1>2. IsFunc(func) /\ 1 \in Blocks(func)
  BY FuncIs, BlocksAre
<1> SUFFICES ASSUME ~Shaped PROVE RunsRight'
  BY <1>1 DEF RunInv, Shaped
<1>3. env' = [v \in AllValues(func) |-> <<v, 0>>]
  BY DEF Enter
<1>4. regs' = [c \in Range(colors) \cup Range(ArgColors) |->
                LET i == {i \in DOMAIN func.args : ArgColors[i] = c}
                IN IF i = {} THEN <<0, 0>> ELSE <<func.args[Min(i)], 0>>]
  BY DEF Enter
<1>5. \A v \in DOMAIN colors : colors[v] \in DOMAIN regs'
  BY <1>4 DEF Range
<1>6. NumPhis(func, 1) = 0
  <2>1. NumPhis(func, 1) \in 0..(Len(func.blocks[1]) - 1) /\ Len(func.blocks[1]) \in Nat
        /\ \A i \in 1..Len(func.blocks[1]) : IsPhi(func.blocks[1][i]) <=> i <= NumPhis(func, 1)
    BY <1>2, PhisAre, InstrsAre
  <2> SUFFICES ASSUME NumPhis(func, 1) # 0 PROVE FALSE
    OBVIOUS
  <2>2. 1 \in 1..Len(func.blocks[1]) /\ IsPhi(func.blocks[1][1])
    BY <2>1
  <2>3. IsInstr(func, 1, 1)
    BY <1>2, <2>2, InstrsAre
  <2> QED
    BY <2>2, <2>3 DEF IsInstr, IsPhi
<1>7. Own(func, 1) \in Nat /\ Movs(func, 1) \in Nat
  <2>1. Movs(func, 1) \in Nat
    BY <1>2, MovsAre DEF Shaped, Movs
  <2>2. NumPhis(func, 1) \in 0..(Len(func.blocks[1]) - 1) /\ Len(func.blocks[1]) \in Nat
    BY <1>2, PhisAre, InstrsAre
  <2> QED
    BY <2>1, <2>2 DEF Own
<1>8. ASSUME NEW v \in LiveAfter(func, 1, ExitSet(ranges[1]), 0), DefinedBefore(func, 1, 1, v)
      PROVE  regs'[colors[v]] = env'[v]
  <2>1. v \in AllValues(func)
    BY DEF LiveAfter
  <2>2. v \in ToSet(func.args)
    <3>1. ASSUME NEW d \in Definitions(func, v), d[1] = 1, d[2] < 1 PROVE FALSE
      <4>1. d[2] \in 1..Len(func.blocks[1])
        BY <1>2, <3>1, DefinitionsAre
      <4> QED
        BY <3>1, <4>1
    <3>2. 1 \in ReachedAround(func, 1, {d[1] : d \in Definitions(func, v)})
      BY <1>2, ReachedAroundIs
    <3> QED
      BY <1>8, <3>1, <3>2 DEF DefinedBefore
  <2>3. PICK x \in DOMAIN func.args : func.args[x] = v
    BY <2>2 DEF ToSet
  <2>4. DOMAIN func.args = 1..Len(func.args) /\ Len(func.args) \in Nat /\ Len(func.args) <= 6
    BY <1>2, SeqFacts DEF IsFunc
  <2>5. x \in 1..6 /\ DOMAIN func.args \subseteq 1..6
    BY <2>3, <2>4
  <2>6. v \in DOMAIN colors
    <3>1. graph = BuildInterferenceGraph(func, ranges)
      BY <1>1 DEF ColorsInv
    <3>2. 0 \in Nat /\ v \in BuildInterferenceGraph(func, ranges).nodes
      BY <1>2, <1>8, LiveHasNode
    <3> QED
      BY <1>1, <3>1, <3>2
  <2>7. colors[v] = ArgColors[x]
    BY <2>3, <2>6 DEF Shaped, ArgElsewhere
  <2>8. \A y \in 1..6 : ArgColors[y] = ArgColors[x] => y = x
    BY <2>5 DEF ArgColors
  <2>9. {y \in DOMAIN func.args : ArgColors[y] = colors[v]} = {x}
    BY <2>3, <2>5, <2>7, <2>8
  <2>10. Min({x}) = x
    <3>1. {x} \in SUBSET Nat /\ {x} # {}
      BY <2>5
    <3> QED
      BY <3>1, MinIs
  <2>11. colors[v] \in Range(colors) \cup Range(ArgColors)
    BY <2>6 DEF Range
  <2>12. regs'[colors[v]] = <<func.args[x], 0>>
    BY <1>4, <2>9, <2>10, <2>11
  <2> QED
    BY <1>3, <2>1, <2>3, <2>12
<1>9. LiveHold(1, 1)'
  BY <1>1, <1>8 DEF LiveHold
<1>10. 1 \in 1..(Own(func, 1) + Movs(func, 1) + 1) /\ NumPhis(func, 1) + 1 = 1 /\ ~(1 > Own(func, 1) + 1)
  BY <1>6, <1>7
<1> QED
  BY <1>1, <1>2, <1>3, <1>5, <1>9, <1>10 DEF RunsRight

\* Every result of an instruction is live after it, if it has several.
LEMMA ResultsLive ==
  ASSUME NEW f, IsFunc(f), NEW rs, \A b \in Blocks(f) : Sound(f, b, rs[b]), ~UnusedResult(f, rs), NEW b \in Blocks(f),
         NEW i \in 1..Len(f.blocks[b]), i > NumPhis(f, b), NEW v \in ToSet(f.blocks[b][i].defs), Len(f.blocks[b][i].defs) > 1
  PROVE  v \in LiveAfter(f, b, ExitSet(rs[b]), i)
<1>1. DOMAIN f.blocks[b] = 1..Len(f.blocks[b]) /\ Len(f.blocks[b]) \in Nat /\ i \in DOMAIN f.blocks[b]
  BY InstrsAre
<1>2. ~(v \in DOMAIN rs[b] /\ rs[b][v].end = i)
  BY <1>1 DEF UnusedResult
<1>3. v \in AllValues(f) /\ \A j \in DOMAIN f.blocks[b] : v \in ToSet(f.blocks[b][j].defs) => j = i
  <2>1. ASSUME NEW j \in 1..Len(f.blocks[b]), v \in ToSet(f.blocks[b][j].defs) PROVE j = i /\ v \in AllValues(f)
    BY <2>1, DefinedOnce
  <2> QED
    BY <1>1, <2>1
<1>4. i \in DefinedBy(f, b, v) /\ \A j \in DefinedBy(f, b, v) : j = i
  BY <1>1, <1>3, PlacesAre
<1>5. v \in DOMAIN rs[b]
  BY <1>3, <1>4 DEF Sound, PlacesOf
<1>6. v \in ExitSet(rs[b]) \/ \E j \in UsedBy(f, b, v) : j > i
  <2>1. CASE rs[b][v].end = Null
    BY <1>5, <2>1 DEF ExitSet
  <2>2. CASE rs[b][v].end # Null
    <3>1. rs[b][v].end \in PlacesOf(f, b, v) /\ \A j \in PlacesOf(f, b, v) : j <= rs[b][v].end
      BY <1>5, <2>2 DEF Sound
    <3>2. i <= rs[b][v].end /\ rs[b][v].end # i
      BY <1>2, <1>4, <1>5, <3>1 DEF PlacesOf
    <3>3. rs[b][v].end \in UsedBy(f, b, v)
      BY <1>4, <3>1, <3>2 DEF PlacesOf
    <3>4. rs[b][v].end \in 1..Len(f.blocks[b])
      BY <3>3, PlacesAre
    <3> QED
      BY <1>1, <3>2, <3>3, <3>4
  <2> QED
    BY <2>1, <2>2
<1>7. \A j \in DOMAIN f.blocks[b] : v \in ToSet(f.blocks[b][j].defs) => j <= i
  BY <1>1, <1>3
<1> QED
  BY <1>3, <1>6, <1>7 DEF LiveAfter

LEMMA RunOpKeeps ==
  ASSUME RangesInv, ColorsInv, RunInv, RunOp
  PROVE  RunInv'
<1>1. phase = "run" /\ Current.op = "op" /\ UNCHANGED <<func, phase, queue, ranges, graph, colors>> /\ pos' = <<pos[1], pos[2] + 1>>
  BY DEF RunOp
<1> SUFFICES ASSUME ~Shaped PROVE RunsRight'
  BY <1>1 DEF RunInv, Shaped
<1>2. RunsRight
  BY <1>1 DEF RunInv
<1>0. PICK b, k, own, m : b = pos[1] /\ k = NumPhis(func, b) /\ own = Own(func, b) /\ m = Movs(func, b)
  OBVIOUS
<1>a. PICK i, instr, live : i = k + pos[2] /\ instr = func.blocks[b][i] /\ live = LiveAfter(func, b, ExitSet(ranges[b]), i)
  OBVIOUS
<1> DEFINE writes(c) == {x \in DOMAIN instr.defs : colors[instr.defs[x]] = c}
<1>3. /\ IsFunc(func) /\ b \in Blocks(func)
      /\ own \in Nat /\ k \in Nat /\ m \in Nat /\ pos[2] \in 1..(own + m + 1)
      /\ Len(func.blocks[b]) = k + own + 1
      /\ pos[2] <= own => Current = instr
      /\ pos[2] > own /\ pos[2] <= own + m => Current.op = "mov"
      /\ pos[2] = own + m + 1 => Current.op \in {"jump", "cond", "ret"}
  BY <1>0, <1>a, <1>2, AtInstr
<1>4. pos[2] <= own /\ Current = instr
  BY <1>1, <1>3
<1>c. /\ own \in Nat /\ k \in Nat /\ m \in Nat /\ pos[2] \in 1..(own + m + 1) /\ pos[2] <= own
      /\ Len(func.blocks[b]) = k + own + 1 /\ i = k + pos[2] /\ k = NumPhis(func, b)
  BY <1>0, <1>a, <1>3, <1>4
<1>5. i \in 1..Len(func.blocks[b]) /\ i > NumPhis(func, b) /\ i - 1 \in Nat /\ i \in Nat
  BY <1>c
<1>6. \A c \in Blocks(func) : Sound(func, c, ranges[c])
  BY DEF RangesInv
<1>b. live = LiveAfter(func, b, ExitSet(ranges[b]), i) /\ instr = func.blocks[b][i]
  BY <1>a
<1>7. IsSeq(instr.defs) /\ IsInjective(instr.defs) /\ DOMAIN instr.defs = 1..Len(instr.defs) /\ Len(instr.defs) \in Nat
  <2>1. IsInstr(func, b, i)
    BY <1>a, <1>3, <1>5, InstrsAre
  <2>2. IsSeq(instr.defs) /\ IsInjective(instr.defs)
    BY <1>a, <2>1 DEF IsInstr
  <2> QED
    BY <2>2, SeqFacts
<1>8. /\ env' = [v \in DOMAIN env |-> IF v \in ToSet(instr.defs) THEN Fresh(v) ELSE env[v]]
      /\ regs' = [c \in DOMAIN regs |-> IF writes(c) = {} THEN regs[c] ELSE Fresh(instr.defs[Max(writes(c))])]
  BY <1>4 DEF RunOp
<1>9. DOMAIN colors = BuildInterferenceGraph(func, ranges).nodes
  BY <1>1 DEF ColorsInv
<1>10. live \subseteq DOMAIN colors /\ ToSet(instr.defs) \subseteq DOMAIN colors
  BY <1>b, <1>3, <1>5, <1>9, LiveHasNode
<1>11. ASSUME NEW v \in live, NEW d \in ToSet(instr.defs), v # d PROVE colors[d] # colors[v]
  <2>1. v \notin ToSet(instr.defs) \/ d \in live
    <3> SUFFICES ASSUME v \in ToSet(instr.defs) PROVE d \in live
      OBVIOUS
    <3>1. PICK x, y \in 1..Len(instr.defs) : instr.defs[x] = v /\ instr.defs[y] = d
      BY <1>7 DEF ToSet
    <3>2. Len(instr.defs) > 1
      BY <1>7, <1>11, <3>1
    <3>3. ~UnusedResult(func, ranges)
      BY DEF Shaped
    <3> QED
      BY <1>b, <1>3, <1>5, <1>6, <3>2, <3>3, ResultsLive
  <2>2. {v, d} \in BuildInterferenceGraph(func, ranges).edges
    BY <1>b, <1>3, <1>5, <1>6, <1>11, <2>1, ResultsApart
  <2>3. v \in BuildInterferenceGraph(func, ranges).nodes /\ d \in BuildInterferenceGraph(func, ranges).nodes
    BY <1>9, <1>10
  <2> QED
    BY <1>1, <1>11, <2>2, <2>3, Apart
<1>12. ASSUME NEW v \in live, DefinedBefore(func, b, i + 1, v) PROVE regs'[colors[v]] = env'[v]
  <2>1. v \in AllValues(func) /\ v \in DOMAIN env /\ colors[v] \in DOMAIN regs
    BY <1>b, <1>2, <1>10 DEF LiveAfter, RunsRight
  <2>2. CASE v \in ToSet(instr.defs)
    <3>1. PICK x \in 1..Len(instr.defs) : instr.defs[x] = v
      BY <1>7, <2>2 DEF ToSet
    <3>2. x \in writes(colors[v])
      BY <1>7, <3>1
    <3>3. \A y \in writes(colors[v]) : instr.defs[y] = v
      BY <1>11 DEF ToSet
    <3>4. writes(colors[v]) \in SUBSET Nat /\ writes(colors[v]) # {} /\ \A y \in writes(colors[v]) : y <= Len(instr.defs)
      BY <1>7, <3>2
    <3>5. Max(writes(colors[v])) \in writes(colors[v])
      <4> HIDE DEF writes
      <4> QED
        BY <1>7, <3>4, MaxIs
    <3>6. regs'[colors[v]] = Fresh(v)
      BY <1>8, <2>1, <3>3, <3>4, <3>5
    <3> QED
      BY <1>8, <2>1, <2>2, <3>6
  <2>3. CASE v \notin ToSet(instr.defs)
    <3>1. writes(colors[v]) = {}
      BY <1>11, <2>3 DEF ToSet
    <3>2. regs'[colors[v]] = regs[colors[v]] /\ env'[v] = env[v]
      BY <1>8, <2>1, <2>3, <3>1
    <3>3. DefinedBefore(func, b, i, v)
      BY <1>b, <1>3, <1>5, <1>12, <2>3, DefinedEarlier
    <3>4. v \in LiveAfter(func, b, ExitSet(ranges[b]), i - 1)
      <4>1. v \in ExitSet(ranges[b]) \/ \E j \in UsedBy(func, b, v) : j > i - 1
        <5>1. UsedBy(func, b, v) \subseteq 1..Len(func.blocks[b])
          BY <1>3, PlacesAre
        <5>2. v \in ExitSet(ranges[b]) \/ \E j \in UsedBy(func, b, v) : j > i
          BY <1>b DEF LiveAfter
        <5> QED
          BY <1>3, <1>5, <5>1, <5>2
      <4>2. ASSUME NEW j \in DOMAIN func.blocks[b], v \in ToSet(func.blocks[b][j].defs) PROVE j <= i - 1
        <5>1. j <= i /\ j # i /\ j \in 1..Len(func.blocks[b])
          BY <1>b, <1>3, <2>3, <4>2, InstrsAre DEF LiveAfter
        <5> QED
          BY <1>3, <1>5, <5>1
      <4> QED
        BY <2>1, <4>1, <4>2 DEF LiveAfter
    <3>5. LiveHold(b, i)
      BY <1>0, <1>a, <1>2, <1>3, <1>4 DEF RunsRight
    <3> QED
      BY <3>2, <3>3, <3>4, <3>5 DEF LiveHold
  <2> QED
    BY <2>2, <2>3
<1>13. LiveHold(b, i + 1)'
  <2>1. LiveAfter(func, b, ExitSet(ranges[b]), (i + 1) - 1) = live
    <3>1. (i + 1) - 1 = i
      BY <1>5
    <3> QED
      BY <1>b, <3>1
  <2>2. \A v \in LiveAfter(func, b, ExitSet(ranges[b]), (i + 1) - 1) :
          DefinedBefore(func, b, i + 1, v) => regs'[colors[v]] = env'[v]
    BY <1>12, <2>1
  <2> QED
    BY <1>1, <2>2 DEF LiveHold
<1>14. pos[2] + 1 \in 1..(own + m + 1) /\ ~(pos[2] + 1 > own + 1) /\ k + (pos[2] + 1) = i + 1
  BY <1>c
<1>15. DOMAIN env' = DOMAIN env /\ DOMAIN regs' = DOMAIN regs
  BY <1>8
<1>16. pos'[1] = b /\ pos'[2] = pos[2] + 1 /\ Own(func', b) = own /\ Movs(func', b) = m /\ NumPhis(func', b) = k /\ func' = func
  BY <1>0, <1>1
<1>17. DOMAIN env' = AllValues(func') /\ \A v \in DOMAIN colors' : colors'[v] \in DOMAIN regs'
  BY <1>1, <1>2, <1>15 DEF RunsRight
<1> QED
  BY <1>3, <1>13, <1>14, <1>16, <1>17 DEF RunsRight

\* Without unused phis, the result of a phi is in the exit set of a parent.
LEMMA PhiLeaves ==
  ASSUME RangesInv, queue = {}, IsFunc(func), ~UnusedPhi(func, ranges), NEW b \in Blocks(func), NEW c \in Children(func, b),
         NEW l \in 1..NumPhis(func, c)
  PROVE  PhiResult(func, c, l) \in ExitSet(ranges[b])
<1> DEFINE d == PhiResult(func, c, l)
<1>1. c \in Blocks(func) /\ b \in Parents(func, c)
  BY InstrsAre DEF Parents
<1>2. func.blocks[c][l] \in ToSet(Phis(func, c))
  BY <1>1, PhisAre
<1>3. d \in DOMAIN ranges[c]
  BY <1>1, <1>2 DEF UnusedPhi, PhiResult
<1>4. l \in 1..Len(func.blocks[c]) /\ d \in ToSet(func.blocks[c][l].defs)
  BY <1>1, PhiIs
<1>5. DefinedBy(func, c, d) = {}
  <2> SUFFICES ASSUME NEW j \in DefinedBy(func, c, d) PROVE FALSE
    OBVIOUS
  <2>1. j \in 1..Len(func.blocks[c]) /\ j > NumPhis(func, c) /\ d \in ToSet(func.blocks[c][j].defs)
    BY <1>1, PlacesAre
  <2>2. j = l
    <3> HIDE DEF d
    <3> QED
      BY <1>1, <1>4, <2>1, DefinedOnceIn
  <2>3. NumPhis(func, c) \in Nat
    BY <1>1, PhisAre, InstrsAre
  <2> QED
    BY <2>1, <2>2, <2>3
<1>6. d \in EntrySet(ranges[c])
  BY <1>1, <1>3, <1>5 DEF RangesInv, Sound, EntrySet
<1> QED
  BY <1>1, <1>6 DEF RangesInv, Told

LEMMA RunMovKeeps ==
  ASSUME RangesInv, ColorsInv, RunInv, RunMov
  PROVE  RunInv'
<1>1. phase = "run" /\ Current.op = "mov" /\ UNCHANGED <<func, phase, queue, ranges, graph, colors, env>> /\ pos' = <<pos[1], pos[2] + 1>>
  BY DEF RunMov
<1> SUFFICES ASSUME ~Shaped PROVE RunsRight'
  BY <1>1 DEF RunInv, Shaped
<1>2. RunsRight
  BY <1>1 DEF RunInv
<1>0. PICK b, k, own, m, i : b = pos[1] /\ k = NumPhis(func, b) /\ own = Own(func, b) /\ m = Movs(func, b) /\ i = pos[2]
  OBVIOUS
<1>3. /\ IsFunc(func) /\ b \in Blocks(func) /\ ~CriticalPhi(func)
      /\ own \in Nat /\ k \in Nat /\ m \in Nat /\ i \in 1..(own + m + 1)
      /\ i <= own => Current.op = "op"
      /\ i > own /\ i <= own + m => Current = MovsOf(func, b)[i - own]
      /\ i = own + m + 1 => Current.op \in {"jump", "cond", "ret"}
  BY <1>0, <1>2, AtInstr
<1>4. i > own /\ i <= own + m /\ Current = MovsOf(func, b)[i - own]
  BY <1>1, <1>3
<1>5. PICK j \in Nat : j = i - own - 1 /\ j + 1 = i - own /\ j + 1 <= m /\ j + 1 \in 1..m /\ (i + 1) - own - 1 = j + 1
  BY <1>3, <1>4
<1>6. Moved(b, j)
  BY <1>0, <1>2, <1>4, <1>5, MovedAtFirst
<1>7. queue = {} /\ DOMAIN colors = BuildInterferenceGraph(func, ranges).nodes
  BY <1>1 DEF RangesInv, ColorsInv
<1>8. ASSUME NEW c \in Children(func, b)
      PROVE  /\ \A l \in 1..(j + 1) : regs'[colors[PhiResult(func, c, l)]] = Inherited(func.blocks[c][l], b)
             /\ \A v \in ExitSet(ranges[b]) :
                  DefinedBefore(func, b, Len(func.blocks[b]) + 1, v) /\ (\A l \in 1..(j + 1) : v # PhiResult(func, c, l))
                    => regs'[colors[v]] = env[v]
  <2>1. /\ c \in Blocks(func) /\ m = NumPhis(func, c)
        /\ MovsOf(func, b)[j + 1] = [op |-> "mov", defs |-> func.blocks[c][j + 1].defs,
                                     uses |-> <<func.blocks[c][j + 1].from[b]>>]
    <3>1. c \in Blocks(func) /\ m = NumPhis(func, c)
      BY <1>0, <1>3, MovsAre DEF Movs
    <3>2. PICK x : x = j + 1
      OBVIOUS
    <3>3. x \in 1..NumPhis(func, c)
      BY <1>5, <3>1, <3>2
    <3>4. MovsOf(func, b)[x] = [op |-> "mov", defs |-> func.blocks[c][x].defs, uses |-> <<func.blocks[c][x].from[b]>>]
      BY <1>3, <3>3, MovsAre
    <3> QED
      BY <3>1, <3>2, <3>4
  <2>2. PICK phi, d, u : phi = func.blocks[c][j + 1] /\ d = PhiResult(func, c, j + 1) /\ u = phi.from[b]
    OBVIOUS
  <2>3. Current.defs[1] = d /\ Current.uses[1] = u
    BY <1>4, <1>5, <2>1, <2>2 DEF PhiResult
  <2>4. regs' = [regs EXCEPT ![colors[d]] = IF u = 0 THEN <<d, 10 + b>> ELSE regs[colors[u]]]
    <3>1. Constant(Current, pos[1]) = <<d, 10 + b>>
      BY <1>0, <2>3 DEF Constant
    <3> QED
      BY <2>3, <3>1 DEF RunMov
  <2>5. \A l \in 1..(j + 1) : l \in 1..NumPhis(func, c) /\ PhiResult(func, c, l) \in ExitSet(ranges[b])
    <3>1. \A l \in 1..(j + 1) : l \in 1..NumPhis(func, c)
      BY <1>3, <1>5, <2>1
    <3>2. ~UnusedPhi(func, ranges)
      BY DEF Shaped
    <3> QED
      BY <1>3, <1>7, <3>1, <3>2, PhiLeaves
  <2>6. d \in ExitSet(ranges[b]) /\ d \in DOMAIN colors /\ colors[d] \in DOMAIN regs
    <3>1. d \in ExitSet(ranges[b])
      BY <1>5, <2>2, <2>5
    <3>2. d \in DOMAIN colors
      BY <1>3, <1>7, <3>1, LiveHasNode
    <3> QED
      BY <1>2, <3>1, <3>2 DEF RunsRight
  <2>7. ASSUME NEW v \in ExitSet(ranges[b]), v # d PROVE regs'[colors[v]] = regs[colors[v]]
    <3>1. {v, d} \in BuildInterferenceGraph(func, ranges).edges
      BY <1>3, <2>6, <2>7, ExitApart
    <3>2. v \in BuildInterferenceGraph(func, ranges).nodes /\ d \in BuildInterferenceGraph(func, ranges).nodes
      BY <1>3, <1>7, <2>6, LiveHasNode
    <3>3. colors[v] # colors[d]
      BY <1>1, <2>7, <3>1, <3>2, Apart
    <3>4. v \in DOMAIN colors /\ colors[v] \in DOMAIN regs
      BY <1>2, <1>7, <3>2 DEF RunsRight
    <3> QED
      BY <2>4, <3>3, <3>4
  <2>8. regs'[colors[d]] = Inherited(phi, b)
    <3>1. regs'[colors[d]] = IF u = 0 THEN <<d, 10 + b>> ELSE regs[colors[u]]
      BY <2>4, <2>6
    <3>2. CASE u = 0
      BY <2>2, <3>1, <3>2 DEF Inherited, Constant, PhiResult
    <3>3. CASE u # 0
      <4>1. u \in InheritedFrom(func, b)
        <5>1. j + 1 \in 1..NumPhis(func, c) /\ func.blocks[c][j + 1].from[b] = u
          BY <1>5, <2>1, <2>2
        <5> QED
          BY <1>3, <3>3, <5>1, InheritedHas
      <4>2. u \in ExitSet(ranges[b]) /\ DefinedBefore(func, b, Len(func.blocks[b]) + 1, u)
        BY <1>3, <4>1 DEF RangesInv, Sound, IsFunc, DefinedBeforeUse
      <4>3. ASSUME NEW l \in 1..j, u = PhiResult(func, c, l) PROVE FALSE
        <5>1. l \in 1..NumPhis(func, c) /\ j + 1 \in 1..NumPhis(func, c) /\ l < j + 1
          BY <1>5, <2>1, <2>5
        <5>2. /\ DOMAIN Phis(func, c) = 1..NumPhis(func, c)
              /\ Phis(func, c)[l] = func.blocks[c][l] /\ Phis(func, c)[j + 1] = phi
          BY <1>3, <2>1, <2>2, <5>1, PhisAre
        <5>3. b \in DOMAIN phi.from
          <6>1. b \in Parents(func, c)
            BY <1>3 DEF Parents
          <6> QED
            BY <1>3, <2>1, <2>2, <5>1, <6>1, PhiIs
        <5>4. u \in Sources(phi)
          BY <2>2, <5>3 DEF Sources
        <5> QED
          BY <2>1, <4>3, <5>1, <5>2, <5>4 DEF Shaped, SwappedPhis, PhiResult
      <4>4. regs[colors[u]] = env[u]
        BY <1>6, <4>2, <4>3 DEF Moved
      <4> QED
        BY <2>2, <3>1, <3>3, <4>4 DEF Inherited
    <3> QED
      BY <3>2, <3>3
  <2>9. ASSUME NEW l \in 1..(j + 1)
        PROVE  regs'[colors[PhiResult(func, c, l)]] = Inherited(func.blocks[c][l], b)
    <3>1. CASE l = j + 1
      BY <2>2, <2>8, <3>1
    <3>2. CASE l # j + 1
      <4>1. l \in 1..j /\ l \in 1..NumPhis(func, c) /\ j + 1 \in 1..NumPhis(func, c)
        BY <1>5, <2>1, <2>5, <3>2
      <4>2. PhiResult(func, c, l) # d
        <5> SUFFICES ASSUME PhiResult(func, c, l) = d PROVE FALSE
          OBVIOUS
        <5>1. l \in 1..Len(func.blocks[c]) /\ j + 1 \in 1..Len(func.blocks[c])
              /\ d \in ToSet(func.blocks[c][l].defs) /\ d \in ToSet(func.blocks[c][j + 1].defs)
          BY <1>3, <2>1, <2>2, <4>1, PhiIs
        <5>2. PICK x : x = j + 1
          OBVIOUS
        <5>3. x \in 1..Len(func.blocks[c]) /\ d \in ToSet(func.blocks[c][x].defs)
          BY <5>1, <5>2
        <5>4. l = x
          BY <1>3, <2>1, <5>1, <5>3, DefinedOnceIn
        <5> QED
          BY <3>2, <5>2, <5>4
      <4>3. regs'[colors[PhiResult(func, c, l)]] = regs[colors[PhiResult(func, c, l)]]
        BY <2>5, <2>7, <4>2
      <4> QED
        BY <1>6, <4>1, <4>3 DEF Moved
    <3> QED
      BY <3>1, <3>2
  <2>10. ASSUME NEW v \in ExitSet(ranges[b]), DefinedBefore(func, b, Len(func.blocks[b]) + 1, v),
                \A l \in 1..(j + 1) : v # PhiResult(func, c, l)
         PROVE  regs'[colors[v]] = env[v]
    <3>1. v # d /\ \A l \in 1..j : v # PhiResult(func, c, l)
      BY <1>5, <2>2, <2>10
    <3> QED
      BY <1>6, <2>7, <2>10, <3>1 DEF Moved
  <2> QED
    BY <2>9, <2>10
<1>9. Moved(b, j + 1)'
  BY <1>1, <1>8 DEF Moved, Inherited, Constant
<1>10. pos'[1] = b /\ pos'[2] = i + 1 /\ Own(func', b) = own /\ Movs(func', b) = m /\ NumPhis(func', b) = k /\ func' = func
  BY <1>0, <1>1
<1>11. i + 1 \in 1..(own + m + 1) /\ ~(i + 1 <= own + 1)
  BY <1>3, <1>4
<1>12. DOMAIN env' = AllValues(func') /\ \A v \in DOMAIN colors' : colors'[v] \in DOMAIN regs'
  <2>1. DOMAIN regs' = DOMAIN regs
    BY DEF RunMov
  <2> QED
    BY <1>1, <1>2, <2>1 DEF RunsRight
<1>13. Moved(b, (i + 1) - own - 1)'
  BY <1>5, <1>9
<1> QED
  BY <1>3, <1>10, <1>11, <1>12, <1>13 DEF RunsRight

\* What is live after the phis of a block is in the exit sets of its parents.
LEMMA LiveComes ==
  ASSUME RangesInv, queue = {}, IsFunc(func), NEW b \in Blocks(func), NEW c \in Children(func, b),
         NEW v \in LiveAfter(func, c, ExitSet(ranges[c]), NumPhis(func, c))
  PROVE  v \in ExitSet(ranges[b])
<1>1. c \in Blocks(func) /\ b \in Parents(func, c)
  BY InstrsAre DEF Parents
<1>2. v \in AllValues(func) /\ (v \in ExitSet(ranges[c]) \/ UsedBy(func, c, v) # {})
      /\ \A j \in DOMAIN func.blocks[c] : v \in ToSet(func.blocks[c][j].defs) => j <= NumPhis(func, c)
  BY DEF LiveAfter
<1>3. DefinedBy(func, c, v) = {}
  <2> SUFFICES ASSUME NEW j \in DefinedBy(func, c, v) PROVE FALSE
    OBVIOUS
  <2>1. j \in 1..Len(func.blocks[c]) /\ j > NumPhis(func, c) /\ v \in ToSet(func.blocks[c][j].defs) /\ j \in DOMAIN func.blocks[c]
    BY <1>1, PlacesAre, InstrsAre
  <2>2. j <= NumPhis(func, c) /\ NumPhis(func, c) \in Nat
    BY <1>1, <1>2, <2>1, PhisAre, InstrsAre
  <2> QED
    BY <2>1, <2>2
<1>4. Sound(func, c, ranges[c])
  BY <1>1 DEF RangesInv
<1>5. v \in DOMAIN ranges[c]
  BY <1>2, <1>4 DEF Sound, PlacesOf, ExitSet
<1>6. v \in EntrySet(ranges[c])
  BY <1>3, <1>4, <1>5 DEF Sound, EntrySet
<1> QED
  BY <1>1, <1>6 DEF RangesInv, Told

\* What is defined before the code of a block, and not by its phis, is
\* defined at the end of its parents.
LEMMA DefinedComes ==
  ASSUME NEW f, IsFunc(f), NEW b \in Blocks(f), NEW c \in Children(f, b), NEW v,
         DefinedBefore(f, c, NumPhis(f, c) + 1, v), \A l \in 1..NumPhis(f, c) : v # PhiResult(f, c, l)
  PROVE  DefinedBefore(f, b, Len(f.blocks[b]) + 1, v)
<1> DEFINE stops == {d[1] : d \in Definitions(f, v)}
<1>1. c \in Blocks(f) /\ Len(f.blocks[b]) \in Nat
  BY InstrsAre
<1>2. CASE v \in ToSet(f.args)
  BY <1>2 DEF DefinedBefore
<1>3. ASSUME NEW d \in Definitions(f, v), d[1] = c, d[2] < NumPhis(f, c) + 1 PROVE FALSE
  <2>1. d[2] \in 1..Len(f.blocks[c]) /\ v \in ToSet(f.blocks[c][d[2]].defs) /\ NumPhis(f, c) \in Nat
    BY <1>1, <1>3, DefinitionsAre, PhisAre, InstrsAre
  <2>2. d[2] \in 1..NumPhis(f, c)
    BY <1>3, <2>1
  <2>3. v = PhiResult(f, c, d[2])
    BY <1>1, <2>1, <2>2, PhiIs
  <2> QED
    BY <2>2, <2>3
<1>4. CASE c \notin ReachedAround(f, 1, stops)
  <2>1. CASE b \in stops
    <3>1. PICK d \in Definitions(f, v) : d[1] = b
      BY <2>1
    <3>2. d[2] \in 1..Len(f.blocks[b])
      BY <3>1, DefinitionsAre
    <3>3. d[2] < Len(f.blocks[b]) + 1
      BY <1>1, <3>2
    <3> QED
      BY <3>1, <3>3 DEF DefinedBefore
  <2>2. CASE b \notin stops
    <3>1. 1 \in Blocks(f)
      BY BlocksAre
    <3> HIDE DEF stops
    <3>2. b \notin ReachedAround(f, 1, stops)
      BY <1>4, <2>2, <3>1, ReachedAroundIs
    <3> QED
      BY <3>2 DEF DefinedBefore, stops
  <2> QED
    BY <2>1, <2>2
<1> QED
  BY <1>2, <1>3, <1>4 DEF DefinedBefore

LEMMA RunJumpKeeps ==
  ASSUME RangesInv, ColorsInv, RunInv, RunJump
  PROVE  RunInv'
<1>1. phase = "run" /\ Current.op \in {"jump", "cond"} /\ UNCHANGED <<func, phase, queue, ranges, graph, colors, regs>>
  BY DEF RunJump
<1> SUFFICES ASSUME ~Shaped PROVE RunsRight'
  BY <1>1 DEF RunInv, Shaped
<1>2. RunsRight
  BY <1>1 DEF RunInv
<1>0. PICK b, own, m, i : b = pos[1] /\ own = Own(func, b) /\ m = Movs(func, b) /\ i = pos[2]
  OBVIOUS
<1>3. /\ IsFunc(func) /\ b \in Blocks(func) /\ ~CriticalPhi(func)
      /\ own \in Nat /\ m \in Nat /\ i \in 1..(own + m + 1)
      /\ i <= own => Current.op = "op"
      /\ i > own /\ i <= own + m => Current.op = "mov"
      /\ i = own + m + 1 => Current = LastInstr(func, b)
  BY <1>0, <1>2, AtInstr
<1>4. i = own + m + 1 /\ i > own /\ Current = LastInstr(func, b) /\ i - own - 1 = m
  BY <1>1, <1>3
<1>5. PICK c \in Children(func, b) :
        /\ pos' = <<c, 1>>
        /\ env' = [v \in DOMAIN env |->
                     LET phis == {phi \in ToSet(Phis(func, c)) : phi.defs[1] = v}
                     IN IF phis = {} THEN env[v] ELSE Inherited(CHOOSE phi \in phis : TRUE, b)]
  BY <1>0, <1>4 DEF RunJump, Children
<1>6. Moved(b, m)
  BY <1>0, <1>2, <1>4, MovedAtFirst
<1>7. c \in Blocks(func) /\ m = NumPhis(func, c) /\ queue = {}
  BY <1>0, <1>1, <1>3, MovsAre DEF Movs, RangesInv
<1>8. ASSUME NEW v \in LiveAfter(func, c, ExitSet(ranges[c]), NumPhis(func, c)), DefinedBefore(func, c, NumPhis(func, c) + 1, v)
      PROVE  regs[colors[v]] = env'[v]
  <2>1. v \in DOMAIN env
    BY <1>2 DEF LiveAfter, RunsRight
  <2> DEFINE phis == {phi \in ToSet(Phis(func, c)) : phi.defs[1] = v}
  <2>2. env'[v] = IF phis = {} THEN env[v] ELSE Inherited(CHOOSE phi \in phis : TRUE, b)
    BY <1>5, <2>1
  <2>3. CASE \E l \in 1..NumPhis(func, c) : v = PhiResult(func, c, l)
    <3>1. PICK l \in 1..NumPhis(func, c) : v = PhiResult(func, c, l)
      BY <2>3
    <3>2. func.blocks[c][l] \in phis
      BY <1>3, <1>7, <3>1, PhisAre DEF PhiResult
    <3>3. ASSUME NEW phi \in phis PROVE phi = func.blocks[c][l]
      <4>1. PICK x \in 1..NumPhis(func, c) : phi = func.blocks[c][x]
        BY <1>3, <1>7, PhisAre
      <4>2. v = PhiResult(func, c, x)
        BY <4>1 DEF PhiResult
      <4>3. x \in 1..Len(func.blocks[c]) /\ v \in ToSet(func.blocks[c][x].defs)
        BY <1>3, <1>7, <4>2, PhiIs
      <4>4. l \in 1..Len(func.blocks[c]) /\ v \in ToSet(func.blocks[c][l].defs)
        BY <1>3, <1>7, <3>1, PhiIs
      <4>5. x = l
        BY <1>3, <1>7, <4>3, <4>4, DefinedOnceIn
      <4> QED
        BY <4>1, <4>5
    <3>4. (CHOOSE phi \in phis : TRUE) = func.blocks[c][l]
      <4> HIDE DEF phis
      <4> QED
        BY <3>2, <3>3
    <3>5. env'[v] = Inherited(func.blocks[c][l], b)
      BY <2>2, <3>2, <3>4
    <3>6. regs[colors[PhiResult(func, c, l)]] = Inherited(func.blocks[c][l], b)
      BY <1>6, <1>7 DEF Moved
    <3> QED
      BY <3>1, <3>5, <3>6
  <2>4. CASE \A l \in 1..NumPhis(func, c) : v # PhiResult(func, c, l)
    <3>1. phis = {}
      <4> SUFFICES ASSUME NEW phi \in phis PROVE FALSE
        OBVIOUS
      <4>1. PICK x \in 1..NumPhis(func, c) : phi = func.blocks[c][x]
        BY <1>3, <1>7, PhisAre
      <4> QED
        BY <2>4, <4>1 DEF PhiResult
    <3>2. v \in ExitSet(ranges[b])
      BY <1>3, <1>7, LiveComes
    <3>3. DefinedBefore(func, b, Len(func.blocks[b]) + 1, v)
      BY <1>3, <1>8, <2>4, DefinedComes
    <3>4. regs[colors[v]] = env[v]
      BY <1>6, <1>7, <2>4, <3>2, <3>3 DEF Moved
    <3> QED
      BY <2>2, <3>1, <3>4
  <2> QED
    BY <2>3, <2>4
<1>9. LiveHold(c, NumPhis(func, c) + 1)'
  <2>1. NumPhis(func, c) \in Nat
    BY <1>3, <1>7
  <2>2. (NumPhis(func, c) + 1) - 1 = NumPhis(func, c)
    BY <2>1
  <2>3. \A v \in LiveAfter(func, c, ExitSet(ranges[c]), (NumPhis(func, c) + 1) - 1) :
          DefinedBefore(func, c, NumPhis(func, c) + 1, v) => regs[colors[v]] = env'[v]
    BY <1>8, <2>2
  <2> QED
    BY <1>1, <2>3 DEF LiveHold
<1>10. pos'[1] = c /\ pos'[2] = 1 /\ func' = func /\ c \in Blocks(func')
  BY <1>1, <1>5, <1>7
<1>11. 1 \in 1..(Own(func, c) + Movs(func, c) + 1) /\ ~(1 > Own(func, c) + 1)
  <2>1. Movs(func, c) \in Nat
    BY <1>3, <1>7, MovsAre DEF Movs
  <2>2. NumPhis(func, c) \in 0..(Len(func.blocks[c]) - 1) /\ Len(func.blocks[c]) \in Nat
    BY <1>3, <1>7, PhisAre, InstrsAre
  <2>3. Own(func, c) \in Nat
    BY <2>2 DEF Own
  <2> QED
    BY <2>1, <2>3
<1>12. DOMAIN env' = AllValues(func') /\ \A v \in DOMAIN colors' : colors'[v] \in DOMAIN regs'
  <2>1. DOMAIN env' = DOMAIN env
    BY <1>5
  <2> QED
    BY <1>1, <1>2, <2>1 DEF RunsRight
<1> QED
  BY <1>9, <1>10, <1>11, <1>12 DEF RunsRight

LEMMA RunKeeps ==
  ASSUME RangesInv, ColorsInv, RunInv, [Next]_vars
  PROVE  RunInv'
<1>1. CASE Propagate \/ BuildGraph \/ ColorValue
  <2>1. phase' # "run"
    BY <1>1 DEF Propagate, BuildGraph, ColorValue
  <2> QED
    BY <2>1 DEF RunInv
<1>2. CASE Enter
  BY <1>2, EnterKeeps
<1>3. CASE RunMov
  BY <1>3, RunMovKeeps
<1>4. CASE RunOp
  BY <1>4, RunOpKeeps
<1>5. CASE RunJump
  BY <1>5, RunJumpKeeps
<1>6. CASE UNCHANGED vars
  <2>1. UNCHANGED <<func, phase, queue, ranges, graph, colors, pos, env, regs>>
    BY <1>6 DEF vars
  <2>2. Shaped => Shaped'
    BY <2>1 DEF Shaped
  <2>3. \A b, i : LiveHold(b, i) => LiveHold(b, i)'
    BY <2>1 DEF LiveHold
  <2>4. \A b, j : Moved(b, j) => Moved(b, j)'
    BY <2>1 DEF Moved, Inherited, Constant
  <2>5. RunsRight => RunsRight'
    BY <2>1, <2>3, <2>4 DEF RunsRight
  <2> QED
    BY <2>1, <2>2, <2>5 DEF RunInv
<1> QED
  BY <1>1, <1>2, <1>3, <1>4, <1>5, <1>6 DEF Next, Allocate

\* The ranges are sound, the coloring is proper and the registers hold what
\* is live: at every moment of the allocation and of the run, in every
\* function that the checker accepts.
THEOREM AllocationIsSound == Spec => []AllocationInv
<1>1. Init => AllocationInv
  <2>1. Init => RunInv
    BY DEF Init, RunInv
  <2> QED
    BY <2>1, RangesInit, ColorsInit DEF AllocationInv
<1>2. AllocationInv /\ [Next]_vars => AllocationInv'
  BY RangesKeeps, ColorsKeep, RunKeeps DEF AllocationInv
<1> QED
  BY <1>1, <1>2, PTL DEF Spec

\* RegisterAllocator and PhiResolver: whatever the colors and the path, an
\* instruction of the allocated function reads the value that the function
\* reads, unless the function has one of the five shapes.
THEOREM AllocatedReadsAreRight == Spec => []ReadsAreRight
<1>1. AllocationInv => ReadsAreRight
  BY ReadsFollow DEF AllocationInv
<1> QED
  BY <1>1, AllocationIsSound, PTL
=============================================================================
