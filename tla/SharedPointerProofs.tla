------------------------ MODULE SharedPointerProofs ------------------------
(***************************************************************************)
(* The ownership protocol of shared pointers for programs of any size: the *)
(* counts are the numbers of owners, nothing is used after it was freed,   *)
(* and a block is abandoned by the last weak pointer to it only.           *)
(***************************************************************************)
EXTENDS SharedPointer, FiniteSetTheorems, SequenceTheorems, TLAPS

One(holds) == IF holds THEN 1 ELSE 0

(* How many of the tasks in q are in T. *)
Positions(q, T) == {i \in DOMAIN q : q[i] \in T}
NumTasks(q, T) == Cardinality(Positions(q, T))

LEMMA PositionsFinite ==
  ASSUME NEW S, NEW q \in Seq(S), NEW T
  PROVE  IsFiniteSet(Positions(q, T)) /\ NumTasks(q, T) \in Nat
<1>1. IsFiniteSet(1..Len(q))
  BY FS_Interval
<1>2. Positions(q, T) \subseteq 1..Len(q)
  BY DEF Positions
<1> QED
  BY <1>1, <1>2, FS_Subset, FS_CardinalityType DEF NumTasks

LEMMA NumTasksOfNone ==
  ASSUME NEW T
  PROVE  NumTasks(<<>>, T) = 0
<1>1. Positions(<<>>, T) = {}
  BY DEF Positions
<1> QED
  BY <1>1, FS_EmptySet DEF NumTasks

LEMMA NumTasksOfCons ==
  ASSUME NEW S, NEW q \in Seq(S), NEW x \in S, NEW T
  PROVE  NumTasks(<<x>> \o q, T) = NumTasks(q, T) + One(x \in T)
<1> DEFINE p == <<x>> \o q
           P == Positions(p, T)
           Q == Positions(q, T)
           f == [i \in Q |-> i + 1]
<1>1. /\ p \in Seq(S) /\ Len(p) = Len(q) + 1 /\ p[1] = x /\ Len(q) \in Nat
      /\ \A i \in 1..Len(q) : p[i + 1] = q[i]
      /\ DOMAIN p = 1..(Len(q) + 1) /\ DOMAIN q = 1..Len(q)
  OBVIOUS
<1> HIDE DEF p
<1>2. IsFiniteSet(P) /\ IsFiniteSet(Q) /\ Cardinality(P) \in Nat /\ Cardinality(Q) \in Nat
  BY <1>1, PositionsFinite DEF NumTasks
<1>3. P \ {1} = {i + 1 : i \in Q}
  <2>1. ASSUME NEW j \in P \ {1}
        PROVE  j - 1 \in Q /\ j = (j - 1) + 1
    <3>1. j \in 2..(Len(q) + 1) /\ p[j] \in T
      BY <1>1 DEF Positions
    <3>2. j - 1 \in 1..Len(q) /\ (j - 1) + 1 = j
      BY <1>1, <3>1
    <3>3. p[j] = q[j - 1]
      BY <1>1, <3>2
    <3> QED
      BY <1>1, <3>1, <3>2, <3>3 DEF Positions
  <2>2. ASSUME NEW i \in Q
        PROVE  i + 1 \in P \ {1}
    BY <1>1 DEF Positions
  <2> QED
    BY <2>1, <2>2
<1>4. Cardinality(P \ {1}) = Cardinality(Q)
  <2>1. f \in Bijection(Q, P \ {1})
    <3>1. Q \subseteq Int
      BY <1>1 DEF Positions
    <3>2. f \in [Q -> P \ {1}]
      BY <1>3
    <3>3. \A i, j \in Q : f[i] = f[j] => i = j
      BY <3>1
    <3>4. \A k \in P \ {1} : \E i \in Q : f[i] = k
      BY <1>3
    <3> QED
      BY <3>2, <3>3, <3>4 DEF Bijection, Injection, Surjection, IsInjective
  <2> QED
    BY <1>2, <2>1, FS_Bijection DEF ExistsBijection
<1>5. 1 \in P <=> x \in T
  BY <1>1 DEF Positions
<1>6. Cardinality(P \ {1}) = IF 1 \in P THEN Cardinality(P) - 1 ELSE Cardinality(P)
  BY <1>2, FS_RemoveElement
<1> QED
  BY <1>2, <1>4, <1>5, <1>6 DEF NumTasks, One, p

(* There is a task in T exactly if some are counted. *)
LEMMA SomeTask ==
  ASSUME NEW S, NEW q \in Seq(S), NEW T
  PROVE  NumTasks(q, T) > 0 <=> \E i \in DOMAIN q : q[i] \in T
<1>1. NumTasks(q, T) \in Nat /\ IsFiniteSet(Positions(q, T))
  BY PositionsFinite
<1>2. NumTasks(q, T) = 0 <=> Positions(q, T) = {}
  BY <1>1, FS_EmptySet DEF NumTasks
<1> QED
  BY <1>1, <1>2 DEF Positions

(* What a set counts with and without one of its members. *)
LEMMA WithAndWithout ==
  ASSUME NEW S, IsFiniteSet(S), NEW d
  PROVE  /\ IsFiniteSet(S \ {d}) /\ Cardinality(S \ {d}) \in Nat /\ Cardinality(S) \in Nat
         /\ Cardinality(S) = Cardinality(S \ {d}) + One(d \in S)
  BY FS_RemoveElement, FS_CardinalityType DEF One

-----------------------------------------------------------------------------
(* The programs the theorems are about: weak pointers lead to data, and the *)
(* pointer behind a pointer is not used as a value.                         *)
Types == {t \in Seq(Strengths) : \A i \in DOMAIN t : t[i] = "weak" => i = Len(t)}

OwningProgram ==
  /\ IsFiniteSet(Vars)
  /\ \A v \in Vars : VarType[v] \in Types
  /\ "deref_pointer" \notin Exprs

Pointers == [s : Strengths, b : Blocks]
Statuses == {"unused", "alive", "destroyed", "freed"}
Block == [status : Statuses, type : Types, strong : Nat, weak : Nat, element : Blocks \cup {Nil}]

StateInv ==
  /\ heap \in [Blocks -> Block]
  /\ address \in [Vars -> Blocks \cup {Nil}]
  /\ scope \in Seq(Vars)
  /\ todo \in Seq(Tasks)
  /\ phase \in {"running", "ended"}
  /\ fault \in {"none", "nil", "freed", "panic"}

Moving == {"replace", "store"}

TasksOf(q) == {q[i] : i \in DOMAIN q}

(* A pointer's value is a block of the type it points to.                   *)
PointsTo(type, b) == type # <<>> /\ b # Nil => heap[b].status # "unused" /\ heap[b].type = Tail(type)

TypingInv ==
  /\ \A v \in Vars : address[v] # Nil => heap[address[v]].type = VarType[v]
  /\ \A c \in Blocks : heap[c].status = "alive" => PointsTo(heap[c].type, heap[c].element)
  /\ \A t \in TasksOf(todo) : t.do \in Moving =>
       /\ heap[t.at.b].status # "unused"
       /\ t.at.s = "weak" => heap[t.at.b].type = <<>>
       /\ PointsTo(heap[t.at.b].type, t.b)

(* An assignment is the last thing to be done.                              *)
Shape(q) ==
  \A i \in DOMAIN q :
    /\ q[i].do = "replace" => i = Len(q)
    /\ q[i].do = "store" => i + 1 = Len(q) /\ q[Len(q)] = Delete(q[i].at.s, q[i].at.b)

ShapeInv == Shape(todo)

ScopeInv ==
  /\ \A i, j \in DOMAIN scope : scope[i] = scope[j] => i = j
  /\ \A v \in Vars : address[v] # Nil <=> \E i \in DOMAIN scope : scope[i] = v

-----------------------------------------------------------------------------
(* Owners, counted apart: variables, elements, tasks that hold a pointer,   *)
(* tasks that hold an address, and the frames of delete_strong_shared.      *)
VarsAt(s, b) == {v \in Vars : s = "strong" /\ address[v] = b}

PointersOf(s) == {at \in Pointers : heap[at.b].type # <<>> /\ heap[at.b].type[1] = s}
ValueTasks(s, b) ==
  {Delete(s, b)} \cup {Replace(at, b) : at \in PointersOf(s)} \cup {Store(at, b) : at \in PointersOf(s)}
AddressTasks(s, b) == {Replace(Pointer(s, b), c) : c \in Blocks \cup {Nil}}

Held(s, b) ==
  Cardinality(VarsAt(s, b)) + Cardinality(Elements(s, b))
    + NumTasks(todo, ValueTasks(s, b)) + NumTasks(todo, AddressTasks(s, b))
Ending(b) == NumTasks(todo, {Finish(b)})

(* The counts of a block with h strong owners, w weak ones and e endings.   *)
Counted(c, h, w, e) ==
  CASE c.status = "alive" -> c.strong = h /\ h > 0 /\ c.weak = w /\ e = 0
    [] c.status = "destroyed" -> c.strong = 1 /\ h = 0 /\ c.weak = w /\ e <= 1
    [] OTHER -> h = 0 /\ w = 0 /\ e = 0

CountInv == \A b \in Blocks : Counted(heap[b], Held("strong", b), Held("weak", b), Ending(b))

IInv ==
  /\ StateInv
  /\ TypingInv
  /\ ShapeInv
  /\ ScopeInv
  /\ CountInv
  /\ fault # "freed"

(* What each task counts for. *)
LEMMA TaskForms ==
  /\ \A s \in Strengths, b \in Blocks \cup {Nil} :
       Delete(s, b) \in Tasks /\ Delete(s, b).do = "delete" /\ Delete(s, b).s = s /\ Delete(s, b).b = b
  /\ \A b \in Blocks : Finish(b) \in Tasks /\ Finish(b).do = "finish" /\ Finish(b).b = b
  /\ \A at \in Pointers, b \in Blocks \cup {Nil} :
       /\ Replace(at, b) \in Tasks /\ Replace(at, b).do = "replace"
       /\ Replace(at, b).at = at /\ Replace(at, b).b = b
       /\ Store(at, b) \in Tasks /\ Store(at, b).do = "store"
       /\ Store(at, b).at = at /\ Store(at, b).b = b
  BY DEF Delete, Finish, Replace, Store, Tasks, Pointers

LEMMA TaskKinds ==
  ASSUME NEW t \in Tasks
  PROVE  /\ t.do = "delete" => t.s \in Strengths /\ t.b \in Blocks \cup {Nil} /\ t = Delete(t.s, t.b)
         /\ t.do = "finish" => t.b \in Blocks /\ t = Finish(t.b)
         /\ t.do = "replace" => t.at \in Pointers /\ t.b \in Blocks \cup {Nil} /\ t = Replace(t.at, t.b)
         /\ t.do = "store" => t.at \in Pointers /\ t.b \in Blocks \cup {Nil} /\ t = Store(t.at, t.b)
         /\ t.do \in {"delete", "finish"} \cup Moving
<1>1. CASE t \in [do : {"delete"}, s : Strengths, b : Blocks \cup {Nil}]
  BY <1>1 DEF Delete, Moving
<1>2. CASE t \in [do : {"finish"}, b : Blocks]
  BY <1>2 DEF Finish, Moving
<1>3. CASE t \in [do : {"replace", "store"}, at : [s : Strengths, b : Blocks], b : Blocks \cup {Nil}]
  BY <1>3 DEF Replace, Store, Moving, Pointers
<1> QED
  BY <1>1, <1>2, <1>3 DEF Tasks

LEMMA PointerForms ==
  /\ \A s \in Strengths, b \in Blocks : Pointer(s, b) \in Pointers /\ Pointer(s, b).s = s /\ Pointer(s, b).b = b
  /\ \A p \in Pointers : p.s \in Strengths /\ p.b \in Blocks /\ p = Pointer(p.s, p.b)
  BY DEF Pointer, Pointers

LEMMA TaskWeights ==
  ASSUME NEW s \in Strengths, NEW b \in Blocks
  PROVE  /\ \A r \in Strengths, c \in Blocks \cup {Nil} :
              /\ Delete(r, c) \in ValueTasks(s, b) <=> r = s /\ c = b
              /\ Delete(r, c) \notin AddressTasks(s, b)
              /\ \A d \in Blocks : Delete(r, c) # Finish(d)
         /\ \A c \in Blocks : Finish(c) \notin ValueTasks(s, b) /\ Finish(c) \notin AddressTasks(s, b)
         /\ \A c, d \in Blocks : Finish(c) = Finish(d) => c = d
         /\ \A at \in Pointers, c \in Blocks \cup {Nil} :
              /\ Replace(at, c) \in ValueTasks(s, b) <=> at \in PointersOf(s) /\ c = b
              /\ Replace(at, c) \in AddressTasks(s, b) <=> at = Pointer(s, b)
              /\ Store(at, c) \in ValueTasks(s, b) <=> at \in PointersOf(s) /\ c = b
              /\ Store(at, c) \notin AddressTasks(s, b)
              /\ \A d \in Blocks : Replace(at, c) # Finish(d) /\ Store(at, c) # Finish(d)
<1>1. PointersOf(s) \subseteq Pointers
  BY DEF PointersOf
<1>2. Pointer(s, b) \in Pointers
  BY PointerForms
<1>3. ASSUME NEW r \in Strengths, NEW c \in Blocks \cup {Nil}
      PROVE  /\ Delete(r, c) \in ValueTasks(s, b) <=> r = s /\ c = b
             /\ Delete(r, c) \notin AddressTasks(s, b)
             /\ \A d \in Blocks : Delete(r, c) # Finish(d)
  BY <1>1, <1>2, TaskForms DEF ValueTasks, AddressTasks
<1>4. ASSUME NEW c \in Blocks
      PROVE  /\ Finish(c) \notin ValueTasks(s, b) /\ Finish(c) \notin AddressTasks(s, b)
             /\ \A d \in Blocks : Finish(c) = Finish(d) => c = d
  BY <1>1, <1>2, TaskForms DEF ValueTasks, AddressTasks
<1>5. ASSUME NEW at \in Pointers, NEW c \in Blocks \cup {Nil}
      PROVE  /\ Replace(at, c) \in ValueTasks(s, b) <=> at \in PointersOf(s) /\ c = b
             /\ Replace(at, c) \in AddressTasks(s, b) <=> at = Pointer(s, b)
             /\ Store(at, c) \in ValueTasks(s, b) <=> at \in PointersOf(s) /\ c = b
             /\ Store(at, c) \notin AddressTasks(s, b)
             /\ \A d \in Blocks : Replace(at, c) # Finish(d) /\ Store(at, c) # Finish(d)
  <2>1. /\ Replace(at, c) \in ValueTasks(s, b) <=> at \in PointersOf(s) /\ c = b
        /\ Store(at, c) \in ValueTasks(s, b) <=> at \in PointersOf(s) /\ c = b
    BY <1>1, <1>2, TaskForms DEF ValueTasks
  <2>2. /\ Replace(at, c) \in AddressTasks(s, b) <=> at = Pointer(s, b)
        /\ Store(at, c) \notin AddressTasks(s, b)
    BY <1>1, <1>2, TaskForms DEF AddressTasks
  <2> QED
    BY <2>1, <2>2, TaskForms
<1> QED
  BY <1>3, <1>4, <1>5

-----------------------------------------------------------------------------
(* The tasks that are left when the first one has been replaced by others. *)
LEMMA ConsTasks ==
  ASSUME NEW q \in Seq(Tasks), NEW x \in Tasks
  PROVE  /\ <<x>> \o q \in Seq(Tasks) /\ TasksOf(<<x>> \o q) = {x} \cup TasksOf(q)
         /\ Shape(q) /\ x.do \notin Moving => Shape(<<x>> \o q)
<1> DEFINE p == <<x>> \o q
<1>1. /\ p \in Seq(Tasks) /\ Len(p) = Len(q) + 1 /\ p[1] = x /\ Len(q) \in Nat
      /\ \A i \in 1..Len(q) : p[i + 1] = q[i]
      /\ \A i \in 2..Len(p) : i - 1 \in 1..Len(q) /\ p[i] = q[i - 1]
      /\ DOMAIN p = 1..Len(p) /\ DOMAIN q = 1..Len(q)
  OBVIOUS
<1> HIDE DEF p
<1>2. TasksOf(p) = {x} \cup TasksOf(q)
  <2>1. ASSUME NEW i \in DOMAIN p PROVE p[i] \in {x} \cup TasksOf(q)
    <3>1. i = 1 \/ (i \in 2..Len(p))
      BY <1>1
    <3>2. CASE i \in 2..Len(p)
      <4>1. i - 1 \in DOMAIN q /\ p[i] = q[i - 1]
        BY <1>1, <3>2
      <4> QED
        BY <4>1 DEF TasksOf
    <3> QED
      BY <1>1, <3>1, <3>2
  <2>2. ASSUME NEW i \in DOMAIN q PROVE q[i] \in TasksOf(p)
    <3>1. i + 1 \in DOMAIN p /\ p[i + 1] = q[i]
      BY <1>1
    <3> QED
      BY <3>1 DEF TasksOf
  <2>3. x \in TasksOf(p)
    BY <1>1 DEF TasksOf
  <2> QED
    BY <2>1, <2>2, <2>3 DEF TasksOf
<1>3. ASSUME Shape(q), x.do \notin Moving
      PROVE  Shape(p)
  <2> SUFFICES ASSUME NEW i \in DOMAIN p
               PROVE  /\ p[i].do = "replace" => i = Len(p)
                      /\ p[i].do = "store" => i + 1 = Len(p) /\ p[Len(p)] = Delete(p[i].at.s, p[i].at.b)
    BY DEF Shape
  <2>1. CASE i = 1
    BY <1>1, <1>3, <2>1 DEF Moving
  <2>2. CASE i # 1
    <3>1. i - 1 \in DOMAIN q /\ p[i] = q[i - 1] /\ i \in Nat
      BY <1>1, <2>2
    <3>2. Len(q) # 0 => p[Len(p)] = q[Len(q)]
      BY <1>1
    <3>3. Len(q) # 0
      BY <1>1, <3>1
    <3> QED
      BY <1>1, <1>3, <3>1, <3>2, <3>3 DEF Shape
  <2> QED
    BY <2>1, <2>2
<1> QED
  BY <1>1, <1>2, <1>3 DEF p

LEMMA TailTasks ==
  ASSUME NEW q \in Seq(Tasks), q # <<>>
  PROVE  /\ Tail(q) \in Seq(Tasks) /\ q[1] \in Tasks /\ q = <<q[1]>> \o Tail(q)
         /\ TasksOf(q) = {q[1]} \cup TasksOf(Tail(q))
         /\ Shape(q) => Shape(Tail(q))
<1>1. Tail(q) \in Seq(Tasks) /\ q[1] \in Tasks /\ q = <<q[1]>> \o Tail(q)
  OBVIOUS
<1>2. TasksOf(q) = {q[1]} \cup TasksOf(Tail(q))
  BY <1>1, ConsTasks
<1>3. ASSUME Shape(q)
      PROVE  Shape(Tail(q))
  <2> SUFFICES ASSUME NEW i \in DOMAIN Tail(q)
               PROVE  /\ Tail(q)[i].do = "replace" => i = Len(Tail(q))
                      /\ Tail(q)[i].do = "store" =>
                           i + 1 = Len(Tail(q)) /\ Tail(q)[Len(Tail(q))] = Delete(Tail(q)[i].at.s, Tail(q)[i].at.b)
    BY DEF Shape
  <2>1. /\ i \in 1..(Len(q) - 1) /\ i + 1 \in DOMAIN q /\ Tail(q)[i] = q[i + 1]
        /\ Len(Tail(q)) = Len(q) - 1 /\ Len(q) \in Nat
    OBVIOUS
  <2>2. Tail(q)[Len(Tail(q))] = q[Len(q)]
    BY <2>1
  <2> QED
    BY <1>3, <2>1, <2>2 DEF Shape
<1> QED
  BY <1>1, <1>2, <1>3

LEMMA NumTasksOfTail ==
  ASSUME NEW q \in Seq(Tasks), q # <<>>, NEW T
  PROVE  /\ NumTasks(Tail(q), T) \in Nat /\ NumTasks(q, T) \in Nat
         /\ NumTasks(q, T) = NumTasks(Tail(q), T) + One(q[1] \in T)
<1>1. Tail(q) \in Seq(Tasks) /\ q[1] \in Tasks /\ q = <<q[1]>> \o Tail(q)
  BY TailTasks
<1>2. NumTasks(<<q[1]>> \o Tail(q), T) = NumTasks(Tail(q), T) + One(q[1] \in T)
  BY <1>1, NumTasksOfCons
<1>3. NumTasks(Tail(q), T) \in Nat /\ NumTasks(q, T) \in Nat
  BY <1>1, PositionsFinite
<1> QED
  BY <1>1, <1>2, <1>3, Zenon

LEMMA PairIsConcat ==
  ASSUME NEW S, NEW x \in S, NEW y \in S
  PROVE  <<x>> \in Seq(S) /\ <<y>> \in Seq(S) /\ <<x, y>> = <<x>> \o <<y>>
<1> DEFINE l == <<x, y>>
           r == <<x>> \o <<y>>
<1>1. /\ <<x>> \in Seq(S) /\ Len(<<x>>) = 1 /\ <<x>>[1] = x
      /\ <<y>> \in Seq(S) /\ Len(<<y>>) = 1 /\ <<y>>[1] = y
  OBVIOUS
<1>2. l \in Seq(S) /\ Len(l) = 2 /\ l[1] = x /\ l[2] = y
  OBVIOUS
<1>3. r \in Seq(S) /\ Len(r) = 2
  BY <1>1, ConcatProperties
<1>4. r[1] = x /\ r[2] = y
  BY <1>1
<1> HIDE DEF l, r
<1>5. \A i \in 1..Len(l) : l[i] = r[i]
  BY <1>2, <1>3, <1>4
<1>6. l = r
  BY <1>2, <1>3, <1>5, SeqEqual
<1> QED
  BY <1>1, <1>6 DEF l, r

LEMMA PushTwo ==
  ASSUME NEW q \in Seq(Tasks), NEW x \in Tasks, NEW y \in Tasks
  PROVE  /\ <<x, y>> \o q \in Seq(Tasks)
         /\ TasksOf(<<x, y>> \o q) = {x, y} \cup TasksOf(q)
         /\ Shape(q) /\ x.do \notin Moving /\ y.do \notin Moving => Shape(<<x, y>> \o q)
         /\ \A T : NumTasks(<<x, y>> \o q, T) = NumTasks(q, T) + One(x \in T) + One(y \in T)
<1> DEFINE p == <<y>> \o q
<1>1. <<x, y>> \o q = <<x>> \o p
  <2>1. <<x>> \in Seq(Tasks) /\ <<y>> \in Seq(Tasks) /\ <<x, y>> = <<x>> \o <<y>>
    BY PairIsConcat
  <2>2. (<<x>> \o <<y>>) \o q = <<x>> \o (<<y>> \o q)
    BY <2>1, ConcatAssociative
  <2> QED
    BY <2>1, <2>2, Zenon
<1>2. p \in Seq(Tasks) /\ TasksOf(p) = {y} \cup TasksOf(q) /\ (Shape(q) /\ y.do \notin Moving => Shape(p))
      /\ \A T : NumTasks(p, T) = NumTasks(q, T) + One(y \in T)
  BY ConsTasks, NumTasksOfCons
<1>3. \A T : NumTasks(p, T) \in Nat /\ NumTasks(q, T) \in Nat
  BY <1>2, PositionsFinite
<1> HIDE DEF p
<1>4. \A T : NumTasks(<<x>> \o p, T) = NumTasks(q, T) + One(x \in T) + One(y \in T)
  <2> TAKE T
  <2>1. NumTasks(<<x>> \o p, T) = NumTasks(p, T) + One(x \in T)
    BY <1>2, NumTasksOfCons
  <2> QED
    BY <1>2, <1>3, <2>1 DEF One
<1>5. /\ <<x>> \o p \in Seq(Tasks) /\ TasksOf(<<x>> \o p) = {x} \cup TasksOf(p)
      /\ Shape(p) /\ x.do \notin Moving => Shape(<<x>> \o p)
  BY <1>2, ConsTasks
<1> QED
  BY <1>1, <1>2, <1>4, <1>5

-----------------------------------------------------------------------------
(* Whoever holds a pointer keeps its block from being freed.               *)
LEMMA HeldParts ==
  ASSUME StateInv, OwningProgram, NEW s \in Strengths, NEW b \in Blocks \cup {Nil}
  PROVE  /\ IsFiniteSet(VarsAt(s, b)) /\ IsFiniteSet(Elements(s, b))
         /\ Cardinality(VarsAt(s, b)) \in Nat /\ Cardinality(Elements(s, b)) \in Nat
         /\ NumTasks(todo, ValueTasks(s, b)) \in Nat /\ NumTasks(todo, AddressTasks(s, b)) \in Nat
         /\ Ending(b) \in Nat
<1>1. IsFiniteSet(VarsAt(s, b)) /\ IsFiniteSet(Elements(s, b))
  BY BlocksAssumption, FS_Subset DEF OwningProgram, VarsAt, Elements
<1> QED
  BY <1>1, FS_CardinalityType, PositionsFinite DEF StateInv, Ending

LEMMA Holders ==
  ASSUME StateInv, OwningProgram, NEW s \in Strengths, NEW b \in Blocks,
         \/ VarsAt(s, b) # {} \/ Elements(s, b) # {}
         \/ \E t \in TasksOf(todo) : t \in ValueTasks(s, b) \cup AddressTasks(s, b)
  PROVE  Held(s, b) > 0
<1>1. CASE VarsAt(s, b) # {}
  BY <1>1, HeldParts, FS_EmptySet DEF Held
<1>2. CASE Elements(s, b) # {}
  BY <1>2, HeldParts, FS_EmptySet DEF Held
<1>3. CASE \E t \in TasksOf(todo) : t \in ValueTasks(s, b)
  <2>1. NumTasks(todo, ValueTasks(s, b)) > 0
    BY <1>3, SomeTask DEF TasksOf, StateInv
  <2> QED
    BY <2>1, HeldParts DEF Held
<1>4. CASE \E t \in TasksOf(todo) : t \in AddressTasks(s, b)
  <2>1. NumTasks(todo, AddressTasks(s, b)) > 0
    BY <1>4, SomeTask DEF TasksOf, StateInv
  <2> QED
    BY <2>1, HeldParts DEF Held
<1> QED
  BY <1>1, <1>2, <1>3, <1>4

LEMMA HeldIsThere ==
  ASSUME StateInv, OwningProgram, CountInv, NEW s \in Strengths, NEW b \in Blocks,
         \/ VarsAt(s, b) # {} \/ Elements(s, b) # {}
         \/ \E t \in TasksOf(todo) : t \in ValueTasks(s, b) \cup AddressTasks(s, b)
  PROVE  /\ b \in Allocated
         /\ s = "strong" => heap[b].status = "alive"
<1>1. Held(s, b) > 0
  BY Holders
<1>2. CASE s = "strong"
  BY <1>1, <1>2 DEF CountInv, Counted, Allocated
<1>3. CASE s = "weak"
  BY <1>1, <1>3, HeldParts DEF CountInv, Counted, Allocated
<1> QED
  BY <1>2, <1>3 DEF Strengths

(* Elements are counted for one block at a time. *)
LEMMA ElementsChange ==
  ASSUME StateInv, StateInv', NEW d \in Blocks, NEW s \in Strengths, NEW b \in Blocks,
         \A c \in Blocks \ {d} : c \in Elements(s, b)' <=> c \in Elements(s, b)
  PROVE  Cardinality(Elements(s, b)') =
           Cardinality(Elements(s, b)) - One(d \in Elements(s, b)) + One(d \in Elements(s, b)')
<1> DEFINE E == Elements(s, b)
           F == Elements(s, b)'
<1>1. E \subseteq Blocks /\ F \subseteq Blocks
  BY DEF Elements
<1>2. E \ {d} = F \ {d}
  BY <1>1
<1>3. IsFiniteSet(E) /\ IsFiniteSet(F)
  BY <1>1, BlocksAssumption, FS_Subset
<1> HIDE DEF E, F
<1>4. Cardinality(E) = Cardinality(E \ {d}) + One(d \in E) /\ Cardinality(E \ {d}) \in Nat
  BY <1>3, WithAndWithout
<1>5. Cardinality(F) = Cardinality(F \ {d}) + One(d \in F)
  BY <1>3, WithAndWithout
<1>6. Cardinality(F) = Cardinality(E) - One(d \in E) + One(d \in F)
  <2>1. Cardinality(F) = Cardinality(E \ {d}) + One(d \in F)
    BY <1>2, <1>5, Zenon
  <2>2. One(d \in E) \in Int /\ One(d \in F) \in Int
    BY DEF One
  <2> QED
    BY <1>4, <2>1, <2>2
<1> QED
  BY <1>6 DEF E, F

(* One task may be pushed or none. *)
LEMMA PushMaybe ==
  ASSUME NEW q \in Seq(Tasks), NEW none \in BOOLEAN, NEW x, none \/ x \in Tasks
  PROVE  LET p == (IF none THEN <<>> ELSE <<x>>) \o q IN
         /\ p \in Seq(Tasks)
         /\ TasksOf(p) = (IF none THEN {} ELSE {x}) \cup TasksOf(q)
         /\ Shape(q) /\ (~none => x.do \notin Moving) => Shape(p)
         /\ \A T : NumTasks(p, T) = NumTasks(q, T) + One(~none /\ x \in T)
<1>1. CASE none
  <2>1. (IF none THEN <<>> ELSE <<x>>) \o q = q
    BY <1>1, ConcatEmptySeq
  <2>2. \A T : NumTasks(q, T) \in Nat
    BY PositionsFinite
  <2> QED
    BY <1>1, <2>1, <2>2 DEF One
<1>2. CASE ~none
  <2>1. \A T : NumTasks(<<x>> \o q, T) = NumTasks(q, T) + One(x \in T)
    BY <1>2, NumTasksOfCons
  <2>2. /\ <<x>> \o q \in Seq(Tasks) /\ TasksOf(<<x>> \o q) = {x} \cup TasksOf(q)
        /\ Shape(q) /\ x.do \notin Moving => Shape(<<x>> \o q)
    BY <1>2, ConsTasks
  <2> QED
    BY <1>2, <2>1, <2>2
<1> QED
  BY <1>1, <1>2

(* What an element is, before and after a step. *)
LEMMA ElementsForm ==
  ASSUME NEW s, NEW b, NEW c \in Blocks
  PROVE  /\ c \in Elements(s, b) <=>
              /\ heap[c].status = "alive" /\ heap[c].type # <<>> /\ heap[c].type[1] = s /\ heap[c].element = b
              /\ \A t \in TasksOf(todo) : t.do = "store" => t.at.b # c
         /\ c \in Elements(s, b)' <=>
              /\ heap'[c].status = "alive" /\ heap'[c].type # <<>> /\ heap'[c].type[1] = s /\ heap'[c].element = b
              /\ \A t \in TasksOf(todo') : t.do = "store" => t.at.b # c
BY DEF Elements, ElementType, TasksOf

-----------------------------------------------------------------------------
(* The steps. A step that stops the program changes nothing else.          *)
LEMMA Stopped ==
  ASSUME IInv, NEW f \in {"nil", "panic"}, Stop(f)
  PROVE  IInv'
<1>1. fault' = f /\ heap' = heap /\ address' = address /\ scope' = scope /\ todo' = todo /\ phase' = phase
  BY DEF Stop
<1>2. StateInv' /\ TypingInv' /\ ShapeInv' /\ ScopeInv' /\ fault' # "freed"
  BY <1>1 DEF IInv, StateInv, TypingInv, PointsTo, ShapeInv, ScopeInv
<1>3. \A s, b : Held(s, b)' = Held(s, b) /\ Ending(b)' = Ending(b)
  BY <1>1 DEF Held, Ending, VarsAt, Elements, ElementType, ValueTasks, PointersOf, AddressTasks
<1>4. CountInv'
  BY <1>1, <1>3 DEF IInv, CountInv
<1> QED
  BY <1>2, <1>4 DEF IInv

(* What the owners of a pointer are after the first task was replaced.      *)
LEMMA HeldChange ==
  ASSUME StateInv, StateInv', OwningProgram, NEW s \in Strengths, NEW b \in Blocks, NEW d \in Blocks,
         address' = address, \A c \in Blocks : heap'[c].type = heap[c].type,
         todo # <<>>, NEW values \in Int, NEW addresses \in Int,
         NumTasks(todo', ValueTasks(s, b)) = NumTasks(Tail(todo), ValueTasks(s, b)) + values,
         NumTasks(todo', AddressTasks(s, b)) = NumTasks(Tail(todo), AddressTasks(s, b)) + addresses,
         \A c \in Blocks \ {d} : c \in Elements(s, b)' <=> c \in Elements(s, b)
  PROVE  /\ Held(s, b) \in Nat
         /\ Held(s, b)' =
              Held(s, b) + values + addresses
                - One(todo[1] \in ValueTasks(s, b)) - One(todo[1] \in AddressTasks(s, b))
                - One(d \in Elements(s, b)) + One(d \in Elements(s, b)')
<1>1. VarsAt(s, b)' = VarsAt(s, b)
  BY DEF VarsAt
<1>2. ValueTasks(s, b)' = ValueTasks(s, b)
  <2>1. PointersOf(s)' = PointersOf(s)
    BY PointerForms DEF PointersOf
  <2> QED
    BY <2>1 DEF ValueTasks
<1>3. AddressTasks(s, b)' = AddressTasks(s, b)
  BY DEF AddressTasks
<1>4. Cardinality(Elements(s, b)') =
        Cardinality(Elements(s, b)) - One(d \in Elements(s, b)) + One(d \in Elements(s, b)')
  BY ElementsChange
<1>5. /\ NumTasks(Tail(todo), ValueTasks(s, b)) \in Nat
      /\ NumTasks(todo, ValueTasks(s, b)) =
           NumTasks(Tail(todo), ValueTasks(s, b)) + One(todo[1] \in ValueTasks(s, b))
      /\ NumTasks(Tail(todo), AddressTasks(s, b)) \in Nat
      /\ NumTasks(todo, AddressTasks(s, b)) =
           NumTasks(Tail(todo), AddressTasks(s, b)) + One(todo[1] \in AddressTasks(s, b))
  BY NumTasksOfTail DEF StateInv
<1>6. Cardinality(VarsAt(s, b)) \in Nat /\ Cardinality(Elements(s, b)) \in Nat
  BY HeldParts
<1>7. /\ One(todo[1] \in ValueTasks(s, b)) \in Int /\ One(todo[1] \in AddressTasks(s, b)) \in Int
      /\ One(d \in Elements(s, b)) \in Int /\ One(d \in Elements(s, b)') \in Int
  BY DEF One
<1>8. Held(s, b)' = Cardinality(VarsAt(s, b)) + Cardinality(Elements(s, b)')
                      + NumTasks(todo', ValueTasks(s, b)) + NumTasks(todo', AddressTasks(s, b))
  BY <1>1, <1>2, <1>3 DEF Held
<1>9. Held(s, b) \in Nat
  BY <1>6, HeldParts DEF Held
<1>10. Held(s, b) = Cardinality(VarsAt(s, b)) + Cardinality(Elements(s, b))
                      + NumTasks(todo, ValueTasks(s, b)) + NumTasks(todo, AddressTasks(s, b))
  BY DEF Held
<1> DEFINE h1 == Held(s, b)'
           h0 == Held(s, b)
           k == Cardinality(VarsAt(s, b))
           e1 == Cardinality(Elements(s, b)')
           e0 == Cardinality(Elements(s, b))
           v1 == NumTasks(todo', ValueTasks(s, b))
           a1 == NumTasks(todo', AddressTasks(s, b))
           vt == NumTasks(Tail(todo), ValueTasks(s, b))
           at == NumTasks(Tail(todo), AddressTasks(s, b))
           v0 == NumTasks(todo, ValueTasks(s, b))
           a0 == NumTasks(todo, AddressTasks(s, b))
           wv == One(todo[1] \in ValueTasks(s, b))
           wa == One(todo[1] \in AddressTasks(s, b))
           we == One(d \in Elements(s, b))
           wf == One(d \in Elements(s, b)')
<1>11. /\ h1 = k + e1 + v1 + a1 /\ h0 = k + e0 + v0 + a0
       /\ v1 = vt + values /\ a1 = at + addresses /\ v0 = vt + wv /\ a0 = at + wa
       /\ e1 = e0 - we + wf
  BY <1>4, <1>5, <1>8, <1>10
<1>12. k \in Nat /\ e0 \in Nat /\ vt \in Nat /\ at \in Nat /\ wv \in Int /\ wa \in Int /\ we \in Int /\ wf \in Int
  BY <1>5, <1>6, <1>7
<1> HIDE DEF h1, h0, k, e1, e0, v1, a1, vt, at, v0, a0, wv, wa, we, wf
<1>13. h1 = h0 + values + addresses - wv - wa - we + wf
  BY <1>11, <1>12
<1> QED
  BY <1>9, <1>13 DEF h1, h0, wv, wa, we, wf

LEMMA EndingChange ==
  ASSUME StateInv, todo # <<>>, NEW b \in Blocks
  PROVE  /\ Ending(b) \in Nat
         /\ Ending(b)' = NumTasks(todo', {Finish(b)})
         /\ NumTasks(Tail(todo), {Finish(b)}) = Ending(b) - One(todo[1] = Finish(b))
<1>1. /\ NumTasks(Tail(todo), {Finish(b)}) \in Nat /\ Ending(b) \in Nat
      /\ Ending(b) = NumTasks(Tail(todo), {Finish(b)}) + One(todo[1] \in {Finish(b)})
  BY NumTasksOfTail DEF StateInv, Ending
<1>2. Ending(b)' = NumTasks(todo', {Finish(b)})
  BY DEF Ending, Finish
<1>3. todo[1] \in {Finish(b)} <=> todo[1] = Finish(b)
  OBVIOUS
<1> QED
  BY <1>1, <1>2, <1>3 DEF One

(* A step that takes the first task, which is no assignment, leaves what    *)
(* is assigned and what is an element as it was.                           *)
LEMMA RunsDown ==
  ASSUME IInv, todo # <<>>, Kept, fault = "none", todo[1].do \notin Moving,
         heap' \in [Blocks -> Block], todo' \in Seq(Tasks), Shape(todo'),
         \A t \in Tasks : t.do \in Moving => (t \in TasksOf(todo') <=> t \in TasksOf(Tail(todo))),
         \A c \in Blocks :
           /\ heap'[c].type = heap[c].type /\ heap'[c].element = heap[c].element
           /\ heap[c].status # "unused" => heap'[c].status # "unused"
           /\ heap'[c].status = "alive" => heap[c].status = "alive"
  PROVE  /\ StateInv' /\ TypingInv' /\ ShapeInv' /\ ScopeInv' /\ fault' # "freed"
         /\ \A s \in Strengths, b, c \in Blocks :
              heap'[c].status = heap[c].status => (c \in Elements(s, b)' <=> c \in Elements(s, b))
<1>1. address' = address /\ scope' = scope /\ phase' = phase /\ fault' = fault
  BY DEF Kept
<1>2. StateInv'
  BY <1>1 DEF IInv, StateInv
<1>3. /\ TasksOf(todo) = {todo[1]} \cup TasksOf(Tail(todo)) /\ todo[1] \in Tasks
      /\ TasksOf(todo) \subseteq Tasks /\ TasksOf(todo') \subseteq Tasks
  <2>1. todo \in Seq(Tasks)
    BY DEF IInv, StateInv
  <2>2. TasksOf(todo) \subseteq Tasks /\ TasksOf(todo') \subseteq Tasks
    BY <2>1 DEF TasksOf
  <2> QED
    BY <2>1, <2>2, TailTasks
<1>4. \A t \in Tasks : t.do \in Moving => (t \in TasksOf(todo') <=> t \in TasksOf(todo))
  BY <1>3
<1>5. \A b \in Blocks : heap[b].status # "unused" => heap'[b].status # "unused" /\ heap'[b].type = heap[b].type
  OBVIOUS
<1>6. TypingInv'
  <2>1. \A v \in Vars : address'[v] # Nil => heap'[address'[v]].type = VarType[v]
    BY <1>1 DEF IInv, TypingInv, StateInv
  <2>2. ASSUME NEW c \in Blocks, heap'[c].status = "alive"
        PROVE  PointsTo(heap[c].type, heap[c].element)'
    <3>1. heap[c].status = "alive" /\ heap[c].element \in Blocks \cup {Nil}
      BY <2>2 DEF IInv, StateInv, Block
    <3>2. PointsTo(heap[c].type, heap[c].element)
      BY <3>1 DEF IInv, TypingInv
    <3> QED
      BY <1>5, <3>1, <3>2 DEF PointsTo
  <2>3. ASSUME NEW t \in TasksOf(todo'), t.do \in Moving
        PROVE  /\ heap'[t.at.b].status # "unused"
               /\ t.at.s = "weak" => heap'[t.at.b].type = <<>>
               /\ heap'[t.at.b].type # <<>> /\ t.b # Nil =>
                    heap'[t.b].status # "unused" /\ heap'[t.b].type = Tail(heap'[t.at.b].type)
    <3>1. t \in Tasks /\ t \in TasksOf(todo) /\ t.at.b \in Blocks /\ t.b \in Blocks \cup {Nil}
      BY <1>3, <1>4, <2>3, TaskKinds DEF Moving, Pointers
    <3>2. /\ heap[t.at.b].status # "unused"
          /\ t.at.s = "weak" => heap[t.at.b].type = <<>>
          /\ PointsTo(heap[t.at.b].type, t.b)
      BY <2>3, <3>1 DEF IInv, TypingInv
    <3>3. heap'[t.at.b].status # "unused" /\ heap'[t.at.b].type = heap[t.at.b].type
      BY <1>5, <3>1, <3>2
    <3>4. ASSUME heap[t.at.b].type # <<>>, t.b # Nil
          PROVE  heap'[t.b].status # "unused" /\ heap'[t.b].type = Tail(heap[t.at.b].type)
      BY <1>5, <3>1, <3>2, <3>4 DEF PointsTo
    <3> QED
      BY <3>2, <3>3, <3>4
  <2> QED
    BY <2>1, <2>2, <2>3 DEF TypingInv, PointsTo
<1>7. ASSUME NEW s \in Strengths, NEW b \in Blocks, NEW c \in Blocks, heap'[c].status = heap[c].status
      PROVE  c \in Elements(s, b)' <=> c \in Elements(s, b)
  <2>1. (\A t \in TasksOf(todo') : t.do = "store" => t.at.b # c)
          <=> \A t \in TasksOf(todo) : t.do = "store" => t.at.b # c
    BY <1>3, <1>4 DEF Moving
  <2> QED
    BY <1>7, <2>1, ElementsForm
<1>8. ShapeInv' /\ ScopeInv' /\ fault' # "freed"
  BY <1>1 DEF IInv, ShapeInv, ScopeInv
<1> QED
  BY <1>2, <1>6, <1>7, <1>8

LEMMA DeleteNilStep ==
  ASSUME IInv, OwningProgram, DeleteNil
  PROVE  IInv'
<1>1. StateInv /\ todo # <<>> /\ fault = "none" /\ Kept /\ heap' = heap
  BY DEF DeleteNil, Active, IInv
<1>2. /\ todo[1] = Delete(todo[1].s, Nil) /\ todo[1].s \in Strengths /\ todo[1].do = "delete"
      /\ todo' = Tail(todo) /\ Tail(todo) \in Seq(Tasks) /\ Shape(Tail(todo))
  <2>1. todo[1] \in Tasks /\ Tail(todo) \in Seq(Tasks) /\ Shape(Tail(todo))
    BY <1>1, TailTasks DEF StateInv, IInv, ShapeInv
  <2>2. todo' = Tail(todo)
    BY <2>1, ConcatEmptySeq DEF DeleteNil, Continue
  <2> QED
    BY <2>1, <2>2, TaskKinds DEF DeleteNil, Active
<1>3. /\ StateInv' /\ TypingInv' /\ ShapeInv' /\ ScopeInv' /\ fault' # "freed"
      /\ \A s \in Strengths, b, c \in Blocks : c \in Elements(s, b)' <=> c \in Elements(s, b)
  BY <1>1, <1>2, RunsDown DEF StateInv, Moving
<1>4. ASSUME NEW b \in Blocks
      PROVE  Counted(heap'[b], Held("strong", b)', Held("weak", b)', Ending(b)')
  <2>1. ASSUME NEW s \in Strengths PROVE Held(s, b)' = Held(s, b)
    <3>1. todo[1] \notin ValueTasks(s, b) /\ todo[1] \notin AddressTasks(s, b)
      BY <1>2, TaskWeights, BlocksAssumption
    <3>2. /\ NumTasks(todo', ValueTasks(s, b)) = NumTasks(Tail(todo), ValueTasks(s, b)) + 0
          /\ NumTasks(todo', AddressTasks(s, b)) = NumTasks(Tail(todo), AddressTasks(s, b)) + 0
      <4>1. \A T : NumTasks(Tail(todo), T) \in Nat
        BY <1>2, PositionsFinite
      <4> QED
        BY <1>2, <4>1
    <3>3. Held(s, b) \in Nat /\
          Held(s, b)' = Held(s, b) + 0 + 0 - One(todo[1] \in ValueTasks(s, b)) - One(todo[1] \in AddressTasks(s, b))
                          - One(b \in Elements(s, b)) + One(b \in Elements(s, b)')
      BY <1>1, <1>3, <3>2, HeldChange DEF Kept
    <3> QED
      BY <1>3, <3>1, <3>3 DEF One
  <2>2. Ending(b)' = Ending(b)
    <3>1. todo[1] # Finish(b)
      BY <1>2, TaskForms
    <3>2. Ending(b) \in Nat /\ Ending(b)' = NumTasks(todo', {Finish(b)})
          /\ NumTasks(Tail(todo), {Finish(b)}) = Ending(b) - One(todo[1] = Finish(b))
      BY <1>1, EndingChange
    <3> QED
      BY <1>2, <3>1, <3>2 DEF One
  <2> QED
    BY <1>1, <2>1, <2>2 DEF IInv, CountInv, Strengths
<1> QED
  BY <1>3, <1>4 DEF IInv, CountInv

(* The first task holds its pointer.                                       *)
LEMMA FirstIsThere ==
  ASSUME IInv, OwningProgram, todo # <<>>, NEW s \in Strengths, NEW b \in Blocks,
         todo[1] \in ValueTasks(s, b) \cup AddressTasks(s, b)
  PROVE  /\ b \in Allocated
         /\ s = "strong" => heap[b].status = "alive"
         /\ Held(s, b) > 0
<1>1. todo[1] \in TasksOf(todo)
  BY TailTasks DEF IInv, StateInv
<1>2. StateInv /\ CountInv
  BY DEF IInv
<1>3. Held(s, b) > 0
  BY <1>1, <1>2, Holders
<1> QED
  BY <1>1, <1>2, <1>3, HeldIsThere

LEMMA DeleteWeakStep ==
  ASSUME IInv, OwningProgram, NEW d \in Blocks, DeleteWeakShared(d)
  PROVE  IInv'
<1>1. StateInv /\ todo # <<>> /\ fault = "none" /\ todo[1] = Delete("weak", d) /\ todo[1].do = "delete"
  BY DEF DeleteWeakShared, Active, IInv
<1>2. d \in Allocated /\ Held("weak", d) > 0
  <2>1. todo[1] \in ValueTasks("weak", d)
    BY <1>1, TaskWeights DEF Strengths
  <2> QED
    BY <1>1, <2>1, FirstIsThere DEF Strengths
<1>3. heap[d].weak = Held("weak", d) /\ heap[d].strong # 0 /\ heap[d].status \in {"alive", "destroyed"}
  BY <1>2, HeldParts DEF IInv, CountInv, Counted, Allocated
<1>4. /\ heap' = [heap EXCEPT ![d].weak = @ - 1] /\ Kept /\ todo' = Tail(todo)
      /\ Tail(todo) \in Seq(Tasks) /\ Shape(Tail(todo))
  <2>1. Tail(todo) \in Seq(Tasks) /\ Shape(Tail(todo))
    BY <1>1, TailTasks DEF StateInv, IInv, ShapeInv
  <2>2. Continue(<<>>) => todo' = Tail(todo)
    BY <2>1, ConcatEmptySeq DEF Continue
  <2> QED
    BY <1>2, <1>3, <2>1, <2>2 DEF DeleteWeakShared
<1>5. /\ heap' \in [Blocks -> Block]
      /\ \A c \in Blocks : /\ heap'[c].type = heap[c].type /\ heap'[c].element = heap[c].element
                            /\ heap'[c].status = heap[c].status /\ heap'[c].strong = heap[c].strong
                            /\ heap'[c].weak = IF c = d THEN heap[c].weak - 1 ELSE heap[c].weak
  <2>1. heap[d].weak \in Nat /\ heap[d].weak > 0
    BY <1>1, <1>2, <1>3 DEF StateInv, Block
  <2>2. heap \in [Blocks -> Block]
    BY <1>1 DEF StateInv
  <2>3. [heap[d] EXCEPT !.weak = heap[d].weak - 1] \in Block
    BY <2>1, <2>2 DEF Block
  <2>4. heap' = [heap EXCEPT ![d] = [heap[d] EXCEPT !.weak = heap[d].weak - 1]]
    BY <1>4
  <2> QED
    BY <2>2, <2>3, <2>4 DEF Block
<1>6. /\ StateInv' /\ TypingInv' /\ ShapeInv' /\ ScopeInv' /\ fault' # "freed"
      /\ \A s \in Strengths, b, c \in Blocks : c \in Elements(s, b)' <=> c \in Elements(s, b)
  BY <1>1, <1>4, <1>5, RunsDown DEF Moving
<1>7. ASSUME NEW b \in Blocks
      PROVE  Counted(heap'[b], Held("strong", b)', Held("weak", b)', Ending(b)')
  <2>1. ASSUME NEW s \in Strengths
        PROVE  Held(s, b) \in Nat /\ Held(s, b)' = Held(s, b) - One(s = "weak" /\ b = d)
    <3>1. (todo[1] \in ValueTasks(s, b) <=> s = "weak" /\ b = d) /\ todo[1] \notin AddressTasks(s, b)
      BY <1>1, TaskWeights DEF Strengths
    <3>2. /\ NumTasks(todo', ValueTasks(s, b)) = NumTasks(Tail(todo), ValueTasks(s, b)) + 0
          /\ NumTasks(todo', AddressTasks(s, b)) = NumTasks(Tail(todo), AddressTasks(s, b)) + 0
      <4>1. \A T : NumTasks(Tail(todo), T) \in Nat
        BY <1>4, PositionsFinite
      <4> QED
        BY <1>4, <4>1
    <3>3. Held(s, b) \in Nat /\
          Held(s, b)' = Held(s, b) + 0 + 0 - One(todo[1] \in ValueTasks(s, b)) - One(todo[1] \in AddressTasks(s, b))
                          - One(b \in Elements(s, b)) + One(b \in Elements(s, b)')
      <4>1. address' = address /\ StateInv' /\ \A c \in Blocks : heap'[c].type = heap[c].type
        BY <1>4, <1>5, <1>6 DEF Kept
      <4>2. \A c \in Blocks \ {b} : c \in Elements(s, b)' <=> c \in Elements(s, b)
        BY <1>6
      <4> QED
        BY <1>1, <3>2, <4>1, <4>2, HeldChange
    <3> QED
      BY <1>6, <3>1, <3>3 DEF One
  <2>2. Ending(b)' = Ending(b)
    <3>1. todo[1] # Finish(b)
      BY <1>1, TaskForms
    <3>2. Ending(b) \in Nat /\ Ending(b)' = NumTasks(todo', {Finish(b)})
          /\ NumTasks(Tail(todo), {Finish(b)}) = Ending(b) - One(todo[1] = Finish(b))
      BY <1>1, EndingChange
    <3> QED
      BY <1>4, <3>1, <3>2 DEF One
  <2>3. Held("strong", b)' = Held("strong", b) /\ Held("weak", b)' = Held("weak", b) - One(b = d)
    BY <2>1 DEF Strengths, One
  <2>4. Counted(heap[b], Held("strong", b), Held("weak", b), Ending(b)) /\ heap[b].weak \in Nat /\ heap[b].strong \in Nat
    BY DEF IInv, CountInv, StateInv, Block
  <2> QED
    BY <1>3, <1>5, <2>2, <2>3, <2>4 DEF Counted, One
<1> QED
  BY <1>6, <1>7 DEF IInv, CountInv

LEMMA FinishStep ==
  ASSUME IInv, OwningProgram, NEW d \in Blocks, FinishDeleteStrong(d)
  PROVE  IInv'
<1>1. StateInv /\ todo # <<>> /\ fault = "none" /\ todo[1] = Finish(d) /\ todo[1].do = "finish"
  BY DEF FinishDeleteStrong, Active, IInv
<1>2. Ending(d) > 0
  <2>1. Ending(d) \in Nat /\ Ending(d) = NumTasks(Tail(todo), {Finish(d)}) + One(todo[1] \in {Finish(d)})
        /\ NumTasks(Tail(todo), {Finish(d)}) \in Nat
    BY <1>1, NumTasksOfTail DEF StateInv, Ending
  <2> QED
    BY <1>1, <2>1 DEF One
<1>3. /\ heap[d].status = "destroyed" /\ Held("strong", d) = 0 /\ heap[d].weak = Held("weak", d)
      /\ Ending(d) <= 1 /\ d \in Allocated
  BY <1>2 DEF IInv, CountInv, Counted, Allocated
<1>4. /\ heap' = IF heap[d].weak = 0 THEN [heap EXCEPT ![d].status = "freed"] ELSE heap
      /\ Kept /\ todo' = Tail(todo) /\ Tail(todo) \in Seq(Tasks) /\ Shape(Tail(todo))
  <2>1. Tail(todo) \in Seq(Tasks) /\ Shape(Tail(todo))
    BY <1>1, TailTasks DEF StateInv, IInv, ShapeInv
  <2>2. Continue(<<>>) => todo' = Tail(todo)
    BY <2>1, ConcatEmptySeq DEF Continue
  <2> QED
    BY <1>3, <2>1, <2>2 DEF FinishDeleteStrong
<1>5. /\ heap' \in [Blocks -> Block]
      /\ \A c \in Blocks : /\ heap'[c].type = heap[c].type /\ heap'[c].element = heap[c].element
                            /\ heap'[c].weak = heap[c].weak /\ heap'[c].strong = heap[c].strong
                            /\ heap'[c].status = IF c = d /\ heap[c].weak = 0 THEN "freed" ELSE heap[c].status
  BY <1>1, <1>4 DEF StateInv, Block, Statuses
<1>6. /\ StateInv' /\ TypingInv' /\ ShapeInv' /\ ScopeInv' /\ fault' # "freed"
      /\ \A s \in Strengths, b, c \in Blocks : c \in Elements(s, b)' <=> c \in Elements(s, b)
  <2>1. /\ StateInv' /\ TypingInv' /\ ShapeInv' /\ ScopeInv' /\ fault' # "freed"
        /\ \A s \in Strengths, b, c \in Blocks :
              heap'[c].status = heap[c].status => (c \in Elements(s, b)' <=> c \in Elements(s, b))
    BY <1>1, <1>3, <1>4, <1>5, RunsDown DEF Moving
  <2>2. \A s \in Strengths, b \in Blocks : d \notin Elements(s, b)' /\ d \notin Elements(s, b)
    BY <1>3, <1>5, ElementsForm
  <2> QED
    BY <1>5, <2>1, <2>2
<1>7. ASSUME NEW b \in Blocks
      PROVE  Counted(heap'[b], Held("strong", b)', Held("weak", b)', Ending(b)')
  <2>1. ASSUME NEW s \in Strengths PROVE Held(s, b)' = Held(s, b)
    <3>1. todo[1] \notin ValueTasks(s, b) /\ todo[1] \notin AddressTasks(s, b)
      BY <1>1, TaskWeights DEF Strengths
    <3>2. /\ NumTasks(todo', ValueTasks(s, b)) = NumTasks(Tail(todo), ValueTasks(s, b)) + 0
          /\ NumTasks(todo', AddressTasks(s, b)) = NumTasks(Tail(todo), AddressTasks(s, b)) + 0
      <4>1. \A T : NumTasks(Tail(todo), T) \in Nat
        BY <1>4, PositionsFinite
      <4> QED
        BY <1>4, <4>1
    <3>3. Held(s, b) \in Nat /\
          Held(s, b)' = Held(s, b) + 0 + 0 - One(todo[1] \in ValueTasks(s, b)) - One(todo[1] \in AddressTasks(s, b))
                          - One(b \in Elements(s, b)) + One(b \in Elements(s, b)')
      BY <1>1, <1>4, <1>5, <1>6, <3>2, HeldChange DEF Kept
    <3> QED
      BY <1>6, <3>1, <3>3 DEF One
  <2>2. Ending(b) \in Nat /\ Ending(b)' = Ending(b) - One(b = d)
    <3>1. todo[1] = Finish(b) <=> b = d
      BY <1>1, TaskForms
    <3>2. Ending(b) \in Nat /\ Ending(b)' = NumTasks(todo', {Finish(b)})
          /\ NumTasks(Tail(todo), {Finish(b)}) = Ending(b) - One(todo[1] = Finish(b))
      BY <1>1, EndingChange
    <3> QED
      BY <1>4, <3>1, <3>2 DEF One
  <2>3. Counted(heap[b], Held("strong", b), Held("weak", b), Ending(b)) /\ heap[b].weak \in Nat /\ heap[b].strong \in Nat
    BY DEF IInv, CountInv, StateInv, Block
  <2>4. Held("strong", b)' = Held("strong", b) /\ Held("weak", b)' = Held("weak", b)
    BY <2>1 DEF Strengths
  <2>5. CASE b = d
    <3>1. Ending(b)' = 0
      BY <1>2, <1>3, <2>2, <2>5 DEF One
    <3> QED
      BY <1>3, <1>5, <2>3, <2>4, <2>5, <3>1 DEF Counted
  <2>6. CASE b # d
    BY <1>5, <2>2, <2>3, <2>4, <2>6 DEF Counted, One
  <2> QED
    BY <2>5, <2>6
<1> QED
  BY <1>6, <1>7 DEF IInv, CountInv

(* A pointer that is being assigned to a block keeps the block's address.   *)
LEMMA NoStoreIntoLast ==
  ASSUME IInv, OwningProgram, NEW d \in Blocks, todo # <<>>, todo[1] = Delete("strong", d),
         heap[d].status = "alive", heap[d].strong = 1, heap[d].type # <<>>,
         NEW t \in TasksOf(todo), t.do = "store"
  PROVE  t.at.b # d
<1> SUFFICES ASSUME t.at.b = d PROVE FALSE
  OBVIOUS
<1>1. todo \in Seq(Tasks) /\ todo[1].do = "delete"
  BY TaskForms DEF IInv, StateInv, Strengths
<1>2. PICK i \in DOMAIN todo : todo[i] = t
  BY DEF TasksOf
<1>3. t \in Tasks /\ t.at.s \in Strengths
  BY <1>1, <1>2, TaskKinds DEF Pointers
<1>4. t.at.s = "strong"
  BY <1>3 DEF IInv, TypingInv, Moving, Strengths
<1>5. i + 1 = Len(todo) /\ todo[i + 1] = Delete("strong", d)
  BY <1>2, <1>4 DEF IInv, ShapeInv, Shape
<1>6. i \in DOMAIN Tail(todo) /\ Tail(todo)[i] = todo[i + 1] /\ Tail(todo) \in Seq(Tasks)
  BY <1>1, <1>2, <1>5
<1> DEFINE T == ValueTasks("strong", d)
<1>7. Delete("strong", d) \in T
  BY TaskWeights DEF Strengths
<1>8. NumTasks(Tail(todo), T) \in Nat /\ NumTasks(Tail(todo), T) > 0
  BY <1>5, <1>6, <1>7, SomeTask, PositionsFinite
<1>9. NumTasks(todo, T) = NumTasks(Tail(todo), T) + One(todo[1] \in T)
  BY <1>1, NumTasksOfTail
<1>10. NumTasks(todo, T) > 1 /\ NumTasks(todo, T) \in Nat
  BY <1>7, <1>8, <1>9 DEF One
<1>11. Held("strong", d) > 1
  <2>1. /\ Cardinality(VarsAt("strong", d)) \in Nat /\ Cardinality(Elements("strong", d)) \in Nat
        /\ NumTasks(todo, AddressTasks("strong", d)) \in Nat
    BY HeldParts DEF IInv, Strengths
  <2> HIDE DEF T
  <2>2. Held("strong", d) = Cardinality(VarsAt("strong", d)) + Cardinality(Elements("strong", d))
                              + NumTasks(todo, T) + NumTasks(todo, AddressTasks("strong", d))
    BY DEF Held, T
  <2> QED
    BY <1>10, <2>1, <2>2
<1>12. heap[d].strong = Held("strong", d)
  BY DEF IInv, CountInv, Counted
<1> QED
  BY <1>11, <1>12

LEMMA DeleteStrongStep ==
  ASSUME IInv, OwningProgram, NEW d \in Blocks, DeleteStrongShared(d)
  PROVE  IInv'
<1>1. StateInv /\ todo # <<>> /\ fault = "none" /\ todo[1] = Delete("strong", d) /\ todo[1].do = "delete"
  BY DEF DeleteStrongShared, Active, IInv
<1>2. d \in Allocated /\ heap[d].status = "alive" /\ Held("strong", d) > 0 /\ heap[d].strong = Held("strong", d)
      /\ Ending(d) = 0
  <2>1. todo[1] \in ValueTasks("strong", d)
    BY <1>1, TaskWeights DEF Strengths
  <2>2. d \in Allocated /\ heap[d].status = "alive" /\ Held("strong", d) > 0
    BY <1>1, <2>1, FirstIsThere DEF Strengths
  <2> QED
    BY <2>2 DEF IInv, CountInv, Counted
<1>3. Tail(todo) \in Seq(Tasks) /\ Shape(Tail(todo)) /\ \A T : NumTasks(Tail(todo), T) \in Nat
  BY <1>1, TailTasks, PositionsFinite DEF StateInv, IInv, ShapeInv
<1>4. heap \in [Blocks -> Block] /\ heap[d] \in Block /\ heap[d].strong \in Nat
  BY <1>1 DEF StateInv, Block
<1>5. \A b \in Blocks : /\ Counted(heap[b], Held("strong", b), Held("weak", b), Ending(b))
                       /\ heap[b].weak \in Nat /\ heap[b].strong \in Nat
  BY DEF IInv, CountInv, StateInv, Block
<1>6. CASE heap[d].strong # 1
  <2>1. heap' = [heap EXCEPT ![d].strong = @ - 1] /\ Kept /\ todo' = Tail(todo)
    <3>1. Continue(<<>>) => todo' = Tail(todo)
      BY <1>3, ConcatEmptySeq DEF Continue
    <3> QED
      BY <1>2, <1>6, <3>1 DEF DeleteStrongShared
  <2>2. /\ heap' \in [Blocks -> Block]
        /\ \A c \in Blocks : /\ heap'[c].type = heap[c].type /\ heap'[c].element = heap[c].element
                              /\ heap'[c].status = heap[c].status /\ heap'[c].weak = heap[c].weak
                              /\ heap'[c].strong = IF c = d THEN heap[c].strong - 1 ELSE heap[c].strong
    <3>1. [heap[d] EXCEPT !.strong = heap[d].strong - 1] \in Block
      BY <1>2, <1>4 DEF Block
    <3>2. heap' = [heap EXCEPT ![d] = [heap[d] EXCEPT !.strong = heap[d].strong - 1]]
      BY <2>1
    <3> QED
      BY <1>4, <3>1, <3>2 DEF Block
  <2>3. /\ StateInv' /\ TypingInv' /\ ShapeInv' /\ ScopeInv' /\ fault' # "freed"
        /\ \A s \in Strengths, b, c \in Blocks : c \in Elements(s, b)' <=> c \in Elements(s, b)
    BY <1>1, <1>3, <2>1, <2>2, RunsDown DEF Moving
  <2>4. ASSUME NEW b \in Blocks
        PROVE  Counted(heap'[b], Held("strong", b)', Held("weak", b)', Ending(b)')
    <3>1. ASSUME NEW s \in Strengths
          PROVE  Held(s, b) \in Nat /\ Held(s, b)' = Held(s, b) - One(s = "strong" /\ b = d)
      <4>1. (todo[1] \in ValueTasks(s, b) <=> s = "strong" /\ b = d) /\ todo[1] \notin AddressTasks(s, b)
        BY <1>1, TaskWeights DEF Strengths
      <4>2. /\ NumTasks(todo', ValueTasks(s, b)) = NumTasks(Tail(todo), ValueTasks(s, b)) + 0
            /\ NumTasks(todo', AddressTasks(s, b)) = NumTasks(Tail(todo), AddressTasks(s, b)) + 0
        BY <1>3, <2>1
      <4>3. address' = address /\ StateInv' /\ \A c \in Blocks : heap'[c].type = heap[c].type
        BY <2>1, <2>2, <2>3 DEF Kept
      <4>4. \A c \in Blocks \ {b} : c \in Elements(s, b)' <=> c \in Elements(s, b)
        BY <2>3
      <4>5. Held(s, b) \in Nat /\
            Held(s, b)' = Held(s, b) + 0 + 0 - One(todo[1] \in ValueTasks(s, b)) - One(todo[1] \in AddressTasks(s, b))
                            - One(b \in Elements(s, b)) + One(b \in Elements(s, b)')
        BY <1>1, <4>2, <4>3, <4>4, HeldChange
      <4> QED
        BY <2>3, <4>1, <4>5 DEF One
    <3>2. Ending(b)' = Ending(b)
      <4>1. todo[1] # Finish(b)
        BY <1>1, TaskForms DEF Strengths
      <4>2. Ending(b) \in Nat /\ Ending(b)' = NumTasks(todo', {Finish(b)})
            /\ NumTasks(Tail(todo), {Finish(b)}) = Ending(b) - One(todo[1] = Finish(b))
        BY <1>1, EndingChange
      <4> QED
        BY <2>1, <4>1, <4>2 DEF One
    <3>3. /\ Held("strong", b)' = Held("strong", b) - One(b = d) /\ Held("weak", b)' = Held("weak", b)
          /\ Held("strong", b) \in Nat
      BY <3>1 DEF Strengths, One
    <3>4. CASE b = d
      BY <1>2, <1>4, <1>5, <1>6, <2>2, <3>2, <3>3, <3>4 DEF Counted, One
    <3>5. CASE b # d
      BY <1>5, <2>2, <3>2, <3>3, <3>5 DEF Counted, One
    <3> QED
      BY <3>4, <3>5
  <2> QED
    BY <2>3, <2>4 DEF IInv, CountInv
<1>7. CASE heap[d].strong = 1
  <2> DEFINE none == heap[d].type = <<>>
             x == Delete(heap[d].type[1], heap[d].element)
             q == <<Finish(d)>> \o Tail(todo)
             p == (IF none THEN <<>> ELSE <<x>>) \o q
  <2>1. ~none => /\ heap[d].type[1] \in Strengths /\ heap[d].element \in Blocks \cup {Nil}
                 /\ x \in Tasks /\ x.do = "delete"
    <3>1. heap[d].type \in Seq(Strengths) /\ heap[d].element \in Blocks \cup {Nil}
      BY <1>4 DEF Block, Types
    <3>2. ~none => heap[d].type[1] \in Strengths
      BY <3>1
    <3> QED
      BY <3>1, <3>2, TaskForms
  <2>2. /\ q \in Seq(Tasks) /\ TasksOf(q) = {Finish(d)} \cup TasksOf(Tail(todo)) /\ Shape(q)
        /\ \A T : NumTasks(q, T) = NumTasks(Tail(todo), T) + One(Finish(d) \in T)
    <3>1. Finish(d) \in Tasks /\ Finish(d).do \notin Moving
      BY TaskForms DEF Moving
    <3>2. \A T : NumTasks(q, T) = NumTasks(Tail(todo), T) + One(Finish(d) \in T)
      BY <1>3, <3>1, NumTasksOfCons
    <3>3. q \in Seq(Tasks) /\ TasksOf(q) = {Finish(d)} \cup TasksOf(Tail(todo)) /\ Shape(q)
      BY <1>3, <3>1, ConsTasks
    <3> QED
      BY <3>2, <3>3
  <2>3. heap' = [heap EXCEPT ![d].status = "destroyed"] /\ Kept /\ todo' = p
    <3>1. heap' = [heap EXCEPT ![d].status = "destroyed"] /\ Kept
          /\ todo' = (Destructor(d) \o <<Finish(d)>>) \o Tail(todo)
      BY <1>2, <1>7 DEF DeleteStrongShared, Continue
    <3>2. Destructor(d) = IF none THEN <<>> ELSE <<x>>
      <4>1. Element(d) = heap[d].element
        BY BlocksAssumption DEF Element
      <4> QED
        BY <4>1 DEF Destructor, ElementType
    <3>3. Destructor(d) \in Seq(Tasks) /\ <<Finish(d)>> \in Seq(Tasks)
      BY <2>1, <3>2, TaskForms
    <3> QED
      BY <1>3, <3>1, <3>2, <3>3, ConcatAssociative
  <2> HIDE DEF none, x, q, p
  <2>4. /\ p \in Seq(Tasks) /\ TasksOf(p) = (IF none THEN {} ELSE {x}) \cup TasksOf(q) /\ Shape(p)
        /\ \A T : NumTasks(p, T) = NumTasks(q, T) + One(~none /\ x \in T)
    <3>1. none \in BOOLEAN /\ (none \/ x \in Tasks) /\ (~none => x.do \notin Moving)
      BY <2>1 DEF none, Moving
    <3> QED
      BY <2>2, <3>1, PushMaybe DEF p
  <2>5. /\ heap' \in [Blocks -> Block]
        /\ \A c \in Blocks : /\ heap'[c].type = heap[c].type /\ heap'[c].element = heap[c].element
                              /\ heap'[c].strong = heap[c].strong /\ heap'[c].weak = heap[c].weak
                              /\ heap'[c].status = IF c = d THEN "destroyed" ELSE heap[c].status
    BY <1>4, <2>3 DEF Block, Statuses
  <2>6. /\ StateInv' /\ TypingInv' /\ ShapeInv' /\ ScopeInv' /\ fault' # "freed"
        /\ \A s \in Strengths, b, c \in Blocks :
              heap'[c].status = heap[c].status => (c \in Elements(s, b)' <=> c \in Elements(s, b))
    <3>1. \A t \in Tasks : t.do \in Moving => (t \in TasksOf(todo') <=> t \in TasksOf(Tail(todo)))
      BY <2>1, <2>2, <2>3, <2>4, TaskForms DEF Moving
    <3> QED
      BY <1>1, <1>2, <2>3, <2>4, <2>5, <3>1, RunsDown DEF Moving
  <2>7. \A s \in Strengths, b \in Blocks :
          /\ d \notin Elements(s, b)'
          /\ d \in Elements(s, b) <=> ~none /\ x \in ValueTasks(s, b)
    <3> SUFFICES ASSUME NEW s \in Strengths, NEW b \in Blocks
                 PROVE  /\ d \notin Elements(s, b)'
                        /\ d \in Elements(s, b) <=> ~none /\ x \in ValueTasks(s, b)
      OBVIOUS
    <3>1. d \notin Elements(s, b)'
      BY <2>5, ElementsForm
    <3>2. ~none => (x \in ValueTasks(s, b) <=> heap[d].type[1] = s /\ heap[d].element = b)
      BY <2>1, TaskWeights DEF x
    <3>3. ~none => \A t \in TasksOf(todo) : t.do = "store" => t.at.b # d
      BY <1>1, <1>2, <1>7, NoStoreIntoLast DEF none
    <3> QED
      BY <1>2, <3>1, <3>2, <3>3, ElementsForm DEF none
  <2>8. ASSUME NEW b \in Blocks
        PROVE  Counted(heap'[b], Held("strong", b)', Held("weak", b)', Ending(b)')
    <3>1. ASSUME NEW s \in Strengths
          PROVE  Held(s, b) \in Nat /\ Held(s, b)' = Held(s, b) - One(s = "strong" /\ b = d)
      <4>1. (todo[1] \in ValueTasks(s, b) <=> s = "strong" /\ b = d) /\ todo[1] \notin AddressTasks(s, b)
        BY <1>1, TaskWeights DEF Strengths
      <4>2. /\ NumTasks(todo', ValueTasks(s, b)) =
                 NumTasks(Tail(todo), ValueTasks(s, b)) + One(~none /\ x \in ValueTasks(s, b))
            /\ NumTasks(todo', AddressTasks(s, b)) = NumTasks(Tail(todo), AddressTasks(s, b)) + 0
        <5>1. /\ Finish(d) \notin ValueTasks(s, b) /\ Finish(d) \notin AddressTasks(s, b)
              /\ ~none => x \notin AddressTasks(s, b)
          BY <2>1, TaskWeights DEF x
        <5> QED
          BY <1>3, <2>2, <2>3, <2>4, <5>1 DEF One
      <4>3. address' = address /\ StateInv' /\ \A c \in Blocks : heap'[c].type = heap[c].type
        BY <2>3, <2>5, <2>6 DEF Kept
      <4>4. \A c \in Blocks \ {d} : c \in Elements(s, b)' <=> c \in Elements(s, b)
        BY <2>5, <2>6
      <4>5. PICK gain \in Int : gain = One(~none /\ x \in ValueTasks(s, b))
        BY DEF One
      <4>6. NumTasks(todo', ValueTasks(s, b)) = NumTasks(Tail(todo), ValueTasks(s, b)) + gain
        BY <4>2, <4>5
      <4>7. Held(s, b) \in Nat /\
            Held(s, b)' = Held(s, b) + gain + 0
                            - One(todo[1] \in ValueTasks(s, b)) - One(todo[1] \in AddressTasks(s, b))
                            - One(d \in Elements(s, b)) + One(d \in Elements(s, b)')
        <5>1. PICK no \in Int : no = 0
          OBVIOUS
        <5>2. NumTasks(todo', AddressTasks(s, b)) = NumTasks(Tail(todo), AddressTasks(s, b)) + no
          BY <4>2, <5>1
        <5>3. Held(s, b) \in Nat /\
            Held(s, b)' = Held(s, b) + gain + no
                            - One(todo[1] \in ValueTasks(s, b)) - One(todo[1] \in AddressTasks(s, b))
                            - One(d \in Elements(s, b)) + One(d \in Elements(s, b)')
          BY <1>1, <4>3, <4>4, <4>6, <5>2, HeldChange, Zenon
        <5> QED
          BY <5>1, <5>3, Zenon
      <4> QED
        BY <2>7, <4>1, <4>5, <4>7 DEF One
    <3>2. Ending(b) \in Nat /\ Ending(b)' = Ending(b) + One(b = d)
      <4>1. todo[1] # Finish(b) /\ (Finish(d) \in {Finish(b)} <=> b = d) /\ (~none => x # Finish(b))
        BY <1>1, <2>1, TaskForms DEF Strengths, x
      <4>2. Ending(b) \in Nat /\ Ending(b)' = NumTasks(todo', {Finish(b)})
            /\ NumTasks(Tail(todo), {Finish(b)}) = Ending(b) - One(todo[1] = Finish(b))
        BY <1>1, EndingChange
      <4> QED
        BY <2>2, <2>3, <2>4, <4>1, <4>2 DEF One
    <3>3. /\ Held("strong", b)' = Held("strong", b) - One(b = d) /\ Held("weak", b)' = Held("weak", b)
          /\ Held("strong", b) \in Nat
      BY <3>1 DEF Strengths, One
    <3>4. CASE b = d
      BY <1>2, <1>4, <1>5, <1>7, <2>5, <3>2, <3>3, <3>4 DEF Counted, One
    <3>5. CASE b # d
      BY <1>5, <2>5, <3>2, <3>3, <3>5 DEF Counted, One
    <3> QED
      BY <3>4, <3>5
  <2> QED
    BY <2>6, <2>8 DEF IInv, CountInv
<1> QED
  BY <1>6, <1>7

LEMMA BuildAssignmentStep ==
  ASSUME IInv, OwningProgram, BuildAssignment
  PROVE  IInv'
<1>1. StateInv /\ todo # <<>> /\ fault = "none" /\ todo[1].do = "replace" /\ todo \in Seq(Tasks)
  BY DEF BuildAssignment, Active, IInv, StateInv
<1>2. PICK at \in Pointers, v \in Blocks \cup {Nil} : todo[1] = Replace(at, v) /\ todo[1].at = at /\ todo[1].b = v
  <2>1. todo[1] \in Tasks
    BY <1>1, TailTasks
  <2> QED
    BY <1>1, <2>1, TaskKinds
<1> DEFINE d == at.b
<1>3. /\ d \in Blocks /\ at.s \in Strengths /\ at = Pointer(at.s, d) /\ d \in Allocated
      /\ at.s = "strong" => heap[d].status = "alive"
  <2>1. d \in Blocks /\ at.s \in Strengths /\ at = Pointer(at.s, d)
    BY <1>2, PointerForms
  <2>2. todo[1] \in AddressTasks(at.s, d)
    BY <1>2, <2>1, TaskWeights
  <2> QED
    BY <1>1, <2>1, <2>2, FirstIsThere
<1>4. Tail(todo) = <<>> /\ TasksOf(todo) = {todo[1]}
  <2>1. 1 \in DOMAIN todo /\ Tail(todo) \in Seq(Tasks) /\ Len(Tail(todo)) = Len(todo) - 1
    BY <1>1
  <2>2. Len(todo) = 1
    BY <1>1, <2>1 DEF IInv, ShapeInv, Shape
  <2>3. Tail(todo) = <<>>
    <3>1. Len(Tail(todo)) = 0
      BY <2>1, <2>2
    <3> QED
      BY <2>1, <3>1, EmptySeq
  <2>4. TasksOf(todo) = {todo[1]} \cup TasksOf(Tail(todo))
    BY <1>1, TailTasks
  <2>5. TasksOf(<<>>) = {}
    BY DEF TasksOf
  <2> QED
    BY <2>3, <2>4, <2>5
<1>5. /\ heap[d].status # "unused"
      /\ at.s = "weak" => heap[d].type = <<>>
      /\ heap[d].type # <<>> /\ v # Nil => heap[v].status # "unused" /\ heap[v].type = Tail(heap[d].type)
  BY <1>1, <1>2, <1>4 DEF IInv, TypingInv, PointsTo, Moving
<1>6. CASE Rejects(at)
  BY <1>2, <1>3, <1>6, Stopped DEF BuildAssignment
<1>7. CASE ~Rejects(at)
  <2> DEFINE none == heap[d].type = <<>>
             x == Delete(heap[d].type[1], heap[d].element)
             st == Store(at, v)
             dl == Delete(at.s, d)
             q == <<st, dl>>
             p == (IF none THEN <<>> ELSE <<x>>) \o q
  <2>1. ~none => /\ heap[d].type[1] \in Strengths /\ heap[d].element \in Blocks \cup {Nil}
                 /\ x \in Tasks /\ x.do = "delete"
    <3>1. heap[d].type \in Seq(Strengths) /\ heap[d].element \in Blocks \cup {Nil}
      BY <1>1, <1>3 DEF Block, Types, StateInv
    <3>2. ~none => heap[d].type[1] \in Strengths
      BY <3>1
    <3> QED
      BY <3>1, <3>2, TaskForms
  <2>2. /\ st \in Tasks /\ st.do = "store" /\ st.at = at /\ st.b = v
        /\ dl \in Tasks /\ dl.do = "delete"
    BY <1>2, <1>3, TaskForms
  <2> HIDE DEF st, dl
  <2>3. /\ q \in Seq(Tasks) /\ TasksOf(q) = {st, dl}
        /\ \A T : NumTasks(q, T) = One(st \in T) + One(dl \in T)
    <3>1. <<>> \in Seq(Tasks) /\ TasksOf(<<>>) = {}
      BY DEF TasksOf
    <3>2. /\ <<st, dl>> \o <<>> \in Seq(Tasks) /\ TasksOf(<<st, dl>> \o <<>>) = {st, dl} \cup TasksOf(<<>>)
          /\ \A T : NumTasks(<<st, dl>> \o <<>>, T) = NumTasks(<<>>, T) + One(st \in T) + One(dl \in T)
      BY <2>2, <3>1, PushTwo
    <3>3. <<st, dl>> \o <<>> = <<st, dl>>
      BY <2>2, ConcatEmptySeq
    <3>4. \A T : NumTasks(<<>>, T) = 0
      BY NumTasksOfNone
    <3> QED
      BY <3>1, <3>2, <3>3, <3>4 DEF One
  <2>4. Shape(q)
    <3>1. Len(q) = 2 /\ q[1] = st /\ q[2] = dl /\ DOMAIN q = 1..2
      OBVIOUS
    <3>2. dl = Delete(st.at.s, st.at.b)
      BY <2>2 DEF dl
    <3> HIDE DEF q
    <3> QED
      BY <2>2, <3>1, <3>2 DEF Shape
  <2>5. heap' = heap /\ Kept /\ todo' = p
    <3>1. heap' = heap /\ Kept
          /\ todo' = ((IF none THEN <<>> ELSE <<x>>) \o q) \o <<>>
      <4>1. Element(d) = heap[d].element
        BY <1>3, BlocksAssumption DEF Element
      <4> QED
        BY <1>2, <1>3, <1>4, <1>7, <4>1 DEF BuildAssignment, Continue, ElementType, st, dl
    <3>2. p \in Seq(Tasks)
      BY <2>1, <2>3
    <3> QED
      BY <3>1, <3>2, ConcatEmptySeq
  <2> HIDE DEF none, x, q, p
  <2>6. /\ p \in Seq(Tasks) /\ TasksOf(p) = (IF none THEN {} ELSE {x}) \cup {st, dl} /\ Shape(p)
        /\ \A T : NumTasks(p, T) = NumTasks(q, T) + One(~none /\ x \in T)
    <3>1. none \in BOOLEAN /\ (none \/ x \in Tasks) /\ (~none => x.do \notin Moving)
      BY <2>1 DEF none, Moving
    <3>2. q \in Seq(Tasks)
      BY <2>3
    <3>3. /\ p \in Seq(Tasks) /\ TasksOf(p) = (IF none THEN {} ELSE {x}) \cup TasksOf(q) /\ Shape(p)
          /\ \A T : NumTasks(p, T) = NumTasks(q, T) + One(~none /\ x \in T)
      BY <2>4, <3>1, <3>2, PushMaybe DEF p
    <3>4. TasksOf(q) = {st, dl}
      BY <2>3
    <3> QED
      BY <3>3, <3>4, Zenon
  <2>7. address' = address /\ scope' = scope /\ phase' = phase /\ fault' = fault
    BY <2>5 DEF Kept
  <2>8. StateInv' /\ ShapeInv' /\ ScopeInv' /\ fault' # "freed"
    BY <2>5, <2>6, <2>7 DEF IInv, StateInv, ShapeInv, ScopeInv
  <2>9. TypingInv'
    <3>1. \A t \in TasksOf(todo') : t.do \in Moving => t = st
      BY <2>1, <2>2, <2>5, <2>6 DEF Moving
    <3> QED
      BY <1>5, <2>2, <2>5, <2>7, <3>1 DEF IInv, TypingInv, PointsTo
  <2>10. ASSUME NEW s \in Strengths, NEW b \in Blocks
         PROVE  /\ \A c \in Blocks \ {d} : c \in Elements(s, b)' <=> c \in Elements(s, b)
                /\ d \notin Elements(s, b)'
                /\ d \in Elements(s, b) <=> ~none /\ x \in ValueTasks(s, b)
    <3>1. \A c \in Blocks : /\ \A t \in TasksOf(todo) : t.do = "store" => t.at.b # c
                            /\ (\A t \in TasksOf(todo') : t.do = "store" => t.at.b # c) <=> c # d
      BY <1>1, <1>4, <2>1, <2>2, <2>5, <2>6
    <3>2. ~none => (x \in ValueTasks(s, b) <=> heap[d].type[1] = s /\ heap[d].element = b)
      BY <2>1, TaskWeights DEF x
    <3>3. ~none => heap[d].status = "alive"
      BY <1>3, <1>5 DEF none, Strengths
    <3>4. \A c \in Blocks \ {d} : c \in Elements(s, b)' <=> c \in Elements(s, b)
      BY <2>5, <3>1, ElementsForm
    <3>5. d \notin Elements(s, b)'
      BY <1>3, <3>1, ElementsForm
    <3>6. d \in Elements(s, b) <=> ~none /\ x \in ValueTasks(s, b)
      BY <1>3, <3>1, <3>2, <3>3, ElementsForm DEF none
    <3> QED
      BY <3>4, <3>5, <3>6
  <2>11. ASSUME NEW b \in Blocks
         PROVE  Counted(heap'[b], Held("strong", b)', Held("weak", b)', Ending(b)')
    <3>1. ASSUME NEW s \in Strengths
          PROVE  Held(s, b)' = Held(s, b)
      <4>1. /\ todo[1] \in AddressTasks(s, b) <=> dl \in ValueTasks(s, b)
            /\ todo[1] \in ValueTasks(s, b) <=> st \in ValueTasks(s, b)
            /\ st \notin AddressTasks(s, b) /\ dl \notin AddressTasks(s, b)
            /\ ~none => x \notin AddressTasks(s, b)
        <5>1. /\ todo[1] \in AddressTasks(s, b) <=> at = Pointer(s, b)
              /\ todo[1] \in ValueTasks(s, b) <=> st \in ValueTasks(s, b)
              /\ st \notin AddressTasks(s, b)
          BY <1>2, TaskWeights DEF st
        <5>2. at = Pointer(s, b) <=> at.s = s /\ d = b
          BY <1>3, PointerForms
        <5>3. (dl \in ValueTasks(s, b) <=> at.s = s /\ d = b) /\ dl \notin AddressTasks(s, b)
          BY <1>3, TaskWeights DEF dl
        <5>4. ~none => x \notin AddressTasks(s, b)
          BY <2>1, TaskWeights DEF x
        <5> QED
          BY <5>1, <5>2, <5>3, <5>4
      <4>2. \A T : NumTasks(Tail(todo), T) = 0
        BY <1>4, NumTasksOfNone
      <4>3. PICK gain \in Int : gain = One(st \in ValueTasks(s, b)) + One(dl \in ValueTasks(s, b))
                                         + One(~none /\ x \in ValueTasks(s, b))
        BY DEF One
      <4>4. NumTasks(todo', ValueTasks(s, b)) = NumTasks(Tail(todo), ValueTasks(s, b)) + gain
        <5>1. NumTasks(p, ValueTasks(s, b)) = gain
          BY <2>3, <2>6, <4>3
        <5> QED
          BY <2>5, <4>2, <5>1
      <4>5. PICK no \in Int : no = 0
        OBVIOUS
      <4>6. NumTasks(todo', AddressTasks(s, b)) = NumTasks(Tail(todo), AddressTasks(s, b)) + no
        BY <2>3, <2>5, <2>6, <4>1, <4>2, <4>5 DEF One
      <4>7. address' = address /\ StateInv' /\ \A c \in Blocks : heap'[c].type = heap[c].type
        BY <2>5, <2>7, <2>8
      <4>8. Held(s, b) \in Nat /\
            Held(s, b)' = Held(s, b) + gain + no
                            - One(todo[1] \in ValueTasks(s, b)) - One(todo[1] \in AddressTasks(s, b))
                            - One(d \in Elements(s, b)) + One(d \in Elements(s, b)')
        <5>1. \A c \in Blocks \ {d} : c \in Elements(s, b)' <=> c \in Elements(s, b)
          BY <2>10
        <5>2. d \in Blocks
          BY <1>3
        <5> HIDE DEF d
        <5> QED
          BY <1>1, <4>4, <4>6, <4>7, <5>1, <5>2, HeldChange, Zenon
      <4> QED
        BY <2>10, <4>1, <4>3, <4>5, <4>8 DEF One
    <3>2. Ending(b)' = Ending(b)
      <4>1. todo[1] # Finish(b) /\ st \notin {Finish(b)} /\ dl \notin {Finish(b)} /\ (~none => x \notin {Finish(b)})
        BY <1>1, <2>1, <2>2, TaskForms
      <4>2. Ending(b) \in Nat /\ Ending(b)' = NumTasks(todo', {Finish(b)})
            /\ NumTasks(Tail(todo), {Finish(b)}) = Ending(b) - One(todo[1] = Finish(b))
        BY <1>1, EndingChange
      <4>3. NumTasks(Tail(todo), {Finish(b)}) = 0
        BY <1>4, NumTasksOfNone
      <4>4. NumTasks(p, {Finish(b)}) = 0
        BY <2>3, <2>6, <4>1 DEF One
      <4> QED
        BY <2>5, <4>1, <4>2, <4>3, <4>4 DEF One
    <3> QED
      BY <2>5, <3>1, <3>2 DEF IInv, CountInv, Strengths
  <2> QED
    BY <2>8, <2>9, <2>11 DEF IInv, CountInv
<1> QED
  BY <1>6, <1>7

LEMMA StoreValueStep ==
  ASSUME IInv, OwningProgram, StoreValue
  PROVE  IInv'
<1>1. StateInv /\ todo # <<>> /\ fault = "none" /\ todo[1].do = "store" /\ todo \in Seq(Tasks)
  BY DEF StoreValue, Active, IInv, StateInv
<1>2. PICK at \in Pointers, v \in Blocks \cup {Nil} : todo[1] = Store(at, v) /\ todo[1].at = at /\ todo[1].b = v
  <2>1. todo[1] \in Tasks
    BY <1>1, TailTasks
  <2> QED
    BY <1>1, <2>1, TaskKinds
<1> DEFINE d == at.b
           dl == Delete(at.s, d)
<1>3. /\ Tail(todo) \in Seq(Tasks) /\ Shape(Tail(todo)) /\ TasksOf(Tail(todo)) = {dl}
      /\ TasksOf(todo) = {todo[1], dl}
  <2>1. Len(todo) = 2 /\ todo[2] = dl
    <3>1. 1 \in DOMAIN todo
      BY <1>1
    <3>2. 1 + 1 = Len(todo) /\ todo[Len(todo)] = Delete(todo[1].at.s, todo[1].at.b)
      BY <1>1, <3>1 DEF IInv, ShapeInv, Shape
    <3>3. Len(todo) = 2
      BY <3>2
    <3>4. todo[1].at.s = at.s /\ todo[1].at.b = d
      BY <1>2
    <3> QED
      BY <3>2, <3>3, <3>4
  <2>2. Tail(todo) \in Seq(Tasks) /\ Shape(Tail(todo)) /\ TasksOf(todo) = {todo[1]} \cup TasksOf(Tail(todo))
    BY <1>1, TailTasks DEF IInv, ShapeInv
  <2>3. TasksOf(Tail(todo)) = {dl}
    <3>1. Len(Tail(todo)) = 1 /\ Tail(todo)[1] = todo[2]
      BY <1>1, <2>1
    <3>2. DOMAIN Tail(todo) = 1..1
      <4>1. DOMAIN Tail(todo) = 1..Len(Tail(todo))
        BY <2>2
      <4> QED
        BY <3>1, <4>1
    <3>3. 1..1 = {1}
      OBVIOUS
    <3>4. TasksOf(Tail(todo)) = {Tail(todo)[i] : i \in {1}}
      BY <3>2, <3>3 DEF TasksOf
    <3> HIDE DEF dl
    <3> QED
      BY <2>1, <3>1, <3>4
  <2> QED
    BY <2>2, <2>3
<1>4. /\ d \in Blocks /\ at.s \in Strengths /\ d \in Allocated /\ dl.do = "delete"
      /\ at.s = "strong" => heap[d].status = "alive"
  <2>1. d \in Blocks /\ at.s \in Strengths
    BY <1>2, PointerForms
  <2>2. dl \in ValueTasks(at.s, d) /\ dl.do = "delete"
    BY <2>1, TaskWeights, TaskForms
  <2>3. dl \in TasksOf(todo) /\ CountInv
    BY <1>3 DEF IInv
  <2> QED
    BY <1>1, <2>1, <2>2, <2>3, HeldIsThere
<1>5. /\ heap[d].status # "unused"
      /\ at.s = "weak" => heap[d].type = <<>>
      /\ heap[d].type # <<>> /\ v # Nil => heap[v].status # "unused" /\ heap[v].type = Tail(heap[d].type)
  BY <1>1, <1>2, <1>3 DEF IInv, TypingInv, PointsTo, Moving
<1>6. CASE Rejects(at)
  BY <1>2, <1>4, <1>6, Stopped DEF StoreValue
<1>7. CASE ~Rejects(at)
  <2>1. heap' = [heap EXCEPT ![d].element = v] /\ Kept /\ todo' = Tail(todo)
    <3>1. Continue(<<>>) => todo' = Tail(todo)
      BY <1>3, ConcatEmptySeq DEF Continue
    <3> QED
      BY <1>2, <1>4, <1>7, <3>1 DEF StoreValue
  <2>2. address' = address /\ scope' = scope /\ phase' = phase /\ fault' = fault
    BY <2>1 DEF Kept
  <2>3. /\ heap' \in [Blocks -> Block]
        /\ \A c \in Blocks : /\ heap'[c].type = heap[c].type /\ heap'[c].status = heap[c].status
                              /\ heap'[c].strong = heap[c].strong /\ heap'[c].weak = heap[c].weak
                              /\ heap'[c].element = IF c = d THEN v ELSE heap[c].element
    <3>1. heap \in [Blocks -> Block]
      BY <1>1 DEF StateInv
    <3>2. [heap[d] EXCEPT !.element = v] \in Block
      BY <1>2, <1>4, <3>1 DEF Block
    <3>3. heap' = [heap EXCEPT ![d] = [heap[d] EXCEPT !.element = v]]
      BY <2>1
    <3> QED
      BY <1>4, <3>1, <3>2, <3>3 DEF Block
  <2>4. StateInv' /\ ShapeInv' /\ ScopeInv' /\ fault' # "freed"
    BY <1>3, <2>1, <2>2, <2>3 DEF IInv, StateInv, ShapeInv, ScopeInv
  <2>5. TypingInv'
    <3>1. \A t \in TasksOf(todo') : t.do \notin Moving
      BY <1>3, <1>4, <2>1 DEF Moving
    <3>2. \A u \in Vars : address'[u] # Nil => heap'[address'[u]].type = VarType[u]
      BY <1>1, <2>2, <2>3 DEF IInv, TypingInv, StateInv
    <3>3. ASSUME NEW c \in Blocks, heap'[c].status = "alive", heap'[c].type # <<>>, heap'[c].element # Nil
          PROVE  /\ heap'[heap'[c].element].status # "unused"
                 /\ heap'[heap'[c].element].type = Tail(heap'[c].type)
      <4>1. heap[c].status = "alive" /\ heap[c].type = heap'[c].type /\ heap'[c].element \in Blocks
        BY <2>3, <3>3 DEF Block
      <4>2. CASE c = d
        BY <1>5, <2>3, <3>3, <4>1, <4>2
      <4>3. CASE c # d
        <5>1. heap[c].element = heap'[c].element
          BY <2>3, <4>3
        <5>2. heap[heap[c].element].status # "unused" /\ heap[heap[c].element].type = Tail(heap[c].type)
          BY <3>3, <4>1, <5>1 DEF IInv, TypingInv, PointsTo
        <5> QED
          BY <2>3, <4>1, <5>1, <5>2
      <4> QED
        BY <4>2, <4>3
    <3> QED
      BY <3>1, <3>2, <3>3 DEF TypingInv, PointsTo
  <2>6. ASSUME NEW s \in Strengths, NEW b \in Blocks
        PROVE  /\ \A c \in Blocks \ {d} : c \in Elements(s, b)' <=> c \in Elements(s, b)
               /\ d \notin Elements(s, b)
               /\ d \in Elements(s, b)' <=> todo[1] \in ValueTasks(s, b)
    <3>1. \A c \in Blocks : /\ \A t \in TasksOf(todo') : t.do = "store" => t.at.b # c
                            /\ (\A t \in TasksOf(todo) : t.do = "store" => t.at.b # c) <=> c # d
      BY <1>1, <1>2, <1>3, <1>4, <2>1
    <3>2. todo[1] \in ValueTasks(s, b) <=> heap[d].type # <<>> /\ heap[d].type[1] = s /\ v = b
      BY <1>2, TaskWeights DEF PointersOf
    <3>3. heap[d].type # <<>> => heap[d].status = "alive"
      BY <1>4, <1>5 DEF Strengths
    <3>4. \A c \in Blocks \ {d} : c \in Elements(s, b)' <=> c \in Elements(s, b)
      BY <2>3, <3>1, ElementsForm
    <3>5. d \notin Elements(s, b)
      BY <1>4, <3>1, ElementsForm
    <3>6. d \in Elements(s, b)' <=> todo[1] \in ValueTasks(s, b)
      BY <1>4, <2>3, <3>1, <3>2, <3>3, ElementsForm
    <3> QED
      BY <3>4, <3>5, <3>6
  <2>7. ASSUME NEW b \in Blocks
        PROVE  Counted(heap'[b], Held("strong", b)', Held("weak", b)', Ending(b)')
    <3>1. ASSUME NEW s \in Strengths
          PROVE  Held(s, b)' = Held(s, b)
      <4>1. todo[1] \notin AddressTasks(s, b)
        BY <1>2, TaskWeights
      <4>2. PICK no \in Int : no = 0
        OBVIOUS
      <4>3. /\ NumTasks(todo', ValueTasks(s, b)) = NumTasks(Tail(todo), ValueTasks(s, b)) + no
            /\ NumTasks(todo', AddressTasks(s, b)) = NumTasks(Tail(todo), AddressTasks(s, b)) + no
        <5>1. \A T : NumTasks(Tail(todo), T) \in Nat
          BY <1>3, PositionsFinite
        <5> QED
          BY <2>1, <4>2, <5>1
      <4>4. address' = address /\ StateInv' /\ \A c \in Blocks : heap'[c].type = heap[c].type
        BY <2>2, <2>3, <2>4
      <4>5. Held(s, b) \in Nat /\
            Held(s, b)' = Held(s, b) + no + no
                            - One(todo[1] \in ValueTasks(s, b)) - One(todo[1] \in AddressTasks(s, b))
                            - One(d \in Elements(s, b)) + One(d \in Elements(s, b)')
        <5>1. \A c \in Blocks \ {d} : c \in Elements(s, b)' <=> c \in Elements(s, b)
          BY <2>6
        <5>2. d \in Blocks
          BY <1>4
        <5> HIDE DEF d
        <5> QED
          BY <1>1, <4>3, <4>4, <5>1, <5>2, HeldChange, Zenon
      <4> QED
        BY <2>6, <4>1, <4>2, <4>5 DEF One
    <3>2. Ending(b)' = Ending(b)
      <4>1. todo[1] # Finish(b)
        BY <1>1, TaskForms
      <4>2. Ending(b) \in Nat /\ Ending(b)' = NumTasks(todo', {Finish(b)})
            /\ NumTasks(Tail(todo), {Finish(b)}) = Ending(b) - One(todo[1] = Finish(b))
        BY <1>1, EndingChange
      <4> QED
        BY <2>1, <4>1, <4>2 DEF One
    <3>3. Counted(heap[b], Held("strong", b), Held("weak", b), Ending(b))
      BY DEF IInv, CountInv
    <3> QED
      BY <2>3, <3>1, <3>2, <3>3 DEF Counted, Strengths
  <2> QED
    BY <2>4, <2>5, <2>7 DEF IInv, CountInv
<1> QED
  BY <1>6, <1>7

-----------------------------------------------------------------------------
(* Statements: nothing is left to do when one starts.                      *)
LEMMA DeclareVarStep ==
  ASSUME IInv, OwningProgram, NEW u \in Vars, NEW d \in Blocks, DeclareVar(u, d)
  PROVE  IInv'
<1>1. /\ StateInv /\ todo = <<>> /\ u \notin Declared /\ heap[d].status = "unused"
      /\ heap' = MakeShared(heap, d, VarType[u]) /\ address' = [address EXCEPT ![u] = d]
      /\ scope' = Append(scope, u) /\ todo' = todo /\ phase' = phase /\ fault' = fault
  BY DEF DeclareVar, Ready, IInv, Unused
<1>2. /\ heap \in [Blocks -> Block] /\ address \in [Vars -> Blocks \cup {Nil}] /\ scope \in Seq(Vars)
      /\ VarType[u] \in Types /\ address[u] = Nil /\ Nil \notin Blocks
  BY <1>1, BlocksAssumption DEF StateInv, OwningProgram, Declared
<1>3. /\ heap' \in [Blocks -> Block]
      /\ heap'[d] = [status |-> "alive", type |-> VarType[u], strong |-> 1, weak |-> 0, element |-> Nil]
      /\ \A c \in Blocks \ {d} : heap'[c] = heap[c]
  <2>1. [status |-> "alive", type |-> VarType[u], strong |-> 1, weak |-> 0, element |-> Nil] \in Block
    BY <1>2 DEF Block, Statuses
  <2> QED
    BY <1>1, <1>2, <2>1 DEF MakeShared
<1>4. \A v \in Vars : address'[v] = IF v = u THEN d ELSE address[v]
  BY <1>1, <1>2
<1>5. StateInv'
  BY <1>1, <1>2, <1>3 DEF StateInv
<1>6. Held("strong", d) = 0 /\ Held("weak", d) = 0 /\ Ending(d) = 0
  BY <1>1 DEF IInv, CountInv, Counted
<1>7. \A c \in Blocks : heap[c].status # "unused" => c # d /\ heap'[c] = heap[c]
  BY <1>1, <1>3
<1>8. \A v \in Vars : address[v] # d
  <2> SUFFICES ASSUME NEW v \in Vars, address[v] = d PROVE FALSE
    OBVIOUS
  <2>1. VarsAt("strong", d) # {}
    BY DEF VarsAt
  <2> QED
    BY <1>1, <1>6, <2>1, Holders DEF Strengths
<1>9. TypingInv'
  <2>1. TasksOf(todo') = {}
    BY <1>1 DEF TasksOf
  <2>2. ASSUME NEW v \in Vars, address'[v] # Nil
        PROVE  heap'[address'[v]].type = VarType[v]
    BY <1>2, <1>3, <1>4, <1>8, <2>2 DEF IInv, TypingInv
  <2>3. ASSUME NEW c \in Blocks, heap'[c].status = "alive", heap'[c].type # <<>>, heap'[c].element # Nil
        PROVE  heap'[heap'[c].element].status # "unused" /\ heap'[heap'[c].element].type = Tail(heap'[c].type)
    <3>1. c # d /\ heap'[c] = heap[c]
      BY <1>3, <2>3
    <3>2. heap[c].element \in Blocks
      BY <1>2, <2>3, <3>1 DEF Block
    <3>3. heap[heap[c].element].status # "unused" /\ heap[heap[c].element].type = Tail(heap[c].type)
      BY <2>3, <3>1 DEF IInv, TypingInv, PointsTo
    <3> QED
      BY <1>7, <3>1, <3>2, <3>3
  <2> QED
    BY <2>1, <2>2, <2>3 DEF TypingInv, PointsTo
<1>10. ShapeInv' /\ fault' # "freed"
  BY <1>1 DEF IInv, ShapeInv
<1>11. ScopeInv'
  <2>1. /\ Len(scope') = Len(scope) + 1 /\ scope'[Len(scope) + 1] = u /\ DOMAIN scope' = 1..(Len(scope) + 1)
        /\ \A i \in DOMAIN scope : i \in DOMAIN scope' /\ scope'[i] = scope[i]
        /\ DOMAIN scope = 1..Len(scope) /\ Len(scope) \in Nat
    BY <1>1, <1>2
  <2>2. \A i \in DOMAIN scope' : i \in DOMAIN scope \/ i = Len(scope) + 1
    BY <2>1
  <2>3. \A i \in DOMAIN scope : scope[i] # u
    BY <1>2 DEF IInv, ScopeInv
  <2>4. \A i, j \in DOMAIN scope' : scope'[i] = scope'[j] => i = j
    BY <2>1, <2>2, <2>3 DEF IInv, ScopeInv
  <2>5. ASSUME NEW v \in Vars
        PROVE  address'[v] # Nil <=> \E i \in DOMAIN scope' : scope'[i] = v
    <3>1. CASE v = u
      BY <1>2, <1>4, <2>1, <3>1
    <3>2. CASE v # u
      <4>1. address[v] # Nil <=> \E i \in DOMAIN scope : scope[i] = v
        BY DEF IInv, ScopeInv
      <4>2. (\E i \in DOMAIN scope : scope[i] = v) <=> \E i \in DOMAIN scope' : scope'[i] = v
        BY <2>1, <2>2, <3>2
      <4> QED
        BY <1>4, <3>2, <4>1, <4>2
    <3> QED
      BY <3>1, <3>2
  <2> QED
    BY <2>4, <2>5 DEF ScopeInv
<1>12. ASSUME NEW b \in Blocks
       PROVE  Counted(heap'[b], Held("strong", b)', Held("weak", b)', Ending(b)')
  <2>1. ASSUME NEW s \in Strengths
        PROVE  Held(s, b) \in Nat /\ Held(s, b)' = Held(s, b) + One(s = "strong" /\ b = d)
    <3>1. Cardinality(Elements(s, b)') = Cardinality(Elements(s, b))
      <4>1. \A c \in Blocks : c \in Elements(s, b)' <=> c \in Elements(s, b)
        BY <1>1, <1>2, <1>3, ElementsForm
      <4>2. Elements(s, b)' = Elements(s, b)
        BY <4>1 DEF Elements
      <4> QED
        BY <4>2
    <3>2. \A T : NumTasks(todo, T) = 0 /\ NumTasks(todo', T) = 0
      BY <1>1, NumTasksOfNone
    <3>3. Cardinality(VarsAt(s, b)') = Cardinality(VarsAt(s, b)) + One(s = "strong" /\ b = d)
      <4>1. CASE s = "strong" /\ b = d
        <5>1. VarsAt(s, b) = {} /\ VarsAt(s, b)' = {u}
          BY <1>4, <1>8, <4>1 DEF VarsAt
        <5>2. Cardinality({}) = 0 /\ Cardinality({u}) = 1
          BY FS_EmptySet, FS_Singleton
        <5> QED
          BY <4>1, <5>1, <5>2 DEF One
      <4>2. CASE ~(s = "strong" /\ b = d)
        <5>1. VarsAt(s, b)' = VarsAt(s, b)
          BY <1>2, <1>4, <4>2 DEF VarsAt
        <5> QED
          BY <1>1, <4>2, <5>1, HeldParts DEF One
      <4> QED
        BY <4>1, <4>2
    <3>4. Cardinality(VarsAt(s, b)) \in Nat /\ Cardinality(Elements(s, b)) \in Nat
      BY <1>1, HeldParts
    <3>5. /\ Held(s, b) = Cardinality(VarsAt(s, b)) + Cardinality(Elements(s, b)) + 0 + 0
          /\ Held(s, b)' = Cardinality(VarsAt(s, b)') + Cardinality(Elements(s, b)') + 0 + 0
      BY <3>2 DEF Held
    <3> QED
      BY <3>1, <3>3, <3>4, <3>5 DEF One
  <2>2. Ending(b)' = Ending(b)
    BY <1>1 DEF Ending, Finish
  <2>3. Counted(heap[b], Held("strong", b), Held("weak", b), Ending(b))
    BY DEF IInv, CountInv
  <2>4. Held("strong", b)' = Held("strong", b) + One(b = d) /\ Held("weak", b)' = Held("weak", b)
        /\ Held("strong", b) \in Nat
    BY <2>1 DEF Strengths, One
  <2>5. CASE b = d
    BY <1>3, <1>6, <2>2, <2>4, <2>5 DEF Counted, One
  <2>6. CASE b # d
    BY <1>3, <2>2, <2>3, <2>4, <2>6 DEF Counted, One
  <2> QED
    BY <2>5, <2>6
<1> QED
  BY <1>5, <1>9, <1>10, <1>11, <1>12 DEF IInv, CountInv

LEMMA LeaveScopeStep ==
  ASSUME IInv, OwningProgram, LeaveScope
  PROVE  IInv'
<1> DEFINE n == Len(scope)
           var(i) == scope[n + 1 - i]
<1>1. /\ StateInv /\ todo = <<>> /\ heap' = heap /\ fault' = fault
      /\ todo' = [i \in DOMAIN scope |-> Delete("strong", address[scope[Len(scope) + 1 - i]])]
      /\ address' = [v \in Vars |-> Nil] /\ scope' = <<>> /\ phase' = "ended"
  BY DEF LeaveScope, Ready, IInv
<1>2. /\ scope \in Seq(Vars) /\ n \in Nat /\ DOMAIN scope = 1..n /\ address \in [Vars -> Blocks \cup {Nil}]
      /\ \A i \in 1..n : n + 1 - i \in 1..n /\ var(i) \in Vars
  BY <1>1 DEF StateInv
<1>3. /\ DOMAIN todo' = 1..n
      /\ \A i \in 1..n : todo'[i] = Delete("strong", address[var(i)]) /\ todo'[i] \in Tasks /\ todo'[i].do = "delete"
  <2>1. \A i \in 1..n : address[var(i)] \in Blocks \cup {Nil}
    BY <1>2
  <2> QED
    BY <1>1, <1>2, <2>1, TaskForms DEF Strengths
<1>4. todo' \in Seq(Tasks)
  BY <1>1, <1>2, <1>3
<1>5. StateInv'
  BY <1>1, <1>4 DEF StateInv
<1>6. \A t \in TasksOf(todo') : t.do = "delete"
  BY <1>3 DEF TasksOf
<1>7. TypingInv'
  BY <1>1, <1>6 DEF IInv, TypingInv, PointsTo, Moving
<1>8. ShapeInv' /\ fault' # "freed"
  BY <1>1, <1>3 DEF IInv, ShapeInv, Shape
<1>9. ScopeInv'
  BY <1>1 DEF ScopeInv
<1>10. ASSUME NEW s \in Strengths, NEW b \in Blocks
       PROVE  Held(s, b)' = Held(s, b)
  <2>1. Elements(s, b)' = Elements(s, b)
    <3>1. \A c \in Blocks : c \in Elements(s, b)' <=> c \in Elements(s, b)
      BY <1>1, <1>6, ElementsForm DEF TasksOf
    <3> QED
      BY <3>1 DEF Elements
  <2>2. \A T : NumTasks(todo, T) = 0
    BY <1>1, NumTasksOfNone
  <2>3. ValueTasks(s, b)' = ValueTasks(s, b) /\ AddressTasks(s, b)' = AddressTasks(s, b)
    BY <1>1 DEF ValueTasks, AddressTasks, PointersOf
  <2>4. \A i \in 1..n : /\ todo'[i] \in ValueTasks(s, b) <=> s = "strong" /\ address[var(i)] = b
                        /\ todo'[i] \notin AddressTasks(s, b)
    BY <1>2, <1>3, TaskWeights DEF Strengths
  <2>5. NumTasks(todo', AddressTasks(s, b)) = 0
    <3>1. Positions(todo', AddressTasks(s, b)) = {}
      BY <1>3, <2>4 DEF Positions
    <3> QED
      BY <3>1, FS_EmptySet DEF NumTasks
  <2>6. VarsAt(s, b)' = {}
    BY <1>1, BlocksAssumption DEF VarsAt
  <2>7. NumTasks(todo', ValueTasks(s, b)) = Cardinality(VarsAt(s, b))
    <3> DEFINE P == Positions(todo', ValueTasks(s, b))
               f == [i \in P |-> var(i)]
    <3>1. P \subseteq 1..n /\ \A i \in 1..n : i \in P <=> s = "strong" /\ address[var(i)] = b
      BY <1>3, <2>4 DEF Positions
    <3>2. f \in [P -> VarsAt(s, b)]
      BY <1>2, <3>1 DEF VarsAt
    <3>3. \A i, j \in P : f[i] = f[j] => i = j
      <4> SUFFICES ASSUME NEW i \in P, NEW j \in P, var(i) = var(j) PROVE i = j
        OBVIOUS
      <4>1. i \in 1..n /\ j \in 1..n /\ n + 1 - i \in DOMAIN scope /\ n + 1 - j \in DOMAIN scope
        BY <1>2, <3>1
      <4>2. n + 1 - i = n + 1 - j
        BY <4>1 DEF IInv, ScopeInv
      <4> QED
        BY <1>2, <4>1, <4>2
    <3>4. \A v \in VarsAt(s, b) : \E i \in P : f[i] = v
      <4> SUFFICES ASSUME NEW v \in VarsAt(s, b) PROVE \E i \in P : var(i) = v
        BY Zenon
      <4>1. v \in Vars /\ s = "strong" /\ address[v] = b /\ address[v] # Nil
        BY BlocksAssumption DEF VarsAt
      <4>2. PICK k \in DOMAIN scope : scope[k] = v
        BY <4>1 DEF IInv, ScopeInv
      <4>3. n + 1 - k \in 1..n /\ n + 1 - (n + 1 - k) = k
        BY <1>2, <4>2
      <4>4. var(n + 1 - k) = v
        BY <4>2, <4>3
      <4> QED
        BY <3>1, <4>1, <4>3, <4>4
    <3>5. f \in Bijection(P, VarsAt(s, b))
      BY <3>2, <3>3, <3>4 DEF Bijection, Injection, Surjection, IsInjective
    <3>6. IsFiniteSet(P) /\ IsFiniteSet(VarsAt(s, b))
      BY <1>1, <1>4, PositionsFinite, HeldParts
    <3> QED
      BY <3>5, <3>6, FS_Bijection DEF ExistsBijection, NumTasks
  <2>8. Cardinality(VarsAt(s, b)) \in Nat /\ Cardinality(Elements(s, b)) \in Nat
    BY <1>1, HeldParts
  <2>9. Held(s, b) = Cardinality(VarsAt(s, b)) + Cardinality(Elements(s, b)) + 0 + 0
    BY <2>2 DEF Held
  <2>10. Held(s, b)' = 0 + Cardinality(Elements(s, b)) + Cardinality(VarsAt(s, b)) + 0
    BY <2>1, <2>3, <2>5, <2>6, <2>7, FS_EmptySet DEF Held
  <2> QED
    BY <2>8, <2>9, <2>10
<1>11. ASSUME NEW b \in Blocks PROVE Ending(b)' = Ending(b)
  <2>1. Positions(todo', {Finish(b)}) = {}
    BY <1>3, TaskForms DEF Positions
  <2>2. Ending(b)' = NumTasks(todo', {Finish(b)}) /\ Ending(b) = 0
    BY <1>1, NumTasksOfNone DEF Ending, Finish
  <2> QED
    BY <2>1, <2>2, FS_EmptySet DEF NumTasks
<1>12. CountInv'
  BY <1>1, <1>10, <1>11 DEF IInv, CountInv, Strengths
<1> QED
  BY <1>5, <1>7, <1>8, <1>9, <1>12 DEF IInv

(* What expressions lead to when no task is left.                          *)
LEMMA TypesTail ==
  ASSUME NEW t \in Types, t # <<>>
  PROVE  t[1] \in Strengths /\ Tail(t) \in Types /\ (t[1] = "weak" => Tail(t) = <<>>)
<1>1. t \in Seq(Strengths) /\ Len(t) \in Nat \ {0} /\ DOMAIN t = 1..Len(t)
      /\ \A i \in DOMAIN t : t[i] = "weak" => i = Len(t)
  BY EmptySeq DEF Types
<1>2. t[1] \in Strengths /\ Tail(t) \in Seq(Strengths) /\ Len(Tail(t)) = Len(t) - 1
      /\ \A i \in 1..(Len(t) - 1) : Tail(t)[i] = t[i + 1]
      /\ DOMAIN Tail(t) = 1..(Len(t) - 1)
  BY <1>1
<1>3. \A i \in DOMAIN Tail(t) : Tail(t)[i] = "weak" => i = Len(Tail(t))
  BY <1>1, <1>2
<1>4. ASSUME t[1] = "weak" PROVE Tail(t) = <<>>
  <2>1. Len(Tail(t)) = 0
    BY <1>1, <1>2, <1>4
  <2> QED
    BY <1>2, <2>1, EmptySeq
<1> QED
  BY <1>2, <1>3, <1>4 DEF Types

LEMMA VariableLeads ==
  ASSUME IInv, OwningProgram, todo = <<>>, NEW v \in Declared
  PROVE  LET a == address[v]  e == Element(address[v])  t == VarType[v] IN
         /\ a \in Blocks /\ heap[a].status = "alive" /\ heap[a].type = t /\ t \in Types
         /\ e \in Blocks \cup {Nil}
         /\ t # <<>> /\ e # Nil =>
              e \in Allocated /\ heap[e].type = Tail(t) /\ (t[1] = "strong" => heap[e].status = "alive")
<1> DEFINE a == address[v]
           e == heap[a].element
           t == VarType[v]
<1>1. StateInv /\ CountInv /\ v \in Vars /\ a \in Blocks /\ t \in Types /\ a # Nil
  BY BlocksAssumption DEF Declared, IInv, StateInv, OwningProgram
<1>2. heap[a].status = "alive"
  <2>1. VarsAt("strong", a) # {}
    BY <1>1 DEF VarsAt
  <2> QED
    BY <1>1, <2>1, HeldIsThere DEF Strengths
<1>3. heap[a].type = t
  BY <1>1 DEF IInv, TypingInv
<1>4. Element(a) = e /\ e \in Blocks \cup {Nil}
  BY <1>1 DEF Element, StateInv, Block
<1>5. ASSUME t # <<>>, e # Nil
      PROVE  e \in Allocated /\ heap[e].type = Tail(t) /\ (t[1] = "strong" => heap[e].status = "alive")
  <2>1. heap[e].type = Tail(t)
    BY <1>1, <1>2, <1>3, <1>5 DEF IInv, TypingInv, PointsTo
  <2>2. a \in Elements(t[1], e)
    <3>1. TasksOf(todo) = {}
      BY DEF TasksOf
    <3> QED
      BY <1>1, <1>2, <1>3, <1>5, <3>1, ElementsForm
  <2>3. t[1] \in Strengths /\ e \in Blocks
    BY <1>1, <1>4, <1>5, TypesTail
  <2> QED
    BY <1>1, <2>1, <2>2, <2>3, HeldIsThere
<1> QED
  BY <1>1, <1>2, <1>3, <1>4, <1>5

LEMMA LhsForm ==
  ASSUME IInv, OwningProgram, todo = <<>>, NEW lhs \in LhsAddresses
  PROVE  /\ lhs.uses \subseteq Allocated \cup {Nil} /\ lhs.t \in Types
         /\ lhs.uses \subseteq Allocated =>
              /\ lhs.at \in Pointers /\ lhs.at.b \in Allocated /\ heap[lhs.at.b].type = lhs.t
              /\ lhs.at.s = "strong" => heap[lhs.at.b].status = "alive"
              /\ lhs.at.s = "weak" => lhs.t = <<>>
<1>1. CASE \E v \in Declared :
             lhs = [uses |-> {address[v]}, at |-> Pointer("strong", address[v]), t |-> VarType[v], v |-> v]
  <2>1. PICK v \in Declared :
             lhs = [uses |-> {address[v]}, at |-> Pointer("strong", address[v]), t |-> VarType[v], v |-> v]
    BY <1>1
  <2>2. /\ lhs.uses = {address[v]} /\ lhs.at = Pointer("strong", address[v]) /\ lhs.t = VarType[v]
    BY <2>1
  <2>3. address[v] \in Blocks /\ heap[address[v]].status = "alive" /\ heap[address[v]].type = VarType[v]
        /\ VarType[v] \in Types
    BY VariableLeads
  <2>4. lhs.at \in Pointers /\ lhs.at.s = "strong" /\ lhs.at.b = address[v]
    BY <2>2, <2>3, PointerForms DEF Strengths
  <2> QED
    BY <2>2, <2>3, <2>4 DEF Allocated
<1>2. CASE \E v \in Declared :
             VarType[v] # <<>> /\
             lhs = [uses |-> {address[v], Element(address[v])}, t |-> Tail(VarType[v]), v |-> v,
                    at |-> Pointer(VarType[v][1], Element(address[v]))]
  <2>1. PICK v \in Declared :
             VarType[v] # <<>> /\
             lhs = [uses |-> {address[v], Element(address[v])}, t |-> Tail(VarType[v]), v |-> v,
                    at |-> Pointer(VarType[v][1], Element(address[v]))]
    BY <1>2
  <2> DEFINE e == Element(address[v])
  <2>2. /\ lhs.uses = {address[v], e} /\ lhs.at = Pointer(VarType[v][1], e) /\ lhs.t = Tail(VarType[v])
    BY <2>1
  <2>3. /\ address[v] \in Blocks /\ heap[address[v]].status = "alive"
        /\ VarType[v] \in Types /\ e \in Blocks \cup {Nil}
        /\ e # Nil => e \in Allocated /\ heap[e].type = Tail(VarType[v])
                      /\ (VarType[v][1] = "strong" => heap[e].status = "alive")
    BY <2>1, VariableLeads
  <2>4. VarType[v][1] \in Strengths /\ Tail(VarType[v]) \in Types
        /\ (VarType[v][1] = "weak" => Tail(VarType[v]) = <<>>)
    BY <2>1, <2>3, TypesTail
  <2> HIDE DEF e
  <2>5. lhs.uses \subseteq Allocated \cup {Nil}
    BY <2>2, <2>3 DEF Allocated
  <2>6. ASSUME lhs.uses \subseteq Allocated
        PROVE  /\ lhs.at \in Pointers /\ lhs.at.b \in Allocated /\ heap[lhs.at.b].type = lhs.t
               /\ lhs.at.s = "strong" => heap[lhs.at.b].status = "alive"
               /\ lhs.at.s = "weak" => lhs.t = <<>>
    <3>1. e \in Allocated /\ e \in Blocks /\ e # Nil
      BY <2>2, <2>6, BlocksAssumption DEF Allocated
    <3>2. lhs.at \in Pointers /\ lhs.at.s = VarType[v][1] /\ lhs.at.b = e
      BY <2>2, <2>4, <3>1, PointerForms
    <3> QED
      BY <2>2, <2>3, <2>4, <3>1, <3>2
  <2> QED
    BY <2>2, <2>4, <2>5, <2>6
<1> QED
  BY <1>1, <1>2 DEF LhsAddresses

LEMMA ExprCases ==
  ASSUME OwningProgram, NEW t, NEW rhs \in ExprsOf(t)
  PROVE  \/ \E v \in Declared : VarType[v] = t /\ rhs = Ident(v)
         \/ \E b \in Unused : t # <<>> /\ t[1] = "strong" /\ rhs = NewCall(b)
         \/ \E v \in Declared : t = <<"strong">> \o VarType[v] /\ rhs = RefExpr(v)
         \/ \E v \in Declared : t # <<>> /\ t[1] = "weak" /\ VarType[v] = <<"strong">> \o Tail(t) /\ rhs = WeakCopy(v)
         \/ \E v \in Declared : \E s \in Strengths : t = <<>> /\ VarType[v] = <<s>> \o t /\ rhs = DeRefExpr(v)
BY DEF ExprsOf, OwningProgram

(* The forms of a right-hand side of type t that can be evaluated: data,    *)
(* the copy of a pointer, a new block and the data behind a pointer.        *)
DataForm(rhs, t) ==
  t = <<>> /\ rhs.copies = {} /\ rhs.fresh = {} /\ rhs.then = <<>> /\ rhs.value = Nil

CopyForm(rhs, t) ==
  /\ t # <<>> /\ rhs.copies = {Pointer(t[1], rhs.value)} /\ rhs.fresh = {} /\ rhs.then = <<>>
  /\ rhs.value \in Allocated /\ heap[rhs.value].type = Tail(t)
  /\ t[1] = "strong" => heap[rhs.value].status = "alive"

NewForm(rhs, t) ==
  /\ t # <<>> /\ t[1] = "strong"
  /\ rhs.copies = {} /\ rhs.fresh = {rhs.value} /\ rhs.then = <<>> /\ rhs.value \in Unused

BehindForm(rhs, t) ==
  /\ t = <<>> /\ rhs.fresh = {} /\ rhs.value \in Blocks \cup {Nil}
  /\ \E s \in Strengths, b \in Allocated :
       /\ rhs.copies = {Pointer(s, b)} /\ rhs.then = <<Delete(s, b)>>
       /\ s = "strong" => heap[b].status = "alive"

LEMMA RhsForm ==
  ASSUME IInv, OwningProgram, todo = <<>>, NEW t \in Types, NEW rhs \in ExprsOf(t)
  PROVE  /\ rhs.uses \subseteq Allocated \cup {Nil}
         /\ rhs.uses \subseteq Allocated =>
              DataForm(rhs, t) \/ CopyForm(rhs, t) \/ NewForm(rhs, t) \/ BehindForm(rhs, t)
<1>1. \A b : b \in Allocated => b \in Blocks /\ b # Nil
  BY BlocksAssumption DEF Allocated
<1>2. CASE \E v \in Declared : VarType[v] = t /\ rhs = Ident(v)
  <2>1. PICK v \in Declared : VarType[v] = t /\ rhs = Ident(v)
    BY <1>2
  <2> DEFINE a == address[v]
             e == Element(a)
  <2>2. /\ a \in Allocated /\ e \in Blocks \cup {Nil}
        /\ t # <<>> /\ e # Nil =>
             e \in Allocated /\ heap[e].type = Tail(t) /\ (t[1] = "strong" => heap[e].status = "alive")
    BY <2>1, VariableLeads DEF Allocated
  <2>3. CASE t = <<>>
    <3>1. rhs = [uses |-> {a}, copies |-> {}, fresh |-> {}, value |-> Nil, then |-> <<>>]
      BY <2>1, <2>3 DEF Ident
    <3> HIDE DEF a
    <3> QED
      BY <2>2, <2>3, <3>1 DEF DataForm
  <2>4. CASE t # <<>>
    <3>1. rhs = [uses |-> {a, e}, copies |-> {Pointer(t[1], e)}, fresh |-> {}, value |-> e, then |-> <<>>]
      BY <2>1, <2>4 DEF Ident
    <3> HIDE DEF a, e
    <3>2. rhs.uses = {a, e} /\ rhs.copies = {Pointer(t[1], e)} /\ rhs.fresh = {} /\ rhs.value = e /\ rhs.then = <<>>
      BY <3>1
    <3>3. rhs.uses \subseteq Allocated => e \in Allocated /\ e # Nil
      BY <1>1, <3>2
    <3>4. rhs.uses \subseteq Allocated \cup {Nil}
      BY <2>2, <2>4, <3>2
    <3> QED
      BY <2>2, <2>4, <3>2, <3>3, <3>4 DEF CopyForm
  <2> QED
    BY <2>3, <2>4
<1>3. CASE \E b \in Unused : t # <<>> /\ t[1] = "strong" /\ rhs = NewCall(b)
  <2>1. PICK b \in Unused : t # <<>> /\ t[1] = "strong" /\ rhs = NewCall(b)
    BY <1>3
  <2>2. rhs.uses = {} /\ rhs.copies = {} /\ rhs.fresh = {b} /\ rhs.value = b /\ rhs.then = <<>>
    BY <2>1 DEF NewCall
  <2> QED
    BY <2>1, <2>2 DEF NewForm
<1>4. CASE \E v \in Declared : t = <<"strong">> \o VarType[v] /\ rhs = RefExpr(v)
  <2>1. PICK v \in Declared : t = <<"strong">> \o VarType[v] /\ rhs = RefExpr(v)
    BY <1>4
  <2>2. /\ address[v] \in Blocks /\ heap[address[v]].status = "alive" /\ heap[address[v]].type = VarType[v]
        /\ VarType[v] \in Seq(Strengths)
    BY <2>1, VariableLeads DEF Types
  <2>3. t # <<>> /\ t[1] = "strong" /\ Tail(t) = VarType[v]
    BY <2>1, <2>2 DEF Strengths
  <2>4. /\ rhs.uses = {address[v]} /\ rhs.copies = {Pointer("strong", address[v])} /\ rhs.fresh = {}
        /\ rhs.value = address[v] /\ rhs.then = <<>>
    BY <2>1 DEF RefExpr
  <2> QED
    BY <2>2, <2>3, <2>4 DEF CopyForm, Allocated
<1>5. CASE \E v \in Declared :
             t # <<>> /\ t[1] = "weak" /\ VarType[v] = <<"strong">> \o Tail(t) /\ rhs = WeakCopy(v)
  <2>1. PICK v \in Declared :
             t # <<>> /\ t[1] = "weak" /\ VarType[v] = <<"strong">> \o Tail(t) /\ rhs = WeakCopy(v)
    BY <1>5
  <2> DEFINE e == Element(address[v])
  <2>2. VarType[v] # <<>> /\ VarType[v][1] = "strong" /\ Tail(VarType[v]) = Tail(t)
    <3>1. Tail(t) \in Seq(Strengths)
      BY <2>1 DEF Types
    <3> QED
      BY <2>1, <3>1 DEF Strengths
  <2>3. /\ address[v] \in Allocated /\ e \in Blocks \cup {Nil}
        /\ e # Nil => e \in Allocated /\ heap[e].type = Tail(t)
    BY <2>1, <2>2, VariableLeads DEF Allocated
  <2>4. /\ rhs.uses = {address[v], e} /\ rhs.copies = {Pointer("weak", e)} /\ rhs.fresh = {}
        /\ rhs.value = e /\ rhs.then = <<>>
    BY <2>1 DEF WeakCopy
  <2> HIDE DEF e
  <2>5. rhs.uses \subseteq Allocated => e \in Allocated /\ e # Nil
    BY <1>1, <2>4
  <2>6. rhs.uses \subseteq Allocated \cup {Nil}
    BY <2>3, <2>4
  <2> QED
    BY <2>1, <2>3, <2>4, <2>5, <2>6 DEF CopyForm
<1>6. CASE \E v \in Declared : \E s \in Strengths : t = <<>> /\ VarType[v] = <<s>> \o t /\ rhs = DeRefExpr(v)
  <2>1. PICK v \in Declared, s \in Strengths : t = <<>> /\ VarType[v] = <<s>> \o t /\ rhs = DeRefExpr(v)
    BY <1>6
  <2> DEFINE e == Element(address[v])
  <2>2. VarType[v] # <<>> /\ VarType[v][1] = s
    <3>1. VarType[v] = <<s>>
      BY <2>1, ConcatEmptySeq
    <3> QED
      BY <3>1
  <2>3. /\ address[v] \in Allocated /\ e \in Blocks \cup {Nil}
        /\ e # Nil => e \in Allocated /\ (s = "strong" => heap[e].status = "alive")
    BY <2>1, <2>2, VariableLeads DEF Allocated
  <2>4. /\ rhs.uses = {address[v], e} /\ rhs.copies = {Pointer(s, e)} /\ rhs.fresh = {}
        /\ rhs.value = Element(e) /\ rhs.then = <<Delete(s, e)>>
    BY <2>1, <2>2 DEF DeRefExpr
  <2> HIDE DEF e
  <2>5. rhs.uses \subseteq Allocated => e \in Allocated /\ e # Nil
    BY <1>1, <2>4
  <2>6. rhs.uses \subseteq Allocated \cup {Nil}
    BY <2>3, <2>4
  <2>7. Element(e) \in Blocks \cup {Nil}
    BY <2>3 DEF Element, IInv, StateInv, Block
  <2> QED
    BY <2>1, <2>3, <2>4, <2>5, <2>6, <2>7 DEF BehindForm
<1> QED
  BY <1>2, <1>3, <1>4, <1>5, <1>6, ExprCases

(* The number of copies that are made of a pointer.                        *)
CopiesOf(at, C) == {[p |-> at, by |-> "lhs"]} \cup {[p |-> c, by |-> "rhs"] : c \in C}

LEMMA CopyCounts ==
  ASSUME NEW at, NEW C, C = {} \/ \E c : C = {c}, NEW s, NEW b
  PROVE  Count(CopiesOf(at, C), s, b) = One(at = Pointer(s, b)) + One(Pointer(s, b) \in C)
<1> DEFINE P == Pointer(s, b)
           K == {k \in CopiesOf(at, C) : k.p = P}
           l == [p |-> P, by |-> "lhs"]
           r == [p |-> P, by |-> "rhs"]
<1>1. K = (IF at = P THEN {l} ELSE {}) \cup (IF P \in C THEN {r} ELSE {})
  <2> HIDE DEF P
  <2>1. l.p = P /\ r.p = P /\ [p |-> at, by |-> "lhs"].p = at /\ \A c : [p |-> c, by |-> "rhs"].p = c
    OBVIOUS
  <2>2. ASSUME NEW k \in K
        PROVE  (k = l /\ at = P) \/ (k = r /\ P \in C)
    <3> USE DEF CopiesOf
    <3>1. CASE k = [p |-> at, by |-> "lhs"]
      BY <2>1, <3>1
    <3>2. CASE \E c \in C : k = [p |-> c, by |-> "rhs"]
      BY <2>1, <3>2
    <3> QED
      BY <3>1, <3>2
  <2>3. (at = P => l \in K) /\ (P \in C => r \in K)
    BY <2>1 DEF CopiesOf
  <2> HIDE DEF K, l, r
  <2> QED
    BY <2>2, <2>3
<1>2. l # r
  <2>1. l.by # r.by
    OBVIOUS
  <2> QED
    BY <2>1
<1> HIDE DEF l, r, P
<1>3. Cardinality({}) = 0 /\ Cardinality({l}) = 1 /\ Cardinality({r}) = 1 /\ Cardinality({l} \cup {r}) = 2
  <2>1. Cardinality({}) = 0 /\ Cardinality({l}) = 1 /\ Cardinality({r}) = 1 /\ IsFiniteSet({l})
    BY FS_EmptySet, FS_Singleton
  <2>2. Cardinality({l} \cup {r}) = Cardinality({l}) + 1
    BY <1>2, <2>1, FS_AddElement
  <2> QED
    BY <2>1, <2>2
<1>4. Cardinality(K) = One(at = P) + One(P \in C)
  <2> HIDE DEF K
  <2>1. CASE at = P /\ P \in C
    BY <1>1, <1>3, <2>1 DEF One
  <2>2. CASE at = P /\ P \notin C
    <3>1. K = {l}
      BY <1>1, <2>2
    <3> QED
      BY <1>3, <2>2, <3>1 DEF One
  <2>3. CASE at # P /\ P \in C
    <3>1. K = {r}
      BY <1>1, <2>3
    <3> QED
      BY <1>3, <2>3, <3>1 DEF One
  <2>4. CASE at # P /\ P \notin C
    <3>1. K = {}
      BY <1>1, <2>4
    <3> QED
      BY <1>3, <2>4, <3>1 DEF One
  <2> QED
    BY <2>1, <2>2, <2>3, <2>4
<1> QED
  BY <1>4 DEF Count, P

(* What the statement leaves: a count for every copy, and the assignment.   *)
LEMMA AssignLeaves ==
  ASSUME IInv, OwningProgram, todo = <<>>, NEW lhs \in LhsAddresses, NEW rhs \in ExprsOf(lhs.t),
         lhs.uses \cup rhs.uses \subseteq Allocated, AssignStmt(lhs, rhs)
  PROVE  /\ heap' \in [Blocks -> Block]
         /\ \A b \in Blocks :
              /\ b \in rhs.fresh => heap[b].status = "unused" /\ heap'[b].status = "alive"
                                  /\ heap'[b].type = Tail(lhs.t) /\ heap'[b].element = Nil
              /\ b \notin rhs.fresh => heap'[b].status = heap[b].status
                                  /\ heap'[b].type = heap[b].type /\ heap'[b].element = heap[b].element
              /\ heap'[b].strong = (IF b \in rhs.fresh THEN 1 ELSE heap[b].strong)
                    + One(lhs.at = Pointer("strong", b)) + One(Pointer("strong", b) \in rhs.copies)
              /\ heap'[b].weak = (IF b \in rhs.fresh THEN 0 ELSE heap[b].weak)
                    + One(lhs.at = Pointer("weak", b)) + One(Pointer("weak", b) \in rhs.copies)
         /\ todo' = rhs.then \o <<Replace(lhs.at, rhs.value)>>
         /\ address' = address /\ scope' = scope /\ phase' = phase /\ fault' = fault
<1> DEFINE copies == CopiesOf(lhs.at, rhs.copies)
           allocated == [b \in Blocks |-> IF b \in rhs.fresh
                                            THEN MakeShared(heap, b, Tail(lhs.t))[b] ELSE heap[b]]
<1>1. /\ heap' = CopyShared(allocated, copies)
      /\ todo' = rhs.then \o <<Replace(lhs.at, rhs.value)>>
      /\ address' = address /\ scope' = scope /\ phase' = phase /\ fault' = fault
  BY DEF AssignStmt, CopiesOf
<1>2. heap \in [Blocks -> Block] /\ lhs.t \in Types
  BY LhsForm DEF IInv, StateInv
<1>3. DataForm(rhs, lhs.t) \/ CopyForm(rhs, lhs.t) \/ NewForm(rhs, lhs.t) \/ BehindForm(rhs, lhs.t)
  BY <1>2, RhsForm
<1>4. /\ rhs.copies = {} \/ \E c : rhs.copies = {c}
      /\ rhs.fresh = {} \/ (lhs.t # <<>> /\ rhs.fresh \subseteq Unused)
  BY <1>3 DEF DataForm, CopyForm, NewForm, BehindForm
<1>5. ASSUME NEW s, NEW b
      PROVE  /\ Count(copies, s, b) = One(lhs.at = Pointer(s, b)) + One(Pointer(s, b) \in rhs.copies)
             /\ Count(copies, s, b) \in Nat
  <2>1. Count(copies, s, b) = One(lhs.at = Pointer(s, b)) + One(Pointer(s, b) \in rhs.copies)
    <3>1. rhs.copies = {} \/ \E c : rhs.copies = {c}
      BY <1>4
    <3> QED
      BY <3>1, CopyCounts DEF One
  <2>2. One(lhs.at = Pointer(s, b)) \in Nat /\ One(Pointer(s, b) \in rhs.copies) \in Nat
    BY DEF One
  <2> QED
    BY <2>1, <2>2
<1>6. ASSUME NEW b \in Blocks
      PROVE  /\ allocated[b] \in Block
             /\ b \in rhs.fresh => /\ heap[b].status = "unused" /\ allocated[b].status = "alive"
                                   /\ allocated[b].type = Tail(lhs.t) /\ allocated[b].element = Nil
                                   /\ allocated[b].strong = 1 /\ allocated[b].weak = 0
             /\ b \notin rhs.fresh => allocated[b] = heap[b]
  <2>1. CASE b \in rhs.fresh
    <3>1. heap[b].status = "unused" /\ Tail(lhs.t) \in Types
      BY <1>2, <1>4, <2>1, TypesTail DEF Unused
    <3>2. allocated[b] = [status |-> "alive", type |-> Tail(lhs.t), strong |-> 1, weak |-> 0, element |-> Nil]
      BY <1>2, <2>1 DEF MakeShared
    <3> HIDE DEF allocated
    <3>3. allocated[b] \in Block
      BY <3>1, <3>2 DEF Block, Statuses
    <3>4. /\ allocated[b].status = "alive" /\ allocated[b].type = Tail(lhs.t) /\ allocated[b].element = Nil
          /\ allocated[b].strong = 1 /\ allocated[b].weak = 0
      BY <3>2
    <3> QED
      BY <2>1, <3>1, <3>3, <3>4
  <2>2. CASE b \notin rhs.fresh
    BY <1>2, <2>2
  <2> QED
    BY <2>1, <2>2
<1> HIDE DEF copies, allocated
<1>7. heap' = [b \in Blocks |-> [allocated[b] EXCEPT !.strong = @ + Count(copies, "strong", b),
                                                   !.weak = @ + Count(copies, "weak", b)]]
  BY <1>1 DEF CopyShared
<1>8. ASSUME NEW b \in Blocks
      PROVE  /\ heap'[b] \in Block
             /\ heap'[b].status = allocated[b].status /\ heap'[b].type = allocated[b].type
             /\ heap'[b].element = allocated[b].element
             /\ heap'[b].strong = allocated[b].strong + Count(copies, "strong", b)
             /\ heap'[b].weak = allocated[b].weak + Count(copies, "weak", b)
  <2>1. heap'[b] = [allocated[b] EXCEPT !.strong = @ + Count(copies, "strong", b),
                                        !.weak = @ + Count(copies, "weak", b)]
    BY <1>7
  <2>2. allocated[b] \in Block /\ Count(copies, "strong", b) \in Nat /\ Count(copies, "weak", b) \in Nat
    BY <1>5, <1>6
  <2>3. PICK c \in Block : c = allocated[b]
    BY <2>2
  <2>4. PICK x \in Nat, y \in Nat : x = Count(copies, "strong", b) /\ y = Count(copies, "weak", b)
    BY <2>2
  <2>5. heap'[b] = [c EXCEPT !.strong = c.strong + x, !.weak = c.weak + y]
    BY <2>1, <2>3, <2>4
  <2>6. /\ heap'[b] \in Block /\ heap'[b].status = c.status /\ heap'[b].type = c.type
        /\ heap'[b].element = c.element /\ heap'[b].strong = c.strong + x /\ heap'[b].weak = c.weak + y
    <3>1. c.strong + x \in Nat /\ c.weak + y \in Nat
      BY DEF Block
    <3>2. PICK m \in Nat, n \in Nat : m = c.strong + x /\ n = c.weak + y
      BY <3>1
    <3>3. heap'[b] = [status |-> c.status, type |-> c.type, strong |-> m, weak |-> n, element |-> c.element]
      BY <2>5, <3>2 DEF Block
    <3>4. heap'[b] \in Block
      BY <3>3 DEF Block
    <3> QED
      BY <3>2, <3>3, <3>4
  <2> QED
    BY <2>3, <2>4, <2>6
<1>9. heap' \in [Blocks -> Block]
  BY <1>7, <1>8
<1>10. ASSUME NEW b \in Blocks
       PROVE  /\ allocated[b].strong \in Nat /\ allocated[b].weak \in Nat
              /\ One(lhs.at = Pointer("strong", b)) \in Nat /\ One(Pointer("strong", b) \in rhs.copies) \in Nat
              /\ One(lhs.at = Pointer("weak", b)) \in Nat /\ One(Pointer("weak", b) \in rhs.copies) \in Nat
  BY <1>6 DEF Block, One
<1>11. ASSUME NEW b \in Blocks
       PROVE  /\ heap'[b].strong = allocated[b].strong
                    + One(lhs.at = Pointer("strong", b)) + One(Pointer("strong", b) \in rhs.copies)
              /\ heap'[b].weak = allocated[b].weak
                    + One(lhs.at = Pointer("weak", b)) + One(Pointer("weak", b) \in rhs.copies)
  BY <1>5, <1>8, <1>10
<1> QED
  BY <1>1, <1>6, <1>8, <1>9, <1>11

LEMMA WeightsAfterwards ==
  ASSUME NEW s \in Strengths, NEW b \in Blocks
  PROVE  /\ \A r \in Strengths, c \in Blocks \cup {Nil} : Delete(r, c) \in ValueTasks(s, b)' <=> r = s /\ c = b
         /\ \A at \in Pointers, c \in Blocks \cup {Nil} :
              Replace(at, c) \in ValueTasks(s, b)' <=>
                heap'[at.b].type # <<>> /\ heap'[at.b].type[1] = s /\ c = b
         /\ AddressTasks(s, b)' = AddressTasks(s, b)
<1>1. PointersOf(s)' \subseteq Pointers
  BY DEF PointersOf
<1>2. ValueTasks(s, b)' = {Delete(s, b)} \cup {Replace(at, b) : at \in PointersOf(s)'}
                            \cup {Store(at, b) : at \in PointersOf(s)'}
  BY DEF ValueTasks, Delete, Replace, Store
<1>3. \A r \in Strengths, c \in Blocks \cup {Nil} : Delete(r, c) \in ValueTasks(s, b)' <=> r = s /\ c = b
  BY <1>1, <1>2, TaskForms
<1>4. \A at \in Pointers, c \in Blocks \cup {Nil} : Replace(at, c) \in ValueTasks(s, b)' <=> at \in PointersOf(s)' /\ c = b
  BY <1>1, <1>2, TaskForms
<1>5. \A at \in Pointers : at \in PointersOf(s)' <=> heap'[at.b].type # <<>> /\ heap'[at.b].type[1] = s
  BY DEF PointersOf
<1>6. AddressTasks(s, b)' = AddressTasks(s, b)
  BY DEF AddressTasks, Replace, Pointer
<1> QED
  BY <1>3, <1>4, <1>5, <1>6

(* More owners and a higher count.                                         *)
LEMMA CountedMore ==
  ASSUME NEW c, NEW d, NEW h \in Nat, NEW w \in Nat, NEW m \in Nat, NEW n \in Nat,
         Counted(c, h, w, 0), c.strong \in Nat, c.weak \in Nat,
         d.status = c.status, d.strong = c.strong + m, d.weak = c.weak + n,
         c.status # "alive" => m = 0, c.status \notin {"alive", "destroyed"} => n = 0
  PROVE  Counted(d, h + m, w + n, 0)
<1>1. CASE c.status = "alive"
  BY <1>1 DEF Counted
<1>2. CASE c.status = "destroyed"
  BY <1>2 DEF Counted
<1>3. CASE c.status \notin {"alive", "destroyed"}
  BY <1>3 DEF Counted
<1> QED
  BY <1>1, <1>2, <1>3

LEMMA AssignEvaluated ==
  ASSUME IInv, OwningProgram, todo = <<>>, fault = "none", NEW lhs \in LhsAddresses, NEW rhs \in ExprsOf(lhs.t),
         lhs.uses \cup rhs.uses \subseteq Allocated, AssignStmt(lhs, rhs)
  PROVE  IInv'
<1> DEFINE at == lhs.at
           t == lhs.t
           v == rhs.value
           R == Replace(at, v)
<1>1. /\ at \in Pointers /\ at.b \in Allocated /\ heap[at.b].type = t /\ t \in Types
      /\ at.s = "strong" => heap[at.b].status = "alive"
      /\ at.s = "weak" => t = <<>>
  BY LhsForm
<1>2. DataForm(rhs, t) \/ CopyForm(rhs, t) \/ NewForm(rhs, t) \/ BehindForm(rhs, t)
  BY <1>1, RhsForm
<1>3. /\ heap' \in [Blocks -> Block]
      /\ \A b \in Blocks :
           /\ b \in rhs.fresh => heap[b].status = "unused" /\ heap'[b].status = "alive"
                               /\ heap'[b].type = Tail(t) /\ heap'[b].element = Nil
           /\ b \notin rhs.fresh => heap'[b].status = heap[b].status
                               /\ heap'[b].type = heap[b].type /\ heap'[b].element = heap[b].element
           /\ heap'[b].strong = (IF b \in rhs.fresh THEN 1 ELSE heap[b].strong)
                 + One(at = Pointer("strong", b)) + One(Pointer("strong", b) \in rhs.copies)
           /\ heap'[b].weak = (IF b \in rhs.fresh THEN 0 ELSE heap[b].weak)
                 + One(at = Pointer("weak", b)) + One(Pointer("weak", b) \in rhs.copies)
      /\ todo' = rhs.then \o <<R>>
      /\ address' = address /\ scope' = scope /\ phase' = phase /\ fault' = fault
  BY AssignLeaves
<1>4. /\ StateInv /\ heap \in [Blocks -> Block] /\ Allocated \subseteq Blocks
      /\ Nil \notin Blocks /\ Unused \subseteq Blocks
      /\ at.s \in Strengths /\ at.b \in Blocks /\ at = Pointer(at.s, at.b)
  BY <1>1, PointerForms, BlocksAssumption DEF IInv, StateInv, Allocated, Unused
<1>5. v \in Blocks \cup {Nil}
  BY <1>2, <1>4 DEF DataForm, CopyForm, NewForm, BehindForm
<1>5a. PICK none \in BOOLEAN : \E x :
        /\ todo' = (IF none THEN <<>> ELSE <<x>>) \o <<R>>
        /\ ~none => BehindForm(rhs, t) /\ \E s \in Strengths, b \in Allocated :
                      rhs.copies = {Pointer(s, b)} /\ x = Delete(s, b)
        /\ BehindForm(rhs, t) => ~none
  <2>1. CASE BehindForm(rhs, t)
    <3>1. PICK s \in Strengths, b \in Allocated : rhs.copies = {Pointer(s, b)} /\ rhs.then = <<Delete(s, b)>>
      BY <2>1 DEF BehindForm
    <3>2. todo' = (IF FALSE THEN <<>> ELSE <<Delete(s, b)>>) \o <<R>>
      BY <1>3, <3>1
    <3> QED
      BY <2>1, <3>1, <3>2
  <2>2. CASE ~BehindForm(rhs, t)
    <3>1. todo' = (IF TRUE THEN <<>> ELSE <<0>>) \o <<R>>
      BY <1>2, <1>3, <2>2 DEF DataForm, CopyForm, NewForm
    <3> QED
      BY <2>2, <3>1
  <2> QED
    BY <2>1, <2>2
<1>6. PICK x :
        /\ todo' = (IF none THEN <<>> ELSE <<x>>) \o <<R>>
        /\ ~none => BehindForm(rhs, t) /\ \E s \in Strengths, b \in Allocated :
                      rhs.copies = {Pointer(s, b)} /\ x = Delete(s, b)
        /\ BehindForm(rhs, t) => ~none
  BY <1>5a
<1>7. /\ R \in Tasks /\ R.do = "replace" /\ R.at = at /\ R.b = v
      /\ ~none => x \in Tasks /\ x.do = "delete"
  BY <1>1, <1>4, <1>5, <1>6, TaskForms
<1> HIDE DEF at, t, v, R
<1>8. /\ todo' \in Seq(Tasks) /\ TasksOf(todo') = (IF none THEN {} ELSE {x}) \cup {R} /\ Shape(todo')
      /\ \A T : NumTasks(todo', T) = One(R \in T) + One(~none /\ x \in T)
  <2>1. /\ <<R>> \in Seq(Tasks) /\ <<R>> \o <<>> = <<R>> /\ <<>> \in Seq(Tasks)
    BY <1>7, ConcatEmptySeq
  <2>2. TasksOf(<<R>>) = {R} /\ Shape(<<R>>)
    BY <1>7 DEF TasksOf, Shape
  <2>3. \A T : NumTasks(<<R>>, T) = One(R \in T)
    <3> TAKE T
    <3>1. NumTasks(<<R>> \o <<>>, T) = NumTasks(<<>>, T) + One(R \in T)
      BY <1>7, <2>1, NumTasksOfCons
    <3>2. NumTasks(<<>>, T) = 0
      BY NumTasksOfNone
    <3> QED
      BY <2>1, <3>1, <3>2 DEF One
  <2>4. (none \/ x \in Tasks) /\ (~none => x.do \notin Moving)
    BY <1>7 DEF Moving
  <2> DEFINE q == <<R>>
             p == (IF none THEN <<>> ELSE <<x>>) \o q
  <2>5. todo' = p /\ q \in Seq(Tasks) /\ Shape(q) /\ TasksOf(q) = {R}
    BY <1>6, <2>1, <2>2
  <2>6. \A T : NumTasks(q, T) = One(R \in T)
    BY <2>3
  <2> HIDE DEF p, q
  <2>7. /\ p \in Seq(Tasks) /\ TasksOf(p) = (IF none THEN {} ELSE {x}) \cup TasksOf(q) /\ Shape(p)
        /\ \A T : NumTasks(p, T) = NumTasks(q, T) + One(~none /\ x \in T)
    BY <1>6, <2>4, <2>5, PushMaybe DEF p
  <2> QED
    BY <2>5, <2>6, <2>7
<1>9. StateInv' /\ ShapeInv' /\ ScopeInv' /\ fault' # "freed"
  BY <1>3, <1>8 DEF IInv, StateInv, ShapeInv, ScopeInv
<1>10. \A c \in Blocks : heap[c].status # "unused" =>
         c \notin rhs.fresh /\ heap'[c].status = heap[c].status
         /\ heap'[c].type = heap[c].type /\ heap'[c].element = heap[c].element
  BY <1>3
<1>11. at.b \notin rhs.fresh /\ heap[at.b].status # "unused" /\ heap'[at.b].type = t
  BY <1>1, <1>4, <1>10 DEF Allocated
<1>12. TypingInv'
  <2>1. ASSUME NEW u \in Vars, address'[u] # Nil
        PROVE  heap'[address'[u]].type = VarType[u]
    <3>1. u \in Declared /\ address'[u] = address[u]
      BY <1>3, <2>1 DEF Declared
    <3>2. address[u] \in Blocks /\ heap[address[u]].status = "alive" /\ heap[address[u]].type = VarType[u]
      BY <3>1, VariableLeads
    <3> QED
      BY <1>10, <3>1, <3>2
  <2>2. ASSUME NEW c \in Blocks, heap'[c].status = "alive", heap'[c].type # <<>>, heap'[c].element # Nil
        PROVE  heap'[heap'[c].element].status # "unused" /\ heap'[heap'[c].element].type = Tail(heap'[c].type)
    <3>1. /\ heap[c].status = "alive" /\ heap[c].type = heap'[c].type /\ heap[c].element = heap'[c].element
      BY <1>3, <2>2
    <3>2. heap[c].element \in Blocks
      BY <1>4, <2>2, <3>1 DEF Block
    <3>3. heap[heap[c].element].status # "unused" /\ heap[heap[c].element].type = Tail(heap[c].type)
      BY <2>2, <3>1 DEF IInv, TypingInv, PointsTo
    <3> QED
      BY <1>10, <3>1, <3>2, <3>3
  <2>3. t # <<>> /\ v # Nil => v \in Blocks /\ heap'[v].status # "unused" /\ heap'[v].type = Tail(t)
    <3> SUFFICES ASSUME t # <<>>, v # Nil
                 PROVE  v \in Blocks /\ heap'[v].status # "unused" /\ heap'[v].type = Tail(t)
      OBVIOUS
    <3>1. v \in Blocks
      BY <1>5
    <3>2. CASE CopyForm(rhs, t)
      BY <1>10, <3>1, <3>2 DEF CopyForm, Allocated, v
    <3>3. CASE NewForm(rhs, t)
      <4>1. v \in rhs.fresh
        BY <3>3 DEF NewForm, v
      <4> QED
        BY <1>3, <3>1, <4>1
    <3> QED
      BY <1>2, <3>2, <3>3 DEF DataForm, BehindForm
  <2>4. ASSUME NEW r \in TasksOf(todo'), r.do \in Moving
        PROVE  /\ heap'[r.at.b].status # "unused"
               /\ r.at.s = "weak" => heap'[r.at.b].type = <<>>
               /\ heap'[r.at.b].type # <<>> /\ r.b # Nil =>
                    heap'[r.b].status # "unused" /\ heap'[r.b].type = Tail(heap'[r.at.b].type)
    <3>1. r = R
      BY <1>7, <1>8, <2>4 DEF Moving
    <3>2. heap'[at.b].status # "unused"
      BY <1>4, <1>10, <1>11
    <3> QED
      BY <1>1, <1>7, <1>11, <2>3, <3>1, <3>2
  <2> QED
    BY <2>1, <2>2, <2>4 DEF TypingInv, PointsTo
<1>13. ASSUME NEW s \in Strengths, NEW b \in Blocks
       PROVE  Elements(s, b)' = Elements(s, b)
  <2>1. /\ \A r \in TasksOf(todo') : r.do # "store"
        /\ TasksOf(todo) = {}
    <3>1. TasksOf(todo) = {}
      BY DEF TasksOf
    <3> QED
      BY <1>7, <1>8, <3>1
  <2>2. \A c \in Blocks : c \in Elements(s, b)' <=> c \in Elements(s, b)
    BY <1>3, <1>4, <2>1, ElementsForm
  <2> QED
    BY <2>2 DEF Elements
<1>14. ASSUME NEW s \in Strengths, NEW b \in Blocks
       PROVE  One(R \in ValueTasks(s, b)') + One(~none /\ x \in ValueTasks(s, b)')
                = One(Pointer(s, b) \in rhs.copies) + One(s = "strong" /\ b \in rhs.fresh)
  <2>1. R \in ValueTasks(s, b)' <=> t # <<>> /\ t[1] = s /\ v = b
    BY <1>1, <1>5, <1>11, WeightsAfterwards DEF R
  <2>2. CASE DataForm(rhs, t)
    BY <1>6, <2>1, <2>2 DEF DataForm, BehindForm, One
  <2>3. CASE CopyForm(rhs, t)
    <3>1. Pointer(s, b) \in rhs.copies <=> t[1] = s /\ v = b
      BY <2>3 DEF CopyForm, Pointer, v
    <3> QED
      BY <1>6, <2>1, <2>3, <3>1 DEF CopyForm, BehindForm, One
  <2>4. CASE NewForm(rhs, t)
    BY <1>6, <2>1, <2>4 DEF NewForm, BehindForm, One, v
  <2>5. CASE BehindForm(rhs, t)
    <3>1. PICK r \in Strengths, c \in Allocated : rhs.copies = {Pointer(r, c)} /\ x = Delete(r, c)
      BY <1>6, <2>5
    <3>2. x \in ValueTasks(s, b)' <=> r = s /\ c = b
      BY <1>4, <3>1, WeightsAfterwards
    <3>3. Pointer(s, b) \in rhs.copies <=> r = s /\ c = b
      BY <3>1 DEF Pointer
    <3>4. ~none /\ t = <<>> /\ rhs.fresh = {}
      BY <1>6, <2>5 DEF BehindForm
    <3> QED
      BY <2>1, <3>2, <3>3, <3>4 DEF One
  <2> QED
    BY <1>2, <2>2, <2>3, <2>4, <2>5
<1>15. ASSUME NEW s \in Strengths, NEW b \in Blocks
       PROVE  /\ Held(s, b) \in Nat
              /\ Held(s, b)' = Held(s, b) + One(at = Pointer(s, b)) + One(Pointer(s, b) \in rhs.copies)
                                 + One(s = "strong" /\ b \in rhs.fresh)
  <2> DEFINE vt == NumTasks(todo', ValueTasks(s, b)')
             ad == NumTasks(todo', AddressTasks(s, b)')
             k == Cardinality(VarsAt(s, b))
             e == Cardinality(Elements(s, b))
  <2>1. vt = One(Pointer(s, b) \in rhs.copies) + One(s = "strong" /\ b \in rhs.fresh)
    BY <1>8, <1>14
  <2>2. ad = One(at = Pointer(s, b))
    <3>1. R \in AddressTasks(s, b) <=> at = Pointer(s, b)
      BY <1>1, <1>5, TaskWeights DEF R
    <3>2. ~none => x \notin AddressTasks(s, b)
      BY <1>4, <1>6, TaskWeights
    <3>3. NumTasks(todo', AddressTasks(s, b)) = One(R \in AddressTasks(s, b)) + One(~none /\ x \in AddressTasks(s, b))
      BY <1>8
    <3>4. AddressTasks(s, b)' = AddressTasks(s, b)
      BY WeightsAfterwards
    <3> QED
      BY <3>1, <3>2, <3>3, <3>4 DEF One
  <2>3. \A T : NumTasks(todo, T) = 0
    BY NumTasksOfNone
  <2>4. VarsAt(s, b)' = VarsAt(s, b)
    BY <1>3 DEF VarsAt
  <2>5. k \in Nat /\ e \in Nat
    BY <1>4, HeldParts
  <2>6. Held(s, b) = k + e + 0 + 0
    BY <2>3 DEF Held
  <2>7. Held(s, b)' = k + e + vt + ad
    BY <1>13, <2>4 DEF Held
  <2>8. /\ One(at = Pointer(s, b)) \in Nat /\ One(Pointer(s, b) \in rhs.copies) \in Nat
        /\ One(s = "strong" /\ b \in rhs.fresh) \in Nat
    BY DEF One
  <2> HIDE DEF vt, ad, k, e
  <2> QED
    BY <2>1, <2>2, <2>5, <2>6, <2>7, <2>8
<1>16. ASSUME NEW s \in Strengths, NEW b \in Blocks, at = Pointer(s, b) \/ Pointer(s, b) \in rhs.copies
       PROVE  b \in Allocated /\ b \notin rhs.fresh /\ (s = "strong" => heap[b].status = "alive")
  <2>1. CASE at = Pointer(s, b)
    <3>1. at.s = s /\ at.b = b
      BY <2>1, PointerForms
    <3> QED
      BY <1>1, <1>11, <3>1
  <2>2. CASE Pointer(s, b) \in rhs.copies
    <3>1. CASE CopyForm(rhs, t)
      BY <2>2, <3>1 DEF CopyForm, Pointer
    <3>2. CASE BehindForm(rhs, t)
      BY <2>2, <3>2 DEF BehindForm, Pointer
    <3> QED
      BY <1>2, <2>2, <3>1, <3>2 DEF DataForm, NewForm
  <2> QED
    BY <1>16, <2>1, <2>2
<1>17. ASSUME NEW b \in Blocks
       PROVE  Counted(heap'[b], Held("strong", b)', Held("weak", b)', Ending(b)')
  <2>1. Ending(b)' = 0 /\ Ending(b) = 0
    <3>1. Ending(b)' = NumTasks(todo', {Finish(b)}) /\ Ending(b) = 0
      BY NumTasksOfNone DEF Ending, Finish
    <3>2. R \notin {Finish(b)} /\ (~none => x \notin {Finish(b)})
      BY <1>7, TaskForms
    <3> QED
      BY <1>8, <3>1, <3>2 DEF One
  <2>2. Counted(heap[b], Held("strong", b), Held("weak", b), Ending(b)) /\ heap[b].weak \in Nat /\ heap[b].strong \in Nat
    BY DEF IInv, CountInv, StateInv, Block
  <2>3. PICK ls \in Nat, cs \in Nat, lw \in Nat, cw \in Nat :
          /\ ls = One(at = Pointer("strong", b)) /\ cs = One(Pointer("strong", b) \in rhs.copies)
          /\ lw = One(at = Pointer("weak", b)) /\ cw = One(Pointer("weak", b) \in rhs.copies)
    BY DEF One
  <2>4. /\ heap'[b].strong = (IF b \in rhs.fresh THEN 1 ELSE heap[b].strong) + ls + cs
        /\ heap'[b].weak = (IF b \in rhs.fresh THEN 0 ELSE heap[b].weak) + lw + cw
    BY <1>3, <2>3
  <2>5. /\ Held("strong", b) \in Nat /\ Held("strong", b)' = Held("strong", b) + ls + cs + One(b \in rhs.fresh)
        /\ Held("weak", b) \in Nat /\ Held("weak", b)' = Held("weak", b) + lw + cw
    <3>1. Held("strong", b) \in Nat
          /\ Held("strong", b)' = Held("strong", b) + One(at = Pointer("strong", b)) + One(Pointer("strong", b) \in rhs.copies)
                                     + One("strong" = "strong" /\ b \in rhs.fresh)
      BY <1>15 DEF Strengths
    <3>2. Held("weak", b) \in Nat
          /\ Held("weak", b)' = Held("weak", b) + One(at = Pointer("weak", b)) + One(Pointer("weak", b) \in rhs.copies)
                                     + One("weak" = "strong" /\ b \in rhs.fresh)
      BY <1>15 DEF Strengths
    <3> QED
      BY <2>3, <3>1, <3>2 DEF One
  <2>6. /\ b \notin Allocated \/ b \in rhs.fresh => ls = 0 /\ cs = 0 /\ lw = 0 /\ cw = 0
        /\ heap[b].status # "alive" => ls = 0 /\ cs = 0
    BY <1>16, <2>3 DEF One, Strengths
  <2>7. CASE b \in rhs.fresh
    <3>1. heap[b].status = "unused" /\ heap'[b].status = "alive"
      BY <1>3, <2>7
    <3>2. Held("strong", b) = 0 /\ Held("weak", b) = 0
      BY <2>2, <3>1 DEF Counted
    <3> QED
      BY <2>1, <2>4, <2>5, <2>6, <2>7, <3>1, <3>2 DEF Counted, One
  <2>8. CASE b \notin rhs.fresh
    <3>1. heap'[b].status = heap[b].status
      BY <1>3, <2>8
    <3>2. PICK m \in Nat, n \in Nat : m = ls + cs /\ n = lw + cw
      OBVIOUS
    <3>3. heap'[b].strong = heap[b].strong + m /\ heap'[b].weak = heap[b].weak + n
      BY <2>2, <2>4, <2>8, <3>2
    <3>4. Held("strong", b)' = Held("strong", b) + m /\ Held("weak", b)' = Held("weak", b) + n
      <4>1. One(b \in rhs.fresh) = 0
        BY <2>8 DEF One
      <4> QED
        BY <2>5, <3>2, <4>1
    <3>5. /\ heap[b].status # "alive" => m = 0
          /\ heap[b].status \notin {"alive", "destroyed"} => n = 0
      BY <2>6, <3>2 DEF Allocated
    <3>6. Counted(heap[b], Held("strong", b), Held("weak", b), 0)
      BY <2>1, <2>2
    <3>7. Held("strong", b) \in Nat /\ Held("weak", b) \in Nat /\ heap[b].strong \in Nat /\ heap[b].weak \in Nat
      BY <2>2, <2>5
    <3>8. Counted(heap'[b], Held("strong", b) + m, Held("weak", b) + n, 0)
      BY <3>1, <3>3, <3>5, <3>6, <3>7, CountedMore
    <3> QED
      BY <2>1, <3>4, <3>8
  <2> QED
    BY <2>7, <2>8
<1> QED
  BY <1>9, <1>12, <1>17 DEF IInv, CountInv

LEMMA AssignStep ==
  ASSUME IInv, OwningProgram, Assign
  PROVE  IInv'
<1>1. PICK lhs \in LhsAddresses : \E rhs \in ExprsOf(lhs.t) : AssignStmt(lhs, rhs)
  BY DEF Assign
<1>2. PICK rhs \in ExprsOf(lhs.t) : AssignStmt(lhs, rhs)
  BY <1>1
<1>3. todo = <<>> /\ fault = "none"
  BY DEF Assign, Ready
<1>4. lhs.uses \subseteq Allocated \cup {Nil} /\ rhs.uses \subseteq Allocated \cup {Nil}
  BY <1>3, LhsForm, RhsForm
<1>5. CASE lhs.uses \cup rhs.uses \subseteq Allocated
  BY <1>2, <1>3, <1>5, AssignEvaluated
<1>6. CASE ~(lhs.uses \cup rhs.uses \subseteq Allocated)
  <2>1. Nil \in lhs.uses \cup rhs.uses
    BY <1>4, <1>6
  <2>2. Stop("nil")
    BY <1>2, <1>6, <2>1 DEF AssignStmt, FaultOf
  <2> QED
    BY <2>2, Stopped
<1> QED
  BY <1>5, <1>6

-----------------------------------------------------------------------------
LEMMA Invariant ==
  ASSUME OwningProgram
  PROVE  Spec => []IInv
<1>1. Init => IInv
  <2> SUFFICES ASSUME Init PROVE IInv
    OBVIOUS
  <2>1. /\ heap = [b \in Blocks |-> UnusedBlock] /\ address = [v \in Vars |-> Nil]
        /\ scope = <<>> /\ todo = <<>> /\ phase = "running" /\ fault = "none"
    BY DEF Init
  <2>2. UnusedBlock \in Block /\ UnusedBlock.status = "unused"
    BY DEF UnusedBlock, Block, Statuses, Types
  <2>3. StateInv
    BY <2>1, <2>2 DEF StateInv
  <2>4. TypingInv /\ ShapeInv /\ ScopeInv
    BY <2>1, <2>2 DEF TypingInv, PointsTo, ShapeInv, Shape, ScopeInv, TasksOf
  <2>5. ASSUME NEW s \in Strengths, NEW b \in Blocks PROVE Held(s, b) = 0 /\ Ending(b) = 0
    <3>1. VarsAt(s, b) = {}
      BY <2>1, BlocksAssumption DEF VarsAt
    <3>2. Elements(s, b) = {}
      BY <2>1, <2>2 DEF Elements
    <3>3. \A T : NumTasks(todo, T) = 0
      BY <2>1, NumTasksOfNone
    <3> QED
      BY <3>1, <3>2, <3>3, FS_EmptySet DEF Held, Ending
  <2>6. CountInv
    BY <2>1, <2>2, <2>5 DEF CountInv, Counted, Strengths
  <2> QED
    BY <2>1, <2>3, <2>4, <2>6 DEF IInv
<1>2. IInv /\ [Next]_vars => IInv'
  <2> SUFFICES ASSUME IInv, [Next]_vars PROVE IInv'
    OBVIOUS
  <2>1. CASE UNCHANGED vars
    <3>1. /\ heap' = heap /\ address' = address /\ scope' = scope
          /\ todo' = todo /\ phase' = phase /\ fault' = fault
      BY <2>1 DEF vars
    <3>2. StateInv' /\ TypingInv' /\ ShapeInv' /\ ScopeInv' /\ fault' # "freed"
      BY <3>1 DEF IInv, StateInv, TypingInv, PointsTo, ShapeInv, ScopeInv
    <3>3. \A s, b : Held(s, b)' = Held(s, b) /\ Ending(b)' = Ending(b)
      BY <3>1 DEF Held, Ending, VarsAt, Elements, ElementType, ValueTasks, PointersOf, AddressTasks
    <3> QED
      BY <3>1, <3>2, <3>3 DEF IInv, CountInv
  <2>2. CASE Next
    BY <2>2, DeclareVarStep, AssignStep, LeaveScopeStep, BuildAssignmentStep, StoreValueStep, DeleteNilStep,
       DeleteStrongStep, FinishStep, DeleteWeakStep DEF Next
  <2> QED
    BY <2>1, <2>2
<1> QED
  BY <1>1, <1>2, PTL DEF Spec

(* Owners counts the same pointers as Held, while the element is there.     *)
LEMMA OwnersAreHeld ==
  ASSUME IInv, OwningProgram, NEW s \in Strengths, NEW b \in Blocks, s = "strong" => Ending(b) = 0
  PROVE  Owners(s, b) = Held(s, b)
<1>1. todo \in Seq(Tasks) /\ StateInv
  BY DEF IInv, StateInv
<1>2. TaskPointers(s, b) = Positions(todo, ValueTasks(s, b))
  <2> SUFFICES ASSUME NEW i \in DOMAIN todo
               PROVE  i \in TaskPointers(s, b) <=> todo[i] \in ValueTasks(s, b)
    BY DEF TaskPointers, Positions
  <2>1. todo[i] \in Tasks
    BY <1>1
  <2>2. s = "strong" => todo[i] # Finish(b)
    <3>1. ASSUME s = "strong", todo[i] = Finish(b) PROVE FALSE
      <4>1. NumTasks(todo, {Finish(b)}) > 0
        BY <1>1, <3>1, SomeTask
      <4> QED
        BY <3>1, <4>1 DEF Ending
    <3> QED
      BY <3>1
  <2>3. i \in TaskPointers(s, b) <=>
          \/ todo[i] = Delete(s, b)
          \/ /\ todo[i].do \in Moving /\ todo[i].b = b
             /\ heap[todo[i].at.b].type # <<>> /\ heap[todo[i].at.b].type[1] = s
    BY <2>2 DEF TaskPointers, StoredType, ElementType, Moving
  <2>4. CASE todo[i].do = "delete"
    BY <2>1, <2>3, <2>4, TaskKinds, TaskWeights DEF Moving
  <2>5. CASE todo[i].do = "finish"
    BY <2>1, <2>3, <2>5, TaskKinds, TaskWeights, TaskForms DEF Moving
  <2>6. CASE todo[i].do = "replace"
    BY <2>1, <2>3, <2>6, TaskKinds, TaskWeights, TaskForms DEF Moving, PointersOf
  <2>7. CASE todo[i].do = "store"
    BY <2>1, <2>3, <2>7, TaskKinds, TaskWeights, TaskForms DEF Moving, PointersOf
  <2> QED
    BY <2>1, <2>4, <2>5, <2>6, <2>7, TaskKinds DEF Moving
<1>3. TaskAddresses(s, b) = Positions(todo, AddressTasks(s, b))
  <2> SUFFICES ASSUME NEW i \in DOMAIN todo
               PROVE  todo[i].do = "replace" /\ todo[i].at = Pointer(s, b) <=> todo[i] \in AddressTasks(s, b)
    BY DEF TaskAddresses, Positions
  <2>1. todo[i] \in Tasks
    BY <1>1
  <2>2. CASE todo[i].do = "replace"
    BY <2>1, <2>2, TaskKinds, TaskWeights
  <2>3. CASE todo[i].do # "replace"
    BY <2>1, <2>3, TaskForms, PointerForms DEF AddressTasks
  <2> QED
    BY <2>2, <2>3
<1> QED
  BY <1>2, <1>3 DEF Owners, Held, VarsAt, NumTasks

(* The strong count of a block that is alive is the number of its strong    *)
(* owners, the weak count of a block that is there the number of its weak   *)
(* ones, after every step of every program: what shared_pointer.ir counts   *)
(* is what the builder's instructions hold.                                *)
THEOREM CountsAreOwners ==
  ASSUME OwningProgram
  PROVE  Spec => []CountsMatchOwners
<1>1. IInv => CountsMatchOwners
  <2> SUFFICES ASSUME IInv, NEW b \in Blocks
               PROVE  /\ heap[b].status = "alive" => heap[b].strong = Owners("strong", b)
                      /\ b \in Allocated => heap[b].weak = Owners("weak", b)
    BY DEF CountsMatchOwners
  <2>1. Counted(heap[b], Held("strong", b), Held("weak", b), Ending(b))
    BY DEF IInv, CountInv
  <2>2. Owners("weak", b) = Held("weak", b)
    BY OwnersAreHeld DEF Strengths
  <2>3. Ending(b) = 0 => Owners("strong", b) = Held("strong", b)
    BY OwnersAreHeld DEF Strengths
  <2> QED
    BY <2>1, <2>2, <2>3 DEF Counted, Allocated
<1> QED
  BY <1>1, Invariant, PTL

(* No step of any program reads, writes or frees a block that was freed.    *)
THEOREM NothingIsUsedAfterFree ==
  ASSUME OwningProgram
  PROVE  Spec => []NoUseAfterFree
<1>1. IInv => NoUseAfterFree
  BY DEF IInv, NoUseAfterFree
<1> QED
  BY <1>1, Invariant, PTL

-----------------------------------------------------------------------------
(* A block without owners: destroyed, without weak pointers, and no frame of *)
(* delete_strong_shared has yet to free it.                                *)
Gone(b) == heap[b].status = "destroyed" /\ heap[b].weak = 0 /\ Ending(b) = 0

AbandonedAreGone == \A b \in Blocks : Abandoned(b) <=> Gone(b)

LEMMA EndingOwns ==
  ASSUME IInv, OwningProgram, NEW b \in Blocks, Ending(b) # 0
  PROVE  Owners("strong", b) # 0
<1>1. StateInv /\ todo \in Seq(Tasks) /\ Ending(b) \in Nat /\ Len(todo) \in Nat /\ DOMAIN todo = 1..Len(todo)
  BY HeldParts DEF IInv, StateInv, Strengths
<1>2. PICK i \in DOMAIN todo : todo[i] = Finish(b)
  BY <1>1, SomeTask DEF Ending
<1>3. IsFiniteSet(DOMAIN todo)
  BY <1>1, FS_Interval
<1>4. /\ IsFiniteSet(TaskPointers("strong", b)) /\ i \in TaskPointers("strong", b)
      /\ IsFiniteSet(TaskAddresses("strong", b))
  <2>1. TaskPointers("strong", b) \subseteq DOMAIN todo /\ TaskAddresses("strong", b) \subseteq DOMAIN todo
    BY DEF TaskPointers, TaskAddresses
  <2> QED
    BY <1>2, <1>3, <2>1, FS_Subset DEF TaskPointers
<1>5. /\ Cardinality(TaskPointers("strong", b)) \in Nat /\ Cardinality(TaskPointers("strong", b)) # 0
      /\ Cardinality(TaskAddresses("strong", b)) \in Nat
  BY <1>4, FS_CardinalityType, FS_EmptySet
<1>6. Cardinality(VarsAt("strong", b)) \in Nat /\ Cardinality(Elements("strong", b)) \in Nat
  BY <1>1, HeldParts DEF Strengths
<1>7. Owners("strong", b) = Cardinality(VarsAt("strong", b)) + Cardinality(Elements("strong", b))
                              + Cardinality(TaskPointers("strong", b)) + Cardinality(TaskAddresses("strong", b))
  BY DEF Owners, VarsAt
<1> QED
  BY <1>5, <1>6, <1>7

LEMMA AbandonedForm ==
  ASSUME OwningProgram
  PROVE  IInv => AbandonedAreGone
<1> SUFFICES ASSUME IInv, NEW b \in Blocks
             PROVE  Abandoned(b) <=> Gone(b)
  BY DEF AbandonedAreGone
<1>1. Counted(heap[b], Held("strong", b), Held("weak", b), Ending(b))
  BY DEF IInv, CountInv
<1>2. CASE Ending(b) = 0
  <2>1. Owners("strong", b) = Held("strong", b) /\ Owners("weak", b) = Held("weak", b)
    BY <1>2, OwnersAreHeld DEF Strengths
  <2> QED
    BY <1>1, <1>2, <2>1 DEF Abandoned, Gone, Allocated, Counted
<1>3. CASE Ending(b) # 0
  BY <1>3, EndingOwns DEF Abandoned, Gone
<1> QED
  BY <1>2, <1>3

(* What is still to be ended is ended later unless it is the first task.    *)
LEMMA EndingStays ==
  ASSUME IInv, todo # <<>>, NEW S, NEW tasks \in Seq(S), Continue(tasks), NEW b \in Blocks,
         todo[1] # Finish(b), Ending(b)' = 0
  PROVE  Ending(b) = 0 /\ \A i \in DOMAIN tasks : tasks[i] # Finish(b)
<1> DEFINE q == tasks \o Tail(todo)
<1>1. todo \in Seq(Tasks) /\ Tail(todo) \in Seq(Tasks) /\ todo' = q
  BY TailTasks DEF IInv, StateInv, Continue
<1>2. /\ q \in Seq(S \cup Tasks) /\ \A i \in DOMAIN tasks : i \in DOMAIN q /\ q[i] = tasks[i]
      /\ \A i \in DOMAIN Tail(todo) : Len(tasks) + i \in DOMAIN q /\ q[Len(tasks) + i] = Tail(todo)[i]
  <2>1. tasks \in Seq(S \cup Tasks) /\ Tail(todo) \in Seq(S \cup Tasks)
    BY <1>1
  <2> QED
    BY <2>1
<1> HIDE DEF q
<1>3. ~ (NumTasks(q, {Finish(b)}) > 0)
  <2>1. Ending(b)' = NumTasks(todo', {Finish(b)})
    BY DEF Ending, Finish
  <2> QED
    BY <1>1, <2>1
<1>4. \A i \in DOMAIN q : q[i] # Finish(b)
  BY <1>2, <1>3, SomeTask
<1>5. ~ (NumTasks(Tail(todo), {Finish(b)}) > 0)
  <2> DEFINE r == Tail(todo)
  <2>1. r \in Seq(Tasks) /\ \A i \in DOMAIN r : r[i] # Finish(b)
    BY <1>1, <1>2, <1>4
  <2> HIDE DEF r
  <2>2. ~ (NumTasks(r, {Finish(b)}) > 0)
    BY <2>1, SomeTask
  <2> QED
    BY <2>2 DEF r
<1>6. Ending(b) \in Nat /\ NumTasks(Tail(todo), {Finish(b)}) = Ending(b) - One(todo[1] = Finish(b))
  BY EndingChange DEF IInv
<1>7. Ending(b) = 0
  BY <1>5, <1>6 DEF One
<1> QED
  BY <1>2, <1>4, <1>7

(* Nothing that is stopped changes.                                        *)
LEMMA StoppedIsGone ==
  ASSUME NEW f, Stop(f), NEW b \in Blocks, Gone(b)'
  PROVE  Gone(b)
  BY DEF Stop, Gone, Ending, Finish

(* The statements destroy nothing and take no weak pointer away.            *)
LEMMA StatementKeeps ==
  ASSUME IInv, OwningProgram, NEW b \in Blocks, Gone(b)',
         (\E v \in Vars, d \in Blocks : DeclareVar(v, d)) \/ Assign \/ LeaveScope
  PROVE  Gone(b)
<1>1. todo = <<>> /\ heap \in [Blocks -> Block] /\ heap[b].weak \in Nat
  BY DEF DeclareVar, Assign, LeaveScope, Ready, IInv, StateInv, Block
<1>2. Ending(b) = 0
  BY <1>1, NumTasksOfNone DEF Ending
<1>3. heap'[b].status = "destroyed" /\ heap'[b].weak = 0
  BY DEF Gone
<1>4. ASSUME NEW v \in Vars, NEW d \in Blocks, DeclareVar(v, d)
      PROVE  Gone(b)
  BY <1>1, <1>2, <1>3, <1>4 DEF DeclareVar, MakeShared, Gone
<1>5. ASSUME Assign
      PROVE  Gone(b)
  <2>1. PICK lhs \in LhsAddresses : \E rhs \in ExprsOf(lhs.t) : AssignStmt(lhs, rhs)
    BY <1>5 DEF Assign
  <2>2. PICK rhs \in ExprsOf(lhs.t) : AssignStmt(lhs, rhs)
    BY <2>1
  <2>3. CASE lhs.uses \cup rhs.uses \subseteq Allocated
    <3>1. /\ b \in rhs.fresh => heap'[b].status = "alive"
          /\ b \notin rhs.fresh => heap'[b].status = heap[b].status
          /\ heap'[b].weak = (IF b \in rhs.fresh THEN 0 ELSE heap[b].weak)
                + One(lhs.at = Pointer("weak", b)) + One(Pointer("weak", b) \in rhs.copies)
      BY <1>1, <2>2, <2>3, AssignLeaves
    <3>2. One(lhs.at = Pointer("weak", b)) \in Nat /\ One(Pointer("weak", b) \in rhs.copies) \in Nat
      BY DEF One
    <3>3. heap[b].status = "destroyed" /\ heap[b].weak = 0
      BY <1>1, <1>3, <3>1, <3>2
    <3> QED
      BY <1>2, <3>3 DEF Gone
  <2>4. CASE ~(lhs.uses \cup rhs.uses \subseteq Allocated)
    BY <2>2, <2>4, StoppedIsGone DEF AssignStmt
  <2> QED
    BY <2>3, <2>4
<1>6. ASSUME LeaveScope
      PROVE  Gone(b)
  BY <1>2, <1>3, <1>6 DEF LeaveScope, Gone
<1> QED
  BY <1>4, <1>5, <1>6

(* An assignment changes neither counts nor what is to be ended.            *)
LEMMA AssignmentKeeps ==
  ASSUME IInv, OwningProgram, NEW b \in Blocks, Gone(b)', BuildAssignment \/ StoreValue \/ DeleteNil
  PROVE  Gone(b)
<1>1. todo # <<>> /\ todo[1].do # "finish" /\ heap \in [Blocks -> Block] /\ todo[1] # Finish(b)
  BY DEF BuildAssignment, StoreValue, DeleteNil, Active, IInv, StateInv, Finish
<1>2. heap'[b].status = "destroyed" /\ heap'[b].weak = 0 /\ Ending(b)' = 0
  BY DEF Gone
<1>3. ASSUME BuildAssignment, \A f : ~Stop(f)
      PROVE  Gone(b)
  <2> DEFINE at == todo[1].at
             t == ElementType(at.b)
             D == Delete(t[1], Element(at.b))
             x == Store(at, todo[1].b)
             y == Delete(at.s, at.b)
             tasks == (IF t = <<>> THEN <<>> ELSE <<D>>) \o <<x, y>>
  <2>1. heap' = heap /\ Continue(tasks)
    BY <1>3 DEF BuildAssignment
  <2> HIDE DEF t, D, x, y
  <2>2. tasks \in Seq({D, x, y})
    <3>1. <<x, y>> \in Seq({D, x, y}) /\ <<>> \in Seq({D, x, y}) /\ <<D>> \in Seq({D, x, y})
      OBVIOUS
    <3>2. (IF t = <<>> THEN <<>> ELSE <<D>>) \in Seq({D, x, y})
      BY <3>1
    <3> QED
      BY <3>1, <3>2, ConcatProperties
  <2>3. Ending(b) = 0
    BY <1>1, <1>2, <2>1, <2>2, EndingStays
  <2> QED
    BY <1>2, <2>1, <2>3 DEF Gone
<1>4. ASSUME StoreValue, \A f : ~Stop(f)
      PROVE  Gone(b)
  <2>1. heap' = [heap EXCEPT ![todo[1].at.b].element = todo[1].b] /\ Continue(<<>>)
    BY <1>4 DEF StoreValue
  <2>2. <<>> \in Seq(Tasks)
    OBVIOUS
  <2>3. Ending(b) = 0
    BY <1>1, <1>2, <2>1, <2>2, EndingStays
  <2>4. heap'[b].status = heap[b].status /\ heap'[b].weak = heap[b].weak
    BY <1>1, <2>1 DEF Block
  <2> QED
    BY <1>2, <2>3, <2>4 DEF Gone
<1>5. ASSUME DeleteNil
      PROVE  Gone(b)
  <2>1. heap' = heap /\ Continue(<<>>) /\ <<>> \in Seq(Tasks)
    BY <1>5 DEF DeleteNil
  <2>2. Ending(b) = 0
    BY <1>1, <1>2, <2>1, EndingStays
  <2> QED
    BY <1>2, <2>1, <2>2 DEF Gone
<1> QED
  BY <1>3, <1>4, <1>5, StoppedIsGone

(* The last strong pointer leaves a block that is still to be ended.        *)
LEMMA DeleteStrongKeeps ==
  ASSUME IInv, OwningProgram, NEW b \in Blocks, Gone(b)', NEW d \in Blocks, DeleteStrongShared(d)
  PROVE  Gone(b)
<1>1. todo # <<>> /\ todo[1].do # "finish" /\ heap \in [Blocks -> Block] /\ todo[1] # Finish(b)
  BY DEF DeleteStrongShared, Active, IInv, StateInv, Finish
<1>2. heap'[b].status = "destroyed" /\ heap'[b].weak = 0 /\ Ending(b)' = 0
  BY DEF Gone
<1>3. CASE d \notin Allocated
  BY <1>3, StoppedIsGone DEF DeleteStrongShared
<1>4. CASE d \in Allocated /\ heap[d].strong = 1
  <2> DEFINE D == Delete(ElementType(d)[1], Element(d))
             tasks == (IF ElementType(d) = <<>> THEN <<>> ELSE <<D>>) \o <<Finish(d)>>
  <2>1. heap' = [heap EXCEPT ![d].status = "destroyed"] /\ Continue(tasks)
    BY <1>4 DEF DeleteStrongShared, Destructor
  <2>2. tasks \in Seq({D, Finish(d)}) /\ \E i \in DOMAIN tasks : tasks[i] = Finish(d)
    <3> HIDE DEF D
    <3>1. CASE ElementType(d) = <<>>
      <4>1. tasks = <<>> \o <<Finish(d)>> /\ <<Finish(d)>> \in Seq({D, Finish(d)})
        BY <3>1
      <4>2. tasks = <<Finish(d)>>
        BY <4>1, ConcatEmptySeq
      <4>3. 1 \in DOMAIN <<Finish(d)>> /\ <<Finish(d)>>[1] = Finish(d)
        OBVIOUS
      <4> QED
        BY <4>1, <4>2, <4>3
    <3>2. CASE ElementType(d) # <<>>
      <4>1. tasks = <<D>> \o <<Finish(d)>> /\ <<D>> \in Seq({D, Finish(d)}) /\ <<Finish(d)>> \in Seq({D, Finish(d)})
        BY <3>2
      <4>2. 2 \in DOMAIN (<<D>> \o <<Finish(d)>>) /\ (<<D>> \o <<Finish(d)>>)[2] = Finish(d)
        OBVIOUS
      <4>3. tasks \in Seq({D, Finish(d)})
        BY <4>1, ConcatProperties
      <4> QED
        BY <4>1, <4>2, <4>3
    <3> QED
      BY <3>1, <3>2
  <2> HIDE DEF tasks
  <2>3. Ending(b) = 0 /\ \A i \in DOMAIN tasks : tasks[i] # Finish(b)
    BY <1>1, <1>2, <2>1, <2>2, EndingStays
  <2>4. b # d
    BY <2>2, <2>3
  <2> QED
    BY <1>1, <1>2, <2>1, <2>3, <2>4 DEF Gone
<1>5. CASE d \in Allocated /\ heap[d].strong # 1
  <2>1. heap' = [heap EXCEPT ![d].strong = @ - 1] /\ Continue(<<>>) /\ <<>> \in Seq(Tasks)
    BY <1>5 DEF DeleteStrongShared
  <2>2. Ending(b) = 0
    BY <1>1, <1>2, <2>1, EndingStays
  <2>3. heap'[b].status = heap[b].status /\ heap'[b].weak = heap[b].weak
    BY <1>1, <2>1 DEF Block
  <2> QED
    BY <1>2, <2>2, <2>3 DEF Gone
<1> QED
  BY <1>3, <1>4, <1>5

(* The end of delete_strong_shared frees the block it does not abandon.     *)
LEMMA FinishKeeps ==
  ASSUME IInv, OwningProgram, NEW b \in Blocks, Gone(b)', NEW d \in Blocks, FinishDeleteStrong(d)
  PROVE  Gone(b)
<1>1. todo # <<>> /\ heap \in [Blocks -> Block] /\ (b # d => todo[1] # Finish(b))
  BY TaskForms DEF FinishDeleteStrong, Active, IInv, StateInv
<1>2. heap'[b].status = "destroyed" /\ heap'[b].weak = 0 /\ Ending(b)' = 0
  BY DEF Gone
<1>3. CASE d \notin Allocated
  BY <1>3, StoppedIsGone DEF FinishDeleteStrong
<1>4. CASE d \in Allocated
  <2>1. /\ heap' = IF heap[d].weak = 0 THEN [heap EXCEPT ![d].status = "freed"] ELSE heap
        /\ Continue(<<>>) /\ <<>> \in Seq(Tasks)
    BY <1>4 DEF FinishDeleteStrong
  <2>2. b # d
    BY <1>1, <1>2, <2>1
  <2>3. Ending(b) = 0
    BY <1>1, <1>2, <2>1, <2>2, EndingStays
  <2> QED
    BY <1>1, <1>2, <2>1, <2>2, <2>3 DEF Gone
<1> QED
  BY <1>3, <1>4

(* Only the last weak pointer to a destroyed block abandons it.             *)
LEMMA DeleteWeakKeeps ==
  ASSUME IInv, OwningProgram, NEW b \in Blocks, Gone(b)', NEW d \in Blocks, DeleteWeakShared(d)
  PROVE  Gone(b) \/ LastWeakAfterElement(b)
<1>1. /\ todo # <<>> /\ todo[1].do # "finish" /\ todo[1] = Delete("weak", d)
      /\ heap \in [Blocks -> Block] /\ todo[1] # Finish(b)
  BY DEF DeleteWeakShared, Active, IInv, StateInv, Finish
<1>2. heap'[b].status = "destroyed" /\ heap'[b].weak = 0 /\ Ending(b)' = 0
  BY DEF Gone
<1>3. CASE d \notin Allocated
  BY <1>3, StoppedIsGone DEF DeleteWeakShared
<1>4. CASE d \in Allocated
  <2>1. /\ heap' = (IF heap[d].weak = 1 /\ heap[d].strong = 0
                      THEN [heap EXCEPT ![d].status = "freed"]
                      ELSE [heap EXCEPT ![d].weak = @ - 1])
        /\ Continue(<<>>) /\ <<>> \in Seq(Tasks)
    BY <1>4 DEF DeleteWeakShared
  <2>2. Ending(b) = 0
    BY <1>1, <1>2, <2>1, EndingStays
  <2>3. CASE b = d
    <3>1. heap[b].status = "destroyed"
      BY <1>1, <1>2, <2>1, <2>3 DEF Block
    <3> QED
      BY <1>1, <2>3, <3>1 DEF LastWeakAfterElement
  <2>4. CASE b # d
    BY <1>1, <1>2, <2>1, <2>2, <2>4 DEF Gone
  <2> QED
    BY <2>3, <2>4
<1> QED
  BY <1>3, <1>4

(* In every program a block that loses its last owner is freed in the same  *)
(* step, but for the known leak: the last weak pointer to a block whose     *)
(* element was destroyed before (delete_strong_shared never stores the last *)
(* decrement, so that delete_weak_shared does not see the count at zero).   *)
THEOREM OnlyLastWeakAbandons ==
  ASSUME OwningProgram
  PROVE  Spec => NothingElseIsAbandoned
<1> DEFINE NothingElse == \A b \in Blocks : Abandoned(b)' => Abandoned(b) \/ LastWeakAfterElement(b)
<1>1. IInv /\ AbandonedAreGone /\ AbandonedAreGone' /\ [Next]_vars => [NothingElse]_vars
  <2> SUFFICES ASSUME IInv, AbandonedAreGone, AbandonedAreGone', Next, NEW b \in Blocks, Abandoned(b)'
               PROVE  Abandoned(b) \/ LastWeakAfterElement(b)
    OBVIOUS
  <2>1. Gone(b)' /\ (Gone(b) => Abandoned(b))
    BY DEF AbandonedAreGone
  <2>2. Gone(b) \/ LastWeakAfterElement(b)
    BY <2>1, StatementKeeps, AssignmentKeeps, DeleteStrongKeeps, FinishKeeps, DeleteWeakKeeps DEF Next
  <2> QED
    BY <2>1, <2>2
<1>2. IInv => AbandonedAreGone
  BY AbandonedForm
<1>3. Spec => []IInv
  BY Invariant
<1> QED
  BY <1>1, <1>2, <1>3, PTL DEF Spec, NothingElseIsAbandoned
=============================================================================
