---------------------------- MODULE SharedPointer ----------------------------
(***************************************************************************)
(* Shared pointers: the instructions that the IR builder emits for         *)
(* variables, pointers and assignments (src/src/lang/processors/ir/builder)*)
(* lowered to calls of the runtime functions of                            *)
(* src/src/lang/runtime/shared_pointer.ir, which count the references to a *)
(* block and destroy and free it.                                          *)
(*                                                                         *)
(* A type is the sequence of the strengths of its pointers: <<>> is data   *)
(* and <<"strong", "weak">> a strong pointer to a weak pointer to data.    *)
(* A variable is a block that holds the variable's value and a strong      *)
(* pointer, the variable's address, to it.                                 *)
(*                                                                         *)
(* todo is what the program still executes of the current statement, with  *)
(* the frames of the runtime functions that are active in front of it.     *)
(***************************************************************************)
EXTENDS Integers, Sequences, FiniteSets

CONSTANTS
  Vars,      \* the variables of the program
  VarType,   \* the type of each
  Blocks,    \* control blocks, numbered in the order of allocation
  Exprs      \* the kinds of expressions the program uses

Nil == 0
Strengths == {"strong", "weak"}
ExprKinds == {"ident", "new", "address", "weak", "deref", "deref_pointer"}

ASSUME BlocksAssumption == Blocks \subseteq Nat \ {Nil} /\ IsFiniteSet(Blocks)
ASSUME ExprsAssumption == Exprs \subseteq ExprKinds

VARIABLES
  heap,     \* the blocks: status, element type, counts and the element
  address,  \* the block of each variable, Nil if it is not declared
  scope,    \* the declared variables in the order of declaration
  todo,     \* tasks, the next one first
  phase,    \* "running" or "ended": the program's scope was left
  fault     \* "none" or why the program stopped

vars == <<heap, address, scope, todo, phase, fault>>

Allocated == {b \in Blocks : heap[b].status \in {"alive", "destroyed"}}
Unused == {b \in Blocks : heap[b].status = "unused"}
Element(b) == IF b = Nil THEN Nil ELSE heap[b].element
ElementType(b) == heap[b].type

Pointer(s, b) == [s |-> s, b |-> b]

Delete(s, b) == [do |-> "delete", s |-> s, b |-> b]
Finish(b) == [do |-> "finish", b |-> b]
Replace(at, b) == [do |-> "replace", at |-> at, b |-> b]
Store(at, b) == [do |-> "store", at |-> at, b |-> b]

Tasks ==
  [do : {"delete"}, s : Strengths, b : Blocks \cup {Nil}] \cup
  [do : {"finish"}, b : Blocks] \cup
  [do : {"replace", "store"}, at : [s : Strengths, b : Blocks], b : Blocks \cup {Nil}]

TypeOK ==
  /\ DOMAIN heap = Blocks
  /\ \A b \in Blocks :
       /\ heap[b].status \in {"unused", "alive", "destroyed", "freed"}
       /\ \A i \in DOMAIN heap[b].type : heap[b].type[i] \in Strengths
       /\ heap[b].strong \in Nat /\ heap[b].weak \in Nat
       /\ heap[b].element \in Blocks \cup {Nil}
  /\ address \in [Vars -> Blocks \cup {Nil}]
  /\ \A i \in DOMAIN scope : scope[i] \in Vars
  /\ \A i \in DOMAIN todo : todo[i] \in Tasks
  /\ phase \in {"running", "ended"}
  /\ fault \in {"none", "nil", "freed", "panic"}

UnusedBlock == [status |-> "unused", type |-> <<>>, strong |-> 0, weak |-> 0, element |-> Nil]

Init ==
  /\ heap = [b \in Blocks |-> UnusedBlock]
  /\ address = [v \in Vars |-> Nil]
  /\ scope = <<>>
  /\ todo = <<>>
  /\ phase = "running"
  /\ fault = "none"

-----------------------------------------------------------------------------
(* Operations on the heap.                                                 *)

(* make_shared and the store of the default value, a nil pointer or a zero *)
MakeShared(h, b, type) ==
  [h EXCEPT ![b] = [status |-> "alive", type |-> type, strong |-> 1, weak |-> 0, element |-> Nil]]

(* strong_copy_shared and weak_copy_shared of every pointer in copies      *)
Count(copies, s, b) == Cardinality({c \in copies : c.p = Pointer(s, b)})
CopyShared(h, copies) ==
  [b \in Blocks |-> [h[b] EXCEPT !.strong = @ + Count(copies, "strong", b),
                                 !.weak = @ + Count(copies, "weak", b)]]

(* An access to a block that is not there ends the program: the sanitizing *)
(* heap fails, the machine traps or, for a freed block, anything happens.  *)
FaultOf(uses) == IF Nil \in uses THEN "nil" ELSE "freed"

Stop(f) ==
  /\ fault' = f
  /\ UNCHANGED <<heap, address, scope, todo, phase>>

Ready == phase = "running" /\ todo = <<>> /\ fault = "none"

-----------------------------------------------------------------------------
(* Statements. What an expression accesses, copies and allocates, which    *)
(* value it has, and what is deleted once it is evaluated.                 *)

(* ExprBuilder::BuildValueOfVariable: the copy of a pointer is owned.      *)
Ident(v) ==
  LET a == address[v]  t == VarType[v] IN
  IF t = <<>>
    THEN [uses |-> {a}, copies |-> {}, fresh |-> {}, value |-> Nil, then |-> <<>>]
    ELSE [uses |-> {a, Element(a)}, copies |-> {Pointer(t[1], Element(a))}, fresh |-> {},
          value |-> Element(a), then |-> <<>>]

(* BuildValuesOfNewCall *)
NewCall(b) ==
  [uses |-> {}, copies |-> {}, fresh |-> {b}, value |-> b, then |-> <<>>]

(* mutant: the address is handed out without being counted *)
BorrowedRefExpr(v) ==
  [uses |-> {address[v]}, copies |-> {}, fresh |-> {}, value |-> address[v], then |-> <<>>]

(* BuildAddressOfIdent *)
RefExpr(v) ==
  [uses |-> {address[v]}, copies |-> {Pointer("strong", address[v])}, fresh |-> {},
   value |-> address[v], then |-> <<>>]

(* CopySharedPointerInstr from strong to weak, as the IR checker allows it *)
WeakCopy(v) ==
  LET p == Element(address[v]) IN
  [uses |-> {address[v], p}, copies |-> {Pointer("weak", p)}, fresh |-> {},
   value |-> p, then |-> <<>>]

(* BuildValueOfDeRefExpr: the address is copied, loaded through, deleted;  *)
(* the loaded value is not copied.                                         *)
DeRefExpr(v) ==
  LET p == Element(address[v])  s == VarType[v][1] IN
  [uses |-> {address[v], p}, copies |-> {Pointer(s, p)}, fresh |-> {},
   value |-> Element(p), then |-> <<Delete(s, p)>>]

Declared == {v \in Vars : address[v] # Nil}

(* The expressions of a type.                                              *)
ExprsOf(t) ==
  LET of(kind, S) == IF kind \in Exprs THEN S ELSE {} IN
  of("ident", {Ident(v) : v \in {u \in Declared : VarType[u] = t}}) \cup
  of("new", {NewCall(b) : b \in {c \in Unused : t # <<>> /\ t[1] = "strong"
                                   /\ \A d \in Unused : c <= d}}) \cup
  of("address", {RefExpr(v) : v \in {u \in Declared : t = <<"strong">> \o VarType[u]}}) \cup
  of("weak", {WeakCopy(v) : v \in {u \in Declared : t # <<>> /\ t[1] = "weak"
                                     /\ VarType[u] = <<"strong">> \o Tail(t)}}) \cup
  of(IF t = <<>> THEN "deref" ELSE "deref_pointer",
     {DeRefExpr(v) : v \in {u \in Declared : VarType[u] \in {<<s>> \o t : s \in Strengths}}})

(* The left-hand sides v and *v: the pointer, of type t, to store through.  *)
LhsAddresses ==
  {[uses |-> {address[v]}, at |-> Pointer("strong", address[v]), t |-> VarType[v], v |-> v] :
     v \in Declared} \cup
  {[uses |-> {address[v], Element(address[v])}, t |-> Tail(VarType[v]), v |-> v,
    at |-> Pointer(VarType[v][1], Element(address[v]))] :
     v \in {u \in Declared : VarType[u] # <<>>}}

(* BuildVarDecl *)
DeclareVar(v, b) ==
  /\ Ready
  /\ v \notin Declared
  /\ b \in Unused /\ \A d \in Unused : b <= d
  /\ heap' = MakeShared(heap, b, VarType[v])
  /\ address' = [address EXCEPT ![v] = b]
  /\ scope' = Append(scope, v)
  /\ UNCHANGED <<todo, phase, fault>>

(* The addresses of the left-hand side, the values of the right-hand side,  *)
(* and then BuildAssignment.                                               *)
AssignStmt(lhs, rhs) ==
  LET uses == lhs.uses \cup rhs.uses
      copies == {[p |-> lhs.at, by |-> "lhs"]} \cup {[p |-> c, by |-> "rhs"] : c \in rhs.copies}
      allocated == [b \in Blocks |-> IF b \in rhs.fresh
                                       THEN MakeShared(heap, b, Tail(lhs.t))[b] ELSE heap[b]]
  IN IF uses \subseteq Allocated
       THEN /\ heap' = CopyShared(allocated, copies)
            /\ todo' = rhs.then \o <<Replace(lhs.at, rhs.value)>>
            /\ UNCHANGED <<address, scope, phase, fault>>
       ELSE Stop(FaultOf(uses))

Assign ==
  /\ Ready
  /\ \E lhs \in LhsAddresses : \E rhs \in ExprsOf(lhs.t) : AssignStmt(lhs, rhs)

(* BuildVarDeletionsForASTContext, from the last variable to the first.    *)
LeaveScope ==
  /\ Ready
  /\ scope # <<>>
  /\ todo' = [i \in DOMAIN scope |-> Delete("strong", address[scope[Len(scope) + 1 - i]])]
  /\ address' = [v \in Vars |-> Nil]
  /\ scope' = <<>>
  /\ phase' = "ended"
  /\ UNCHANGED <<heap, fault>>

-----------------------------------------------------------------------------
(* Execution of the next task.                                             *)

Active(do) == fault = "none" /\ todo # <<>> /\ todo[1].do = do
Continue(tasks) == todo' = tasks \o Tail(todo)
Kept == UNCHANGED <<address, scope, phase, fault>>

(* validate_weak_shared panics if the strong count is zero. (It is called    *)
(* after the access it is meant to prevent; the outcome is the same as long *)
(* as the block is there.)                                                 *)
Rejects(at) == at.s = "weak" /\ heap[at.b].strong = 0

(* BuildAssignment: load and delete the old value, if it is a pointer ...  *)
BuildAssignment ==
  /\ Active("replace")
  /\ LET at == todo[1].at  t == ElementType(at.b) IN
     IF at.b \notin Allocated THEN Stop("freed")
     ELSE IF Rejects(at) THEN Stop("panic")
     ELSE /\ Continue((IF t = <<>> THEN <<>> ELSE <<Delete(t[1], Element(at.b))>>) \o
                      <<Store(at, todo[1].b), Delete(at.s, at.b)>>)
          /\ UNCHANGED heap
          /\ Kept

(* ... store the new one and delete the address.                           *)
StoreValue ==
  /\ Active("store")
  /\ LET at == todo[1].at IN
     IF at.b \notin Allocated THEN Stop("freed")
     ELSE IF Rejects(at) THEN Stop("panic")
     ELSE /\ heap' = [heap EXCEPT ![at.b].element = todo[1].b]
          /\ Continue(<<>>)
          /\ Kept

DeleteNil ==
  /\ Active("delete")
  /\ todo[1].b = Nil
  /\ Continue(<<>>)
  /\ UNCHANGED heap
  /\ Kept

(* DestructorForType: the call that deletes the element, if it is a pointer *)
Destructor(b) ==
  IF ElementType(b) = <<>> THEN <<>> ELSE <<Delete(ElementType(b)[1], Element(b))>>

(* delete_strong_shared, up to the return of the destructor. The strong     *)
(* count of the last reference is never stored.                            *)
DeleteStrongShared(b) ==
  /\ Active("delete") /\ todo[1] = Delete("strong", b)
  /\ IF b \notin Allocated THEN Stop("freed")
     ELSE IF heap[b].strong = 1
       THEN /\ heap' = [heap EXCEPT ![b].status = "destroyed"]
            /\ Continue(Destructor(b) \o <<Finish(b)>>)
            /\ Kept
       ELSE /\ heap' = [heap EXCEPT ![b].strong = @ - 1]
            /\ Continue(<<>>)
            /\ Kept

(* mutant: without a destructor the function returns, block {6} for {5} *)
ReturnWithoutDestructor(b) ==
  /\ Active("finish") /\ todo[1] = Finish(b)
  /\ IF b \notin Allocated THEN Stop("freed")
     ELSE /\ heap' = IF heap[b].weak = 0 /\ Destructor(b) # <<>>
                       THEN [heap EXCEPT ![b].status = "freed"] ELSE heap
          /\ Continue(<<>>)
          /\ Kept

(* The rest of it: the block is freed unless weak pointers designate it.    *)
FinishDeleteStrong(b) ==
  /\ Active("finish") /\ todo[1] = Finish(b)
  /\ IF b \notin Allocated THEN Stop("freed")
     ELSE /\ heap' = IF heap[b].weak = 0 THEN [heap EXCEPT ![b].status = "freed"] ELSE heap
          /\ Continue(<<>>)
          /\ Kept

(* mutant: the last weak pointer frees the block *)
LastWeakFrees(b) ==
  /\ Active("delete") /\ todo[1] = Delete("weak", b)
  /\ IF b \notin Allocated THEN Stop("freed")
     ELSE /\ heap' = IF heap[b].weak = 1
                       THEN [heap EXCEPT ![b].status = "freed"]
                       ELSE [heap EXCEPT ![b].weak = @ - 1]
          /\ Continue(<<>>)
          /\ Kept

(* delete_weak_shared *)
DeleteWeakShared(b) ==
  /\ Active("delete") /\ todo[1] = Delete("weak", b)
  /\ IF b \notin Allocated THEN Stop("freed")
     ELSE /\ heap' = IF heap[b].weak = 1 /\ heap[b].strong = 0
                       THEN [heap EXCEPT ![b].status = "freed"]
                       ELSE [heap EXCEPT ![b].weak = @ - 1]
          /\ Continue(<<>>)
          /\ Kept

Next ==
  \/ \E v \in Vars, b \in Blocks : DeclareVar(v, b)
  \/ Assign
  \/ LeaveScope
  \/ BuildAssignment
  \/ StoreValue
  \/ DeleteNil
  \/ \E b \in Blocks : DeleteStrongShared(b)
  \/ \E b \in Blocks : FinishDeleteStrong(b)
  \/ \E b \in Blocks : DeleteWeakShared(b)

Spec == Init /\ [][Next]_vars

-----------------------------------------------------------------------------
(* Who holds a pointer of strength s to b: a declared variable's address,   *)
(* an element that has not been loaded to be deleted, and the pointers the  *)
(* tasks hold. The frame of delete_strong_shared holds the last one.       *)
Elements(s, b) ==
  {c \in Blocks :
     /\ heap[c].status = "alive"
     /\ ElementType(c) # <<>> /\ ElementType(c)[1] = s
     /\ heap[c].element = b
     /\ \A i \in DOMAIN todo : todo[i].do = "store" => todo[i].at.b # c}

StoredType(task) == ElementType(task.at.b)

TaskPointers(s, b) ==
  {i \in DOMAIN todo :
     \/ todo[i] = Delete(s, b)
     \/ s = "strong" /\ todo[i] = Finish(b)
     \/ /\ todo[i].do \in {"replace", "store"}
        /\ todo[i].b = b
        /\ StoredType(todo[i]) # <<>> /\ StoredType(todo[i])[1] = s}

TaskAddresses(s, b) ==
  {i \in DOMAIN todo : todo[i].do = "replace" /\ todo[i].at = Pointer(s, b)}

Owners(s, b) ==
  Cardinality({v \in Vars : s = "strong" /\ address[v] = b}) + Cardinality(Elements(s, b)) +
  Cardinality(TaskPointers(s, b)) + Cardinality(TaskAddresses(s, b))

(* The counts are the numbers of pointers, at every step of the statements  *)
(* and of the nested destructors; the strong count is until the element is  *)
(* destroyed.                                                              *)
CountsMatchOwners ==
  fault = "none" =>
    \A b \in Blocks :
      /\ heap[b].status = "alive" => heap[b].strong = Owners("strong", b)
      /\ b \in Allocated => heap[b].weak = Owners("weak", b)

(* What the sanitizing heap checks: "attempted to access memory range that  *)
(* was freed", "memory was already freed".                                 *)
NoUseAfterFree == fault # "freed"

(* A block that is there and that nothing designates any more, neither a    *)
(* strong nor a weak pointer: nobody can ever free it.                     *)
Abandoned(b) ==
  b \in Allocated /\ Owners("strong", b) = 0 /\ Owners("weak", b) = 0

(* The known leak: the last weak pointer to a block whose element was       *)
(* destroyed before finds the strong count still 1 and only counts down.   *)
LastWeakAfterElement(b) ==
  heap[b].status = "destroyed" /\ todo # <<>> /\ todo[1] = Delete("weak", b)

(* Whatever else makes a block lose its last owner frees it in the same     *)
(* step: a deletion, the end of a destructor, a store over a pointer, an   *)
(* allocation, also of blocks whose element is gone but that a weak pointer*)
(* kept. (The types are finite, so that there are no cycles of owners.)    *)
NothingElseIsAbandoned ==
  [][\A b \in Blocks : Abandoned(b)' => Abandoned(b) \/ LastWeakAfterElement(b)]_vars

=============================================================================
