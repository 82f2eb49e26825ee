------------------------- MODULE CoordinatorProofs -------------------------
(***************************************************************************)
(* The order of type checking for packages of any size: what the           *)
(* coordinator puts in order is in order, a loop it reports is one, and a  *)
(* package without issues is checked whole.                                *)
(***************************************************************************)
EXTENDS Coordinator, FiniteSetTheorems, WellFoundedInduction, TLAPS

(* The search for a loop is about one of the groups. *)
TypeInv == TypeOK /\ (phase = "loop" => group \in Groups)

(* Counting the mentions of a declaration. *)
LEMMA ObjectsFinite == IsFiniteSet(Objects) /\ Cardinality(Objects) = N
  BY FS_Interval, BoundsAssumption DEF Objects

LEMMA MentionsType ==
  ASSUME TypeOK, NEW m \in Mentions
  PROVE  /\ m.type \subseteq Objects /\ m.uses \subseteq Objects
         /\ mentioned + NumMentioned(m) \in 0..MaxUses
<1>1. m.type \subseteq Objects /\ m.uses \subseteq Objects
  BY DEF Mentions
<1>2. Cardinality(m.type) \in Nat /\ Cardinality(m.uses) \in Nat
  BY <1>1, ObjectsFinite, FS_Subset, FS_CardinalityType
<1> QED
  BY <1>1, <1>2, BoundsAssumption DEF Mentions, NumMentioned, TypeOK

LEMMA MakeActionType ==
  ASSUME NEW k \in ActionKinds, NEW of \in SUBSET Objects, NEW defines \in SUBSET Objects,
         NEW prerequisites \in SUBSET Objects, NEW looksAt \in SUBSET Objects
  PROVE  MakeAction(k, of, defines, prerequisites, looksAt) \in Action
  BY DEF MakeAction, Action

(* What a declaration adds to the kinds: one entry for each of its names. *)
LEMMA DeclareKinds ==
  ASSUME TypeOK, NEW k \in Kinds, NEW m \in Mentions, NEW n \in {1, 2},
         Declare(k, NextObject..(NextObject + n - 1), m)
  PROVE  /\ Len(kind') = Len(kind) + n
         /\ kind' \in Seq(Kinds)
         /\ Len(kind') <= N
         /\ \A o \in 1..Len(kind) : kind'[o] = kind[o]
         /\ \A o \in (Len(kind) + 1)..(Len(kind) + n) : kind'[o] = k
<1> DEFINE names == NextObject..(NextObject + n - 1)
           new == [i \in 1..Cardinality(names) |-> k]
<1>1. kind \in Seq(Kinds) /\ Len(kind) \in Nat
  BY DEF TypeOK
<1>2. Cardinality(names) = n
  BY <1>1, FS_Interval DEF NextObject
<1>3. new \in Seq(Kinds) /\ Len(new) = n /\ \A i \in 1..n : new[i] = k
  BY <1>2
<1>4. kind' = kind \o new
  BY DEF Declare
<1>5. NextObject + n - 1 \in Objects
  <2>1. NextObject + n - 1 \in names
    BY <1>1 DEF NextObject
  <2> QED
    BY <2>1 DEF Declare
<1> HIDE DEF new, names
<1>6. Len(kind') = Len(kind) + n /\ kind' \in Seq(Kinds)
  BY <1>1, <1>3, <1>4
<1>7. \A o \in 1..Len(kind) : kind'[o] = kind[o]
  BY <1>1, <1>3, <1>4
<1>8. \A o \in (Len(kind) + 1)..(Len(kind) + n) : kind'[o] = k
  BY <1>1, <1>3, <1>4
<1> QED
  BY <1>1, <1>5, <1>6, <1>7, <1>8 DEF NextObject, Objects

-----------------------------------------------------------------------------
(* Types.                                                                  *)

(* What a step of FindActions does to the actions of a group. *)
LEMMA FindActionsType ==
  ASSUME TypeOK, FindActions
  PROVE  TypeOK'
<1> SUFFICES ASSUME NEW m \in Mentions, 
                    \/ FindActionsForTypeDecl(m)
                    \/ FindActionsForConstDecl(m)
                    \/ \E n \in {1, 2} : FindActionsForVarDecl(m, NextObject..(NextObject + n - 1))
                    \/ FindActionsForFuncDecl(m)
             PROVE  TypeOK'
  BY DEF FindActions
<1>0. PICK k \in Kinds, n \in {1, 2} : Declare(k, NextObject..(NextObject + n - 1), m)
  <2>1. NextObject \in Int
    BY DEF NextObject, TypeOK
  <2>2. {NextObject} = NextObject..(NextObject + 1 - 1)
    BY <2>1
  <2> QED
    BY <2>2 DEF FindActionsForTypeDecl, FindActionsForConstDecl, FindActionsForVarDecl,
       FindActionsForFuncDecl, Kinds
<1>1. \E l \in 0..N : kind' \in [1..l -> Kinds]
  BY <1>0, DeclareKinds
<1>2. mentioned' \in 0..MaxUses
  BY <1>0, MentionsType DEF Declare
<1>3. actions' \in [Groups -> Seq(Action)]
  <2>1. m.type \subseteq Objects /\ m.uses \subseteq Objects
    BY MentionsType
  <2>2. {NextObject} \in SUBSET Objects
    <3>1. NextObject \in NextObject..(NextObject + n - 1)
      BY DEF NextObject, TypeOK
    <3> QED
      BY <1>0, <3>1 DEF Declare
  <2>3. CASE FindActionsForTypeDecl(m)
    <3>1. /\ MakeAction("params", {NextObject}, {NextObject}, m.type, m.type) \in Action
          /\ MakeAction("underlying", {NextObject}, {}, m.uses, {}) \in Action
      BY <2>1, <2>2, MakeActionType DEF ActionKinds
    <3> QED
      BY <2>3, <3>1 DEF FindActionsForTypeDecl, TypeOK, Groups
  <2>4. CASE FindActionsForConstDecl(m)
    <3>1. MakeAction("const", {NextObject}, {NextObject}, m.type \cup m.uses, m.type) \in Action
      BY <2>1, <2>2, MakeActionType DEF ActionKinds
    <3> QED
      BY <2>4, <3>1 DEF FindActionsForConstDecl, TypeOK, Groups
  <2>5. ASSUME NEW names \in SUBSET Objects, FindActionsForVarDecl(m, names)
        PROVE  actions' \in [Groups -> Seq(Action)]
    <3>1. MakeAction("var", names, names, m.type \cup m.uses, m.type) \in Action
      BY <2>1, <2>2, MakeActionType DEF ActionKinds
    <3> QED
      BY <2>5, <3>1 DEF FindActionsForVarDecl, TypeOK, Groups
  <2>6. CASE FindActionsForFuncDecl(m)
    <3>1. /\ MakeAction("func", {NextObject}, {NextObject}, m.type \cup m.uses, m.type) \in Action
          /\ MakeAction("body", {NextObject}, {}, {}, {NextObject}) \in Action
      BY <2>1, <2>2, MakeActionType DEF ActionKinds
    <3> DEFINE func == MakeAction("func", {NextObject}, {NextObject}, m.type \cup m.uses, m.type)
               body == MakeAction("body", {NextObject}, {}, {}, {NextObject})
    <3>2. actions' = [actions EXCEPT ![2] = Append(@, func), ![3] = Append(@, body)]
      BY <2>6 DEF FindActionsForFuncDecl
    <3>3. func \in Action /\ body \in Action
      BY <3>1
    <3> HIDE DEF func, body
    <3>4. Append(actions[2], func) \in Seq(Action) /\ Append(actions[3], body) \in Seq(Action)
      BY <3>3 DEF TypeOK, Groups
    <3> QED
      BY <3>2, <3>4 DEF TypeOK, Groups
  <2>7. ASSUME NEW i \in {1, 2}, FindActionsForVarDecl(m, NextObject..(NextObject + i - 1))
        PROVE  actions' \in [Groups -> Seq(Action)]
    BY <2>5, <2>7 DEF FindActionsForVarDecl, Declare
  <2> QED
    BY <2>3, <2>4, <2>6, <2>7
<1>4. UNCHANGED <<phase, ordering, stack, issues, loop, order, done>>
  BY <1>0 DEF Declare
<1> QED
  BY <1>1, <1>2, <1>3, <1>4 DEF TypeOK, ordering

LEMMA InitType == Init => TypeInv
<1> SUFFICES ASSUME Init PROVE TypeInv
  OBVIOUS
<1>1. kind \in [1..0 -> Kinds] /\ 0 \in 0..N
  BY BoundsAssumption DEF Init
<1>2. actions \in [Groups -> Seq(Action)]
  BY DEF Init
<1>3. progress \in BOOLEAN
  BY Zenon DEF Init
<1> QED
  BY <1>1, <1>2, <1>3, BoundsAssumption DEF Init, TypeInv, TypeOK, Phases, Groups

(* A member of a loop defines objects of the package. *)
LEMMA LoopType ==
  ASSUME TypeOK, NEW k \in DOMAIN stack
  PROVE  UNION {stack[l].defines : l \in k..Len(stack)} \subseteq Objects
<1>1. \A l \in k..Len(stack) : stack[l] \in Action
  BY DEF TypeOK
<1> QED
  BY <1>1 DEF Action

LEMMA NextType == TypeInv /\ [Next]_vars => TypeInv'
<1> SUFFICES ASSUME TypeInv, [Next]_vars
             PROVE  TypeInv'
  OBVIOUS
<1>1. CASE FindActions
  <2>1. phase' = "find"
    BY <1>1 DEF FindActions, FindActionsForTypeDecl, FindActionsForConstDecl,
       FindActionsForVarDecl, FindActionsForFuncDecl, Declare
  <2> QED
    BY <1>1, <2>1, FindActionsType DEF TypeInv
<1> USE DEF TypeInv, TypeOK, found, ordering, Phases, Groups, Issues
<1>2. CASE FindActionOrder
  BY <1>2 DEF FindActionOrder
<1>3. ASSUME NEW i \in Remaining, Complete(i)
      PROVE  TypeInv'
  <2>1. i \in Nat \ {0} /\ i \in 1..Len(actions[group]) /\ group \in Groups
    BY <1>3 DEF Remaining, Complete
  <2>2. actions[group][i] \in Action
    BY <2>1
  <2>3. actions[group][i].defines \subseteq Objects
    BY <2>2 DEF Action
  <2>4. ordered' \in Seq(Action)
    BY <1>3, <2>2 DEF Complete
  <2>5. position' \in Nat \ {0} /\ completed' \subseteq Nat /\ defined' \subseteq Objects
    BY <1>3, <2>1, <2>3 DEF Complete
  <2> QED
    BY <1>3, <2>4, <2>5 DEF Complete
<1>4. CASE NextPass
  <2>1. progress' \in BOOLEAN
    BY <1>4, Zenon DEF NextPass
  <2> QED
    BY <1>4, <2>1 DEF NextPass
<1>5. CASE GroupOrdered
  <2>1. order' \in Seq(Action) /\ ordered' \in Seq(Action) /\ group' \in 1..4
    BY <1>5 DEF GroupOrdered, NextGroup
  <2>2. progress' \in BOOLEAN
    BY <1>5, Zenon DEF GroupOrdered, NextGroup
  <2> QED
    BY <1>5, <2>1, <2>2 DEF GroupOrdered, NextGroup
<1>6. CASE NoProgress
  BY <1>6 DEF NoProgress
<1>7. ASSUME group \in Groups, NEW i \in Indices, FindLoopFrom(i) \/ FollowPrerequisite(i)
      PROVE  TypeInv'
  <2>1. actions[group][i] \in Action
    BY <1>7 DEF Indices
  <2>2. <<actions[group][i]>> \in Seq(Action) /\ Append(stack, actions[group][i]) \in Seq(Action)
    BY <2>1
  <2>3. stack' \in Seq(Action)
    BY <1>7, <2>2 DEF FindLoopFrom, FollowPrerequisite, Search
  <2> QED
    BY <1>7, <2>3 DEF FindLoopFrom, FollowPrerequisite, Search
<1>8. ASSUME NEW members \in SUBSET Objects, ReportLoop(members)
      PROVE  TypeInv'
  <2>1. order' \in Seq(Action) /\ ordered' \in Seq(Action) /\ stack' \in Seq(Action)
    BY <1>8 DEF ReportLoop, NextGroup
  <2>2. group' \in 1..4 /\ issues' \subseteq Issues
    BY <1>8 DEF ReportLoop, NextGroup
  <2>3. progress' \in BOOLEAN
    BY <1>8, Zenon DEF ReportLoop, NextGroup
  <2> QED
    BY <1>8, <2>1, <2>2, <2>3 DEF ReportLoop, NextGroup
<1>9. CASE \E k \in DOMAIN stack : CloseLoop(k)
  BY <1>8, <1>9, LoopType DEF CloseLoop
<1>10. CASE NoLoopFound
  <2>1. \A i \in Indices : actions[group][i] \in Action
    BY <1>10 DEF NoLoopFound, Indices
  <2>2. UNION {actions[group][i].defines : i \in Indices} \subseteq Objects
    BY <2>1 DEF Action
  <2> QED
    BY <1>8, <1>10, <2>2 DEF NoLoopFound
<1>11. CASE StartExecution
  BY <1>11 DEF StartExecution
<1>12. CASE Execute
  <2>1. order # <<>> => Head(order) \in Action /\ Tail(order) \in Seq(Action)
    OBVIOUS
  <2>2. order' \in Seq(Action) /\ done' \subseteq Action
    BY <1>12, <2>1 DEF Execute
  <2> QED
    BY <1>12, <2>2 DEF Execute
<1>13. CASE Finished
  BY <1>13 DEF Finished
<1>14. CASE UNCHANGED vars
  BY <1>14 DEF vars
<1> QED
  BY <1>1, <1>2, <1>3, <1>4, <1>5, <1>6, <1>7, <1>9, <1>10, <1>11, <1>12, <1>13, <1>14
  DEF Next, Returned

(* Every variable keeps to its type; FindLoop is called for a group only.   *)
THEOREM TypeCorrect == Spec => []TypeOK
<1>1. TypeInv => TypeOK
  BY DEF TypeInv
<1> QED
  BY <1>1, InitType, NextType, PTL DEF Spec

-----------------------------------------------------------------------------
(* What is in order.                                                       *)
LoopFree == "dependency_loop" \notin issues

(* The actions in order that are not executed yet. *)
Pending == order \o ordered

(* What a mention of an action in order may rely on. *)
DefinedBefore(p, i) ==
  \/ \E a \in done : p \in a.defines
  \/ \E j \in 1..(i - 1) : p \in Pending[j].defines

(* Each phase has its part of the state; the rest is as it was at first.    *)
PhaseInv ==
  /\ phase = "find" => group = 1 /\ position = 1 /\ ~progress /\ order = <<>> /\ ordered = <<>>
                       /\ defined = {} /\ completed = {} /\ issues = {}
  /\ phase \in {"find", "order", "loop"} => done = {}
  /\ group = 4 => ordered = <<>>
  /\ phase \in {"execute", "ok"} => group = 4
  /\ phase = "ok" => order = <<>>

(* The passes over a group: what is completed is in order and defined.      *)
PassInv ==
  /\ position = 1 \/ progress

  /\ IsFiniteSet(completed) /\ Cardinality(completed) = Len(ordered)
  /\ group \in Groups => completed \subseteq DOMAIN actions[group]
  /\ group \in Groups => \A i \in completed :
       /\ actions[group][i].defines \subseteq defined
       /\ \E k \in DOMAIN ordered : ordered[k] = actions[group][i]

(* A search for a loop starts when a whole pass made no progress.           *)
LoopInv ==
  phase = "loop" => group \in Groups /\ position = 1 /\ NothingPossible /\ ~AllOrdered

(* Unless a loop has dropped actions, everything defined is defined by an   *)
(* action in order, and the actions in order follow what they mention.      *)
InOrder ==
  /\ phase \in {"order", "loop"} =>
       \A p \in defined : \E j \in DOMAIN Pending : p \in Pending[j].defines
  /\ \A i \in DOMAIN Pending : \A p \in Pending[i].prerequisites : DefinedBefore(p, i)

OrderInv == LoopFree => InOrder

(* Every declaration has the actions that process it ...                    *)
HasAction(g, k, o) == \E i \in DOMAIN actions[g] : actions[g][i].kind = k /\ o \in actions[g][i].of
Defines(g, o) == \E i \in DOMAIN actions[g] : o \in actions[g][i].defines

FoundInv ==
  /\ phase # "find" => Len(kind) = N
  /\ \A o \in 1..Len(kind) :
       /\ kind[o] = "type" => HasAction(1, "underlying", o)
       /\ kind[o] = "func" => HasAction(2, "func", o) /\ HasAction(3, "body", o)
       /\ kind[o] \in {"type", "const"} => Defines(1, o)
       /\ kind[o] \in {"var", "func"} => Defines(2, o)

(* ... and without a loop, none of a group's actions is left out.           *)
PlacedInv ==
  LoopFree => \A g \in 1..(group - 1) : \A i \in DOMAIN actions[g] :
    actions[g][i] \in done \/ \E k \in DOMAIN order : order[k] = actions[g][i]

(* Without a loop, what an action in order defines counts as defined.       *)
DefinedInv ==
  LoopFree /\ phase \in {"order", "loop"} =>
    \A k \in DOMAIN Pending : Pending[k].defines \subseteq defined

(* The actions of types and constants are in the first group; what they     *)
(* should not depend on has been reported.                                  *)
IssueInv ==
  /\ \A i \in DOMAIN actions[1] : actions[1][i].kind \in {"params", "underlying", "const"}
  /\ phase # "find" =>
       \A g \in Groups : \A i \in DOMAIN actions[g] :
         DependsUnexpectedly(actions[g][i]) => issues # {}

(* No two actions of a group define the same object.                        *)
Distinct(s, n) ==
  \A i \in DOMAIN s :
    /\ s[i].defines \subseteq 1..n
    /\ \A j \in DOMAIN s : j # i => s[i].defines \cap s[j].defines = {}

DistinctInv == \A g \in Groups : Distinct(actions[g], Len(kind))

(* The stack of the search is a chain of actions each of which depends on   *)
(* the next.                                                                *)
StackInv ==
  /\ phase # "loop" => stack = <<>>
  /\ \A l \in DOMAIN stack : \E i \in Indices : stack[l] = actions[group][i]
  /\ \A l \in 1..(Len(stack) - 1) : DependsOn(stack[l], stack[l + 1])

IInv ==
  /\ TypeInv
  /\ PhaseInv
  /\ PassInv
  /\ LoopInv
  /\ OrderInv
  /\ FoundInv
  /\ PlacedInv
  /\ DefinedInv
  /\ IssueInv
  /\ DistinctInv
  /\ StackInv

LEMMA InitInv == Init => IInv
<1> SUFFICES ASSUME Init PROVE IInv
  OBVIOUS
<1>1. TypeInv
  BY InitType
<1>2. completed = {} /\ ordered = <<>> /\ order = <<>> /\ IsFiniteSet({}) /\ Cardinality({}) = 0
  BY FS_EmptySet DEF Init
<1>3. Pending = <<>>
  BY <1>2 DEF Pending
<1>4. PassInv
  BY <1>2 DEF Init, PassInv
<1>5. IssueInv
  BY DEF Init, IssueInv, Groups
<1>6. StackInv
  BY DEF Init, StackInv
<1>7. DistinctInv
  BY DEF Init, DistinctInv, Distinct, Groups
<1> QED
  BY <1>1, <1>2, <1>3, <1>4, <1>5, <1>6, <1>7
  DEF Init, IInv, PhaseInv, LoopInv, OrderInv, InOrder, FoundInv, PlacedInv, DefinedInv

(* FindActions leaves everything but what it finds as it was. *)
LEMMA FindActionsFrame ==
  ASSUME FindActions
  PROVE  phase = "find" /\ UNCHANGED <<phase, ordering, stack, issues, loop, order, done>>
  BY DEF FindActions, FindActionsForTypeDecl, FindActionsForConstDecl, FindActionsForVarDecl,
     FindActionsForFuncDecl, Declare

LEMMA PhaseNext == IInv /\ [Next]_vars => PhaseInv'
<1> SUFFICES ASSUME IInv, [Next]_vars
             PROVE  PhaseInv'
  OBVIOUS
<1> USE DEF IInv, PhaseInv, ordering, Groups
<1>1. CASE FindActions
  BY <1>1, FindActionsFrame
<1>2. CASE FindActionOrder
  BY <1>2 DEF FindActionOrder
<1>3. ASSUME NEW i \in Remaining, Complete(i)
      PROVE  PhaseInv'
  BY <1>3 DEF Complete
<1>4. CASE NextPass \/ NoProgress
  BY <1>4 DEF NextPass, NoProgress
<1>5. CASE GroupOrdered
  BY <1>5 DEF GroupOrdered, NextGroup
<1>6. ASSUME NEW i \in Indices, FindLoopFrom(i) \/ FollowPrerequisite(i)
      PROVE  PhaseInv'
  BY <1>6 DEF FindLoopFrom, FollowPrerequisite, Search
<1>7. ASSUME NEW members, ReportLoop(members)
      PROVE  PhaseInv'
  BY <1>7 DEF ReportLoop, NextGroup
<1>8. CASE StartExecution
  BY <1>8 DEF StartExecution, TypeInv, TypeOK
<1>9. CASE Execute \/ Finished
  BY <1>9 DEF Execute, Finished
<1>10. CASE UNCHANGED vars
  BY <1>10 DEF vars
<1> QED
  BY <1>1, <1>2, <1>3, <1>4, <1>5, <1>6, <1>7, <1>8, <1>9, <1>10
  DEF Next, Returned, CloseLoop, NoLoopFound

LEMMA PassNext == IInv /\ [Next]_vars => PassInv'
<1> SUFFICES ASSUME IInv, [Next]_vars
             PROVE  PassInv'
  OBVIOUS
<1> USE DEF IInv, PassInv, ordering, found, Groups
<1>1. CASE FindActions
  \* Nothing is completed yet.
  BY <1>1, FindActionsFrame DEF PhaseInv
<1>2. CASE FindActionOrder
  BY <1>2 DEF FindActionOrder
<1>3. ASSUME NEW i \in Remaining, Complete(i)
      PROVE  PassInv'
  <2>1. group \in Groups /\ i \in DOMAIN actions[group] /\ i \notin completed
    BY <1>3 DEF Complete, Remaining, TypeInv, TypeOK
  <2>2. IsFiniteSet(completed') /\ Cardinality(completed') = Cardinality(completed) + 1
    BY <1>3, <2>1, FS_AddElement DEF Complete
  <2>3. Len(ordered') = Len(ordered) + 1 /\ ordered'[Len(ordered) + 1] = actions[group][i]
        /\ \A k \in DOMAIN ordered : ordered'[k] = ordered[k]
    BY <1>3 DEF Complete, TypeInv, TypeOK
  <2>4. ordered' \in Seq(Action) /\ ordered \in Seq(Action)
    BY NextType DEF TypeInv, TypeOK
  <2>5. \A j \in completed' : \E k \in DOMAIN ordered' : ordered'[k] = actions[group][j]
    BY <1>3, <2>1, <2>3, <2>4 DEF Complete
  <2> QED
    BY <1>3, <2>1, <2>2, <2>3, <2>5 DEF Complete
<1>4. CASE NextPass \/ NoProgress
  BY <1>4 DEF NextPass, NoProgress
<1>5. ASSUME NEW s, NextGroup(s)
      PROVE  PassInv'
  BY <1>5, FS_EmptySet DEF NextGroup
<1>6. ASSUME NEW i \in Indices, FindLoopFrom(i) \/ FollowPrerequisite(i)
      PROVE  PassInv'
  BY <1>6 DEF FindLoopFrom, FollowPrerequisite, Search
<1>7. CASE StartExecution \/ Execute \/ Finished
  BY <1>7 DEF StartExecution, Execute, Finished
<1>8. CASE UNCHANGED vars
  BY <1>8 DEF vars
<1> QED
  BY <1>1, <1>2, <1>3, <1>4, <1>5, <1>6, <1>7, <1>8
  DEF Next, Returned, GroupOrdered, CloseLoop, NoLoopFound, ReportLoop

LEMMA LoopNext == IInv /\ [Next]_vars => LoopInv'
<1> SUFFICES ASSUME IInv, [Next]_vars
             PROVE  LoopInv'
  OBVIOUS
<1> USE DEF IInv, LoopInv, ordering, found
<1>1. CASE NoProgress
  BY <1>1 DEF NoProgress, PassInv, NothingPossible, AllOrdered, Remaining, IsPossible
<1>2. ASSUME NEW i \in Indices, FindLoopFrom(i) \/ FollowPrerequisite(i)
      PROVE  LoopInv'
  BY <1>2 DEF FindLoopFrom, FollowPrerequisite, Search, NothingPossible, AllOrdered,
     Remaining, IsPossible
<1>3. CASE UNCHANGED vars
  BY <1>3 DEF vars, NothingPossible, AllOrdered, Remaining, IsPossible
<1>4. CASE FindActions
  BY <1>4, FindActionsFrame
<1>5. CASE phase' # "loop"
  BY <1>5
<1> QED
  BY <1>1, <1>2, <1>3, <1>4, <1>5
  DEF Next, Returned, FindActionOrder, Complete, NextPass, GroupOrdered, CloseLoop,
      NoLoopFound, ReportLoop, StartExecution, Execute, Finished

(* Putting an action in order that mentions nothing undefined. *)
LEMMA OrderComplete ==
  ASSUME IInv, NEW i \in Remaining, Complete(i)
  PROVE  OrderInv'
<1> SUFFICES ASSUME LoopFree' PROVE InOrder'
  BY DEF OrderInv
<1> DEFINE a == actions[group][i]
<1>1. group \in Groups /\ i \in DOMAIN actions[group] /\ IsPossible(a)
  BY DEF Complete, Remaining, IInv, TypeInv, TypeOK
<1>2. LoopFree /\ done = {} /\ done' = done /\ phase = "order"
  BY DEF Complete, LoopFree, IInv, PhaseInv
<1>3. order \in Seq(Action) /\ ordered \in Seq(Action) /\ Pending \in Seq(Action) /\ a \in Action
  BY <1>1 DEF IInv, TypeInv, TypeOK, Pending
<1>4. Pending' = Append(Pending, a)
  BY <1>3 DEF Pending, Complete
<1>5. /\ DOMAIN Pending = 1..Len(Pending) /\ DOMAIN Pending' = 1..(Len(Pending) + 1)
      /\ Len(Pending) \in Nat
      /\ Pending'[Len(Pending) + 1] = a
      /\ \A j \in 1..Len(Pending) : Pending'[j] = Pending[j]
  BY <1>3, <1>4
<1> HIDE DEF a
<1>6. \A p \in defined : \E j \in 1..Len(Pending) : p \in Pending[j].defines
  BY <1>2, <1>5 DEF IInv, OrderInv, InOrder
<1>7. defined' = defined \cup a.defines
  BY DEF Complete, a
<1>8. \A p \in defined' : \E j \in DOMAIN Pending' : p \in Pending'[j].defines
  BY <1>5, <1>6, <1>7
<1>9. ASSUME NEW k \in DOMAIN Pending', NEW p \in Pending'[k].prerequisites
      PROVE  DefinedBefore(p, k)'
  <2>1. CASE k = Len(Pending) + 1
    <3>1. p \in defined
      BY <1>1, <1>5, <1>9, <2>1 DEF IsPossible
    <3> QED
      BY <1>5, <1>6, <2>1, <3>1 DEF DefinedBefore
  <2>2. CASE k \in 1..Len(Pending)
    <3>1. DefinedBefore(p, k)
      BY <1>2, <1>5, <1>9, <2>2 DEF IInv, OrderInv, InOrder
    <3> QED
      BY <1>2, <1>5, <2>2, <3>1 DEF DefinedBefore
  <2> QED
    BY <1>5, <2>1, <2>2
<1> QED
  BY <1>8, <1>9 DEF InOrder

(* The first action in order is executed; what it defines stays defined. *)
LEMMA OrderExecute ==
  ASSUME IInv, Execute, order' = Tail(order), done' = done \cup {Head(order)}
  PROVE  OrderInv'
<1> SUFFICES ASSUME LoopFree' PROVE InOrder'
  BY DEF OrderInv
<1>1. phase = "execute" /\ order # <<>> /\ ordered = <<>> /\ ordered' = <<>>
  BY DEF Execute, IInv, PhaseInv, ordering
<1>2. order \in Seq(Action) /\ LoopFree
  BY DEF IInv, TypeInv, TypeOK, Execute, LoopFree
<1>3. Pending = order /\ Pending' = Tail(order)
  BY <1>1, <1>2 DEF Pending
<1>4. /\ DOMAIN Pending = 1..Len(order) /\ DOMAIN Pending' = 1..(Len(order) - 1) /\ Len(order) \in Nat
      /\ \A j \in 1..(Len(order) - 1) : Pending'[j] = Pending[j + 1]
      /\ Head(order) = Pending[1]
  BY <1>1, <1>2, <1>3
<1>5. ASSUME NEW k \in DOMAIN Pending', NEW p \in Pending'[k].prerequisites
      PROVE  DefinedBefore(p, k)'
  <2>1. DefinedBefore(p, k + 1)
    BY <1>2, <1>4, <1>5 DEF IInv, OrderInv, InOrder
  <2>2. CASE \E a \in done : p \in a.defines
    BY <2>2 DEF DefinedBefore
  <2>3. ASSUME NEW j \in 1..((k + 1) - 1), p \in Pending[j].defines
        PROVE  DefinedBefore(p, k)'
    <3>1. CASE j = 1
      BY <1>4, <2>3, <3>1 DEF DefinedBefore
    <3>2. CASE j # 1
      <4>1. j - 1 \in 1..(k - 1) /\ Pending'[j - 1] = Pending[j]
        BY <1>4, <1>5, <2>3, <3>2
      <4> QED
        BY <2>3, <4>1 DEF DefinedBefore
    <3> QED
      BY <3>1, <3>2
  <2> QED
    BY <2>1, <2>2, <2>3 DEF DefinedBefore
<1>6. phase' \notin {"order", "loop"}
  BY <1>1 DEF Execute
<1> QED
  BY <1>5, <1>6 DEF InOrder

LEMMA OrderNext == IInv /\ [Next]_vars => OrderInv'
<1> SUFFICES ASSUME IInv, [Next]_vars
             PROVE  OrderInv'
  OBVIOUS
<1>a. order \in Seq(Action) /\ ordered \in Seq(Action)
  BY DEF IInv, TypeInv, TypeOK
<1>1. CASE UNCHANGED <<Pending, done, defined, issues>> /\ (phase' \in {"order", "loop"} => phase \in {"order", "loop"})
  BY <1>1 DEF IInv, OrderInv, InOrder, LoopFree, DefinedBefore
<1>2. CASE FindActions
  BY <1>1, <1>2, FindActionsFrame DEF ordering, Pending
<1>3. CASE FindActionOrder
  <2>1. defined' = {} /\ Pending' = <<>>
    BY <1>3 DEF FindActionOrder, IInv, PhaseInv, ordering, Pending
  <2> QED
    BY <2>1 DEF OrderInv, InOrder
<1>4. ASSUME NEW i \in Remaining, Complete(i)
      PROVE  OrderInv'
  BY <1>4, OrderComplete
<1>5. CASE NextPass \/ NoProgress
  BY <1>1, <1>5 DEF NextPass, NoProgress, Pending, ordering
<1>6. CASE GroupOrdered
  <2>1. Pending' = Pending
    BY <1>6, <1>a DEF GroupOrdered, NextGroup, Pending
  <2> QED
    BY <1>1, <1>6, <2>1 DEF GroupOrdered, NextGroup
<1>7. ASSUME NEW i \in Indices, FindLoopFrom(i) \/ FollowPrerequisite(i)
      PROVE  OrderInv'
  BY <1>1, <1>7 DEF FindLoopFrom, FollowPrerequisite, Search, Pending, ordering
<1>8. ASSUME NEW members, ReportLoop(members)
      PROVE  OrderInv'
  BY <1>8 DEF ReportLoop, OrderInv, InOrder, LoopFree
<1>9. CASE StartExecution \/ Finished
  BY <1>1, <1>9 DEF StartExecution, Finished, Pending, ordering
<1>10. CASE Execute
  <2>1. CASE UNCHANGED <<order, done>>
    BY <1>1, <1>10, <2>1 DEF Execute, Pending, ordering
  <2> QED
    BY <1>10, <2>1, OrderExecute DEF Execute
<1>11. CASE UNCHANGED vars
  BY <1>1, <1>11 DEF vars, ordering, Pending
<1> QED
  BY <1>2, <1>3, <1>4, <1>5, <1>6, <1>7, <1>8, <1>9, <1>10, <1>11
  DEF Next, Returned, CloseLoop, NoLoopFound

-----------------------------------------------------------------------------
(* Nothing is left out.                                                    *)

(* The actions of a declaration stand behind those that were found before. *)
LEMMA FuncDeclActions ==
  ASSUME TypeOK, NEW m \in Mentions, FindActionsForFuncDecl(m)
  PROVE  /\ actions'[1] = actions[1]
         /\ actions'[2] = Append(actions[2], MakeAction("func", {NextObject}, {NextObject},
                                                        m.type \cup m.uses, m.type))
         /\ actions'[3] = Append(actions[3], MakeAction("body", {NextObject}, {}, {}, {NextObject}))
<1> DEFINE func == Append(actions[2], MakeAction("func", {NextObject}, {NextObject},
                                                 m.type \cup m.uses, m.type))
           body == Append(actions[3], MakeAction("body", {NextObject}, {}, {}, {NextObject}))
<1>1. actions' = [actions EXCEPT ![2] = func, ![3] = body]
  BY DEF FindActionsForFuncDecl
<1> HIDE DEF func, body
<1>2. actions'[1] = actions[1] /\ actions'[2] = func /\ actions'[3] = body
  BY <1>1 DEF TypeOK, Groups
<1> QED
  BY <1>2 DEF func, body

LEMMA ActionsGrow ==
  ASSUME TypeOK, NEW m \in Mentions,
         \/ FindActionsForTypeDecl(m)
         \/ FindActionsForConstDecl(m)
         \/ \E n \in {1, 2} : FindActionsForVarDecl(m, NextObject..(NextObject + n - 1))
         \/ FindActionsForFuncDecl(m)
  PROVE  \A g \in Groups : \A i \in DOMAIN actions[g] :
           i \in DOMAIN actions'[g] /\ actions'[g][i] = actions[g][i]
<1>1. actions \in [Groups -> Seq(Action)] /\ Groups = {1, 2, 3}
  BY DEF TypeOK, Groups
<1>2. \A g \in Groups : actions[g] \in Seq(Action)
  BY <1>1
<1>3. CASE FindActionsForTypeDecl(m)
  BY <1>1, <1>2, <1>3 DEF FindActionsForTypeDecl
<1>4. CASE FindActionsForConstDecl(m)
  BY <1>1, <1>2, <1>4 DEF FindActionsForConstDecl
<1>5. ASSUME NEW names, FindActionsForVarDecl(m, names)
      PROVE  \A g \in Groups : \A i \in DOMAIN actions[g] :
               i \in DOMAIN actions'[g] /\ actions'[g][i] = actions[g][i]
  BY <1>1, <1>2, <1>5 DEF FindActionsForVarDecl
<1>6. CASE FindActionsForFuncDecl(m)
  <2>1. PICK func, body : /\ actions'[1] = actions[1]
                          /\ actions'[2] = Append(actions[2], func)
                          /\ actions'[3] = Append(actions[3], body)
    BY <1>6, FuncDeclActions
  <2>2. ASSUME NEW s \in Seq(Action), NEW a, NEW i \in DOMAIN s
        PROVE  i \in DOMAIN Append(s, a) /\ Append(s, a)[i] = s[i]
    OBVIOUS
  <2>3. ASSUME NEW g \in Groups
        PROVE  \A i \in DOMAIN actions[g] : i \in DOMAIN actions'[g] /\ actions'[g][i] = actions[g][i]
    <3>1. CASE g = 1
      BY <2>1, <3>1
    <3>a. \A i \in DOMAIN actions[g] : /\ i \in DOMAIN Append(actions[g], func)
                                       /\ Append(actions[g], func)[i] = actions[g][i]
      BY <1>2, <2>2
    <3>b. \A i \in DOMAIN actions[g] : /\ i \in DOMAIN Append(actions[g], body)
                                       /\ Append(actions[g], body)[i] = actions[g][i]
      BY <1>2, <2>2
    <3>2. CASE g = 2
      BY <2>1, <3>2, <3>a, Zenon
    <3>3. CASE g = 3
      BY <2>1, <3>3, <3>b, Zenon
    <3> QED
      BY <1>1, <3>1, <3>2, <3>3
  <2> QED
    BY <2>3
<1> QED
  BY <1>3, <1>4, <1>5, <1>6

LEMMA FoundNext == IInv /\ [Next]_vars => FoundInv'
<1> SUFFICES ASSUME IInv, [Next]_vars
             PROVE  FoundInv'
  OBVIOUS
<1>1. CASE FindActions
  <2>1. PICK m \in Mentions :
          \/ FindActionsForTypeDecl(m)
          \/ FindActionsForConstDecl(m)
          \/ \E n \in {1, 2} : FindActionsForVarDecl(m, NextObject..(NextObject + n - 1))
          \/ FindActionsForFuncDecl(m)
    BY <1>1 DEF FindActions
  <2>2. TypeOK /\ phase' = "find"
    BY <1>1, FindActionsFrame DEF IInv, TypeInv
  <2>3. \A g \in Groups : \A i \in DOMAIN actions[g] :
          i \in DOMAIN actions'[g] /\ actions'[g][i] = actions[g][i]
    BY <2>1, <2>2, ActionsGrow
  <2>4. \A g \in Groups : actions[g] \in Seq(Action)
    BY <2>2 DEF TypeOK
  <2> DEFINE New(k, n) == /\ Len(kind') = Len(kind) + n
                          /\ \A o \in 1..Len(kind) : kind'[o] = kind[o]
                          /\ \A o \in (Len(kind) + 1)..(Len(kind) + n) : kind'[o] = k
  <2>5. PICK new \in Nat : new = NextObject /\ new = Len(kind) + 1
    BY <2>2 DEF TypeOK, NextObject
  <2>6. {NextObject} = NextObject..(NextObject + 1 - 1) /\ Len(kind) \in Nat
    BY <2>5
  <2>7. ASSUME NEW o \in 1..Len(kind)
        PROVE  /\ kind[o] = "type" => HasAction(1, "underlying", o)'
               /\ kind[o] = "func" => HasAction(2, "func", o)' /\ HasAction(3, "body", o)'
               /\ kind[o] \in {"type", "const"} => Defines(1, o)'
               /\ kind[o] \in {"var", "func"} => Defines(2, o)'
    BY <2>3, <2>7 DEF IInv, FoundInv, HasAction, Defines, Groups
  <2>8. CASE FindActionsForTypeDecl(m)
    <3>1. New("type", 1)
      BY <2>2, <2>6, <2>8, DeclareKinds DEF FindActionsForTypeDecl, Kinds
    <3> DEFINE both == <<MakeAction("params", {new}, {new}, m.type, m.type),
                         MakeAction("underlying", {new}, {}, m.uses, {})>>
    <3>a. actions' = [actions EXCEPT ![1] = @ \o both]
      BY <2>5, <2>8 DEF FindActionsForTypeDecl
    <3>2. actions'[1] = actions[1] \o both
      BY <2>2, <3>a DEF TypeOK, Groups
    <3>3. /\ Len(actions[1]) + 2 \in DOMAIN actions'[1]
          /\ actions'[1][Len(actions[1]) + 2] = MakeAction("underlying", {new}, {}, m.uses, {})
      BY <2>4, <3>2 DEF Groups
    <3>4. HasAction(1, "underlying", new)'
      BY <3>3 DEF HasAction, MakeAction
    <3>5. /\ Len(actions[1]) + 1 \in DOMAIN actions'[1]
          /\ actions'[1][Len(actions[1]) + 1] = MakeAction("params", {new}, {new}, m.type, m.type)
      BY <2>4, <3>2 DEF Groups
    <3>6. Defines(1, new)'
      BY <3>5 DEF Defines, MakeAction
    <3> QED
      BY <2>2, <2>5, <2>7, <3>1, <3>4, <3>6 DEF FoundInv
  <2>9. CASE FindActionsForConstDecl(m)
    <3>1. New("const", 1)
      BY <2>2, <2>6, <2>9, DeclareKinds DEF FindActionsForConstDecl, Kinds
    <3>a. actions' = [actions EXCEPT ![1] = Append(@,
            MakeAction("const", {new}, {new}, m.type \cup m.uses, m.type))]
      BY <2>5, <2>9 DEF FindActionsForConstDecl
    <3>2. actions'[1] = Append(actions[1],
            MakeAction("const", {new}, {new}, m.type \cup m.uses, m.type))
      BY <2>2, <3>a DEF TypeOK, Groups
    <3>3. /\ Len(actions[1]) + 1 \in DOMAIN actions'[1]
          /\ actions'[1][Len(actions[1]) + 1] =
               MakeAction("const", {new}, {new}, m.type \cup m.uses, m.type)
      BY <2>4, <3>2 DEF Groups
    <3>4. Defines(1, new)'
      BY <3>3 DEF Defines, MakeAction
    <3> QED
      BY <2>2, <2>5, <2>7, <3>1, <3>4 DEF FoundInv
  <2>10. ASSUME NEW n \in {1, 2}, FindActionsForVarDecl(m, NextObject..(NextObject + n - 1))
         PROVE  FoundInv'
    <3>1. New("var", n)
      BY <2>2, <2>10, DeclareKinds DEF FindActionsForVarDecl, Kinds
    <3>2. PICK names : names = NextObject..(NextObject + n - 1)
      OBVIOUS
    <3>3. actions'[2] = Append(actions[2],
            MakeAction("var", names, names, m.type \cup m.uses, m.type))
      BY <2>2, <2>10, <3>2 DEF FindActionsForVarDecl, TypeOK, Groups
    <3>4. /\ Len(actions[2]) + 1 \in DOMAIN actions'[2]
          /\ actions'[2][Len(actions[2]) + 1] =
               MakeAction("var", names, names, m.type \cup m.uses, m.type)
      BY <2>4, <3>3 DEF Groups
    <3>5. \A o \in names : Defines(2, o)'
      BY <3>4 DEF Defines, MakeAction
    <3>6. names = (Len(kind) + 1)..(Len(kind) + n)
      <4>1. NextObject + n - 1 = Len(kind) + n
        BY <2>5, <2>6
      <4> QED
        BY <2>5, <3>2, <4>1
    <3> QED
      BY <2>2, <2>6, <2>7, <3>1, <3>5, <3>6 DEF FoundInv
  <2>11. CASE FindActionsForFuncDecl(m)
    <3>1. New("func", 1)
      BY <2>2, <2>6, <2>11, DeclareKinds DEF FindActionsForFuncDecl, Kinds
    <3>2. /\ actions'[2] = Append(actions[2], MakeAction("func", {new}, {new}, m.type \cup m.uses, m.type))
          /\ actions'[3] = Append(actions[3], MakeAction("body", {new}, {}, {}, {new}))
      BY <2>2, <2>5, <2>11, FuncDeclActions
    <3>3. /\ Len(actions[2]) + 1 \in DOMAIN actions'[2]
          /\ actions'[2][Len(actions[2]) + 1] = MakeAction("func", {new}, {new}, m.type \cup m.uses, m.type)
      BY <2>4, <3>2 DEF Groups
    <3>4. /\ Len(actions[3]) + 1 \in DOMAIN actions'[3]
          /\ actions'[3][Len(actions[3]) + 1] = MakeAction("body", {new}, {}, {}, {new})
      BY <2>4, <3>2 DEF Groups
    <3>5. HasAction(2, "func", new)' /\ HasAction(3, "body", new)'
      BY <3>3, <3>4 DEF HasAction, MakeAction
    <3>6. Defines(2, new)'
      BY <3>3 DEF Defines, MakeAction
    <3> QED
      BY <2>2, <2>5, <2>7, <3>1, <3>5, <3>6 DEF FoundInv
  <2> QED
    BY <2>1, <2>8, <2>9, <2>10, <2>11
<1>2. CASE FindActionOrder
  BY <1>2 DEF FindActionOrder, found, IInv, FoundInv, HasAction, Defines
<1>3. CASE UNCHANGED found /\ phase # "find"
  BY <1>3 DEF found, IInv, FoundInv, HasAction, Defines
<1>4. CASE UNCHANGED vars
  BY <1>4 DEF vars, found, IInv, FoundInv, HasAction, Defines
<1> QED
  BY <1>1, <1>2, <1>3, <1>4
  DEF Next, Returned, Complete, NextPass, NoProgress, GroupOrdered, FindLoopFrom,
      FollowPrerequisite, Search, CloseLoop, NoLoopFound, ReportLoop, StartExecution,
      Execute, Finished

LEMMA PlacedNext == IInv /\ [Next]_vars => PlacedInv'
<1> SUFFICES ASSUME IInv, [Next]_vars
             PROVE  PlacedInv'
  OBVIOUS
<1>1. CASE FindActions
  BY <1>1, FindActionsFrame DEF IInv, PhaseInv, PlacedInv, ordering
<1>2. CASE UNCHANGED <<actions, group, order, done, issues>>
  BY <1>2 DEF IInv, PlacedInv, LoopFree
<1>3. CASE FindActionOrder
  BY <1>3 DEF FindActionOrder, IInv, PhaseInv, PlacedInv, ordering
<1>4. CASE GroupOrdered
  <2>1. order \in Seq(Action) /\ ordered \in Seq(Action) /\ group \in Groups
        /\ actions[group] \in Seq(Action)
    BY <1>4 DEF GroupOrdered, IInv, TypeInv, TypeOK
  <2>2. order' = order \o ordered /\ group' = group + 1 /\ UNCHANGED <<actions, done, issues>>
    BY <1>4 DEF GroupOrdered, NextGroup, found
  <2>3. completed = DOMAIN actions[group]
    <3>1. IsFiniteSet(DOMAIN actions[group]) /\ Cardinality(DOMAIN actions[group]) = Len(actions[group])
      BY <2>1, FS_Interval
    <3> QED
      BY <1>4, <2>1, <3>1, FS_Subset DEF GroupOrdered, AllOrdered, IInv, PassInv
  <2>4. \A k \in DOMAIN order : k \in DOMAIN order' /\ order'[k] = order[k]
    BY <2>1, <2>2
  <2>5. \A k \in DOMAIN ordered : Len(order) + k \in DOMAIN order' /\ order'[Len(order) + k] = ordered[k]
    BY <2>1, <2>2
  <2>6. \A i \in DOMAIN actions[group] : \E k \in DOMAIN order' : order'[k] = actions[group][i]
    BY <2>1, <2>3, <2>5 DEF IInv, PassInv
  <2>7. ASSUME LoopFree', NEW g \in 1..(group' - 1), NEW i \in DOMAIN actions'[g]
        PROVE  actions'[g][i] \in done' \/ \E k \in DOMAIN order' : order'[k] = actions'[g][i]
    <3>1. CASE g = group
      BY <2>2, <2>6, <2>7, <3>1
    <3>2. CASE g \in 1..(group - 1)
      BY <2>2, <2>4, <2>7, <3>2 DEF IInv, PlacedInv, LoopFree
    <3> QED
      BY <2>1, <2>2, <2>7, <3>1, <3>2 DEF Groups
  <2> QED
    BY <2>7 DEF PlacedInv
<1>5. ASSUME NEW members, ReportLoop(members)
      PROVE  PlacedInv'
  BY <1>5 DEF ReportLoop, PlacedInv, LoopFree
<1>6. CASE Execute
  <2>1. CASE UNCHANGED <<order, done>>
    BY <1>2, <1>6, <2>1 DEF Execute, found, ordering
  <2>2. CASE order' = Tail(order) /\ done' = done \cup {Head(order)}
    <3>1. order \in Seq(Action) /\ order # <<>>
      BY <1>6 DEF Execute, IInv, TypeInv, TypeOK
    <3>2. \A k \in DOMAIN order : order[k] \in done' \/ \E l \in DOMAIN order' : order'[l] = order[k]
      <4>1. ASSUME NEW k \in DOMAIN order, k # 1
            PROVE  k - 1 \in DOMAIN order' /\ order'[k - 1] = order[k]
        BY <2>2, <3>1, <4>1
      <4>2. order[1] \in done'
        BY <2>2, <3>1
      <4> QED
        BY <4>1, <4>2
    <3>3. UNCHANGED <<actions, group, issues>> /\ done \subseteq done'
      BY <1>6, <2>2 DEF Execute, found, ordering
    <3> QED
      BY <3>2, <3>3 DEF IInv, PlacedInv, LoopFree
  <2> QED
    BY <1>6, <2>1, <2>2 DEF Execute
<1> QED
  BY <1>1, <1>2, <1>3, <1>4, <1>5, <1>6
  DEF Next, Returned, vars, found, ordering, Complete, NextPass, NoProgress, FindLoopFrom,
      FollowPrerequisite, Search, CloseLoop, NoLoopFound, StartExecution, Finished

LEMMA DefinedNext == IInv /\ [Next]_vars => DefinedInv'
<1> SUFFICES ASSUME IInv, [Next]_vars, LoopFree', phase' \in {"order", "loop"}
             PROVE  \A k \in DOMAIN Pending' : Pending'[k].defines \subseteq defined'
  BY DEF DefinedInv
<1>a. order \in Seq(Action) /\ ordered \in Seq(Action)
  BY DEF IInv, TypeInv, TypeOK
<1>1. CASE UNCHANGED <<Pending, defined, issues>> /\ phase \in {"order", "loop"}
  BY <1>1 DEF IInv, DefinedInv, LoopFree
<1>2. CASE FindActions \/ FindActionOrder
  <2>1. Pending' = <<>>
    BY <1>2, FindActionsFrame DEF FindActionOrder, IInv, PhaseInv, ordering, Pending
  <2> QED
    BY <2>1
<1>3. ASSUME NEW i \in Remaining, Complete(i)
      PROVE  \A k \in DOMAIN Pending' : Pending'[k].defines \subseteq defined'
  <2> DEFINE a == actions[group][i]
  <2>1. a \in Action /\ LoopFree /\ phase = "order"
    BY <1>3 DEF Complete, Remaining, IInv, TypeInv, TypeOK, LoopFree
  <2>2. Pending \in Seq(Action) /\ Pending' = Append(Pending, a) /\ defined' = defined \cup a.defines
    BY <1>a, <1>3, <2>1 DEF Pending, Complete
  <2> HIDE DEF a
  <2>3. \A k \in DOMAIN Pending : Pending[k].defines \subseteq defined
    BY <2>1 DEF IInv, DefinedInv
  <2> QED
    BY <2>1, <2>2, <2>3
<1>4. CASE NextPass \/ NoProgress
  BY <1>1, <1>4 DEF NextPass, NoProgress, Pending, ordering
<1>5. CASE GroupOrdered
  <2>1. Pending' = Pending
    BY <1>5, <1>a DEF GroupOrdered, NextGroup, Pending
  <2> QED
    BY <1>1, <1>5, <2>1 DEF GroupOrdered, NextGroup
<1>6. ASSUME NEW i \in Indices, FindLoopFrom(i) \/ FollowPrerequisite(i)
      PROVE  \A k \in DOMAIN Pending' : Pending'[k].defines \subseteq defined'
  BY <1>1, <1>6 DEF FindLoopFrom, FollowPrerequisite, Search, Pending, ordering
<1>7. ASSUME NEW members, ReportLoop(members)
      PROVE  FALSE
  BY <1>7 DEF ReportLoop, LoopFree
<1>8. CASE StartExecution \/ Finished \/ Execute
  BY <1>8 DEF StartExecution, Finished, Execute
<1>9. CASE UNCHANGED vars
  BY <1>1, <1>9 DEF vars, ordering, Pending
<1> QED
  BY <1>2, <1>3, <1>4, <1>5, <1>6, <1>7, <1>8, <1>9
  DEF Next, Returned, CloseLoop, NoLoopFound

LEMMA IssueNext == IInv /\ [Next]_vars => IssueInv'
<1> SUFFICES ASSUME IInv, [Next]_vars
             PROVE  IssueInv'
  OBVIOUS
<1>1. CASE FindActions
  <2>1. PICK m \in Mentions :
          \/ FindActionsForTypeDecl(m)
          \/ FindActionsForConstDecl(m)
          \/ \E n \in {1, 2} : FindActionsForVarDecl(m, NextObject..(NextObject + n - 1))
          \/ FindActionsForFuncDecl(m)
    BY <1>1 DEF FindActions
  <2> DEFINE first == {"params", "underlying", "const"}
  <2>2. actions \in [Groups -> Seq(Action)] /\ actions[1] \in Seq(Action) /\ phase' = "find"
        /\ \A i \in DOMAIN actions[1] : actions[1][i].kind \in first
    BY <1>1, FindActionsFrame DEF IInv, TypeInv, TypeOK, Groups, IssueInv
  <2>3. CASE FindActionsForTypeDecl(m)
    <3>1. PICK a, b : /\ actions' = [actions EXCEPT ![1] = @ \o <<a, b>>]
                      /\ a.kind = "params" /\ b.kind = "underlying"
      <4>1. /\ MakeAction("params", {NextObject}, {NextObject}, m.type, m.type).kind = "params"
            /\ MakeAction("underlying", {NextObject}, {}, m.uses, {}).kind = "underlying"
        BY DEF MakeAction
      <4> QED
        BY <2>3, <4>1 DEF FindActionsForTypeDecl
    <3>2. actions'[1] = actions[1] \o <<a, b>>
      BY <2>2, <3>1 DEF Groups
    <3> QED
      BY <2>2, <3>1, <3>2 DEF IssueInv
  <2>4. CASE FindActionsForConstDecl(m)
    <3>1. PICK a : actions' = [actions EXCEPT ![1] = Append(@, a)] /\ a.kind = "const"
      <4>1. MakeAction("const", {NextObject}, {NextObject}, m.type \cup m.uses, m.type).kind = "const"
        BY DEF MakeAction
      <4> QED
        BY <2>4, <4>1 DEF FindActionsForConstDecl
    <3>2. actions'[1] = Append(actions[1], a)
      BY <2>2, <3>1 DEF Groups
    <3> QED
      BY <2>2, <3>1, <3>2 DEF IssueInv
  <2>5. ASSUME NEW names, FindActionsForVarDecl(m, names)
        PROVE  IssueInv'
    BY <2>2, <2>5 DEF FindActionsForVarDecl, IssueInv, Groups
  <2>6. CASE FindActionsForFuncDecl(m)
    BY <2>2, <2>6, FuncDeclActions DEF IssueInv, IInv, TypeInv
  <2> QED
    BY <2>1, <2>3, <2>4, <2>5, <2>6
<1>2. CASE FindActionOrder
  BY <1>2 DEF FindActionOrder, found, IInv, IssueInv, DependsUnexpectedly
<1>3. CASE UNCHANGED found /\ issues \subseteq issues' /\ phase # "find"
  BY <1>3 DEF found, IInv, IssueInv, DependsUnexpectedly
<1>4. CASE UNCHANGED vars
  BY <1>4 DEF vars, found, IInv, IssueInv, DependsUnexpectedly
<1> QED
  BY <1>1, <1>2, <1>3, <1>4
  DEF Next, Returned, Complete, NextPass, NoProgress, GroupOrdered, FindLoopFrom,
      FollowPrerequisite, Search, CloseLoop, NoLoopFound, ReportLoop, StartExecution,
      Execute, Finished

(* What is declared next is defined by the last of the actions only. *)
LEMMA DistinctGrows ==
  ASSUME NEW s \in Seq(Action), NEW n \in Nat, NEW m \in Nat, n <= m, Distinct(s, n),
         NEW a, a.defines \subseteq (n + 1)..m, NEW b, b.defines = {}
  PROVE  Distinct(s, m) /\ Distinct(Append(s, a), m) /\ Distinct(Append(s, b), m)
         /\ Distinct(s \o <<a, b>>, m)
<1>1. \A i \in DOMAIN s : s[i].defines \subseteq 1..n
  BY DEF Distinct
<1>2. Distinct(s, m)
  BY <1>1 DEF Distinct
<1>3. Distinct(Append(s, a), m)
  BY <1>1 DEF Distinct
<1>4. Distinct(Append(s, b), m)
  BY <1>1 DEF Distinct
<1>5. Distinct(s \o <<a, b>>, m)
  BY <1>1 DEF Distinct
<1> QED
  BY <1>2, <1>3, <1>4, <1>5

LEMMA DistinctNext == IInv /\ [Next]_vars => DistinctInv'
<1> SUFFICES ASSUME IInv, [Next]_vars
             PROVE  DistinctInv'
  OBVIOUS
<1>1. CASE FindActions
  <2>1. PICK m \in Mentions :
          \/ FindActionsForTypeDecl(m)
          \/ FindActionsForConstDecl(m)
          \/ \E n \in {1, 2} : FindActionsForVarDecl(m, NextObject..(NextObject + n - 1))
          \/ FindActionsForFuncDecl(m)
    BY <1>1 DEF FindActions
  <2>2. /\ TypeOK /\ Groups = {1, 2, 3} /\ actions \in [Groups -> Seq(Action)]
        /\ actions[1] \in Seq(Action) /\ actions[2] \in Seq(Action) /\ actions[3] \in Seq(Action)
        /\ Distinct(actions[1], Len(kind)) /\ Distinct(actions[2], Len(kind))
        /\ Distinct(actions[3], Len(kind)) /\ Len(kind) \in Nat /\ NextObject = Len(kind) + 1
    BY DEF IInv, TypeInv, TypeOK, Groups, DistinctInv, NextObject
  <2>3. {NextObject} = NextObject..(NextObject + 1 - 1) /\ {NextObject} = (Len(kind) + 1)..(Len(kind) + 1)
    BY <2>2
  <2>4. CASE FindActionsForTypeDecl(m)
    <3>1. PICK a, b : /\ actions' = [actions EXCEPT ![1] = @ \o <<a, b>>]
                      /\ a.defines = {NextObject} /\ b.defines = {}
      <4>1. /\ MakeAction("params", {NextObject}, {NextObject}, m.type, m.type).defines = {NextObject}
            /\ MakeAction("underlying", {NextObject}, {}, m.uses, {}).defines = {}
        BY DEF MakeAction
      <4> QED
        BY <2>4, <4>1 DEF FindActionsForTypeDecl
    <3>2. Len(kind') = Len(kind) + 1
      BY <2>2, <2>3, <2>4, DeclareKinds DEF FindActionsForTypeDecl, Kinds
    <3>3. /\ a.defines \subseteq (Len(kind) + 1)..Len(kind')
          /\ Len(kind') \in Nat /\ Len(kind) <= Len(kind')
      BY <2>2, <2>3, <3>1, <3>2
    <3>4. /\ actions'[1] = actions[1] \o <<a, b>>
          /\ actions'[2] = actions[2] /\ actions'[3] = actions[3]
      BY <2>2, <3>1
    <3> QED
      BY <2>2, <3>1, <3>3, <3>4, DistinctGrows DEF DistinctInv
  <2>5. ASSUME NEW k \in Kinds, NEW n \in {1, 2}, Declare(k, NextObject..(NextObject + n - 1), m),
               NEW a, a.defines = NextObject..(NextObject + n - 1), NEW b, b.defines = {},
               NEW g \in {1, 2}, actions'[g] = Append(actions[g], a),
               \A h \in Groups \ {g} : actions'[h] \in {actions[h], Append(actions[h], b)}
        PROVE  DistinctInv'
    <3>1. Len(kind') = Len(kind) + n
      BY <2>2, <2>5, DeclareKinds
    <3>2. /\ a.defines \subseteq (Len(kind) + 1)..Len(kind')
          /\ Len(kind') \in Nat /\ Len(kind) <= Len(kind')
      BY <2>2, <2>5, <3>1
    <3>3. \A h \in Groups : /\ Distinct(actions[h], Len(kind'))
                            /\ Distinct(Append(actions[h], a), Len(kind'))
                            /\ Distinct(Append(actions[h], b), Len(kind'))
      BY <2>2, <2>5, <3>2, DistinctGrows
    <3> QED
      BY <2>5, <3>3 DEF DistinctInv, Groups
  <2>6. CASE FindActionsForConstDecl(m)
    <3>1. PICK a : actions' = [actions EXCEPT ![1] = Append(@, a)] /\ a.defines = {NextObject}
      <4>1. MakeAction("const", {NextObject}, {NextObject}, m.type \cup m.uses, m.type).defines
              = {NextObject}
        BY DEF MakeAction
      <4> QED
        BY <2>6, <4>1 DEF FindActionsForConstDecl
    <3>2. PICK b : b = [defines |-> {}]
      OBVIOUS
    <3>3. Declare("const", NextObject..(NextObject + 1 - 1), m)
      BY <2>3, <2>6, Zenon DEF FindActionsForConstDecl
    <3>4. actions'[1] = Append(actions[1], a) /\ \A h \in Groups \ {1} : actions'[h] = actions[h]
      BY <2>2, <3>1
    <3>5. a.defines = NextObject..(NextObject + 1 - 1) /\ b.defines = {}
      BY <2>3, <3>1, <3>2
    <3> QED
      BY <2>5, <3>3, <3>4, <3>5 DEF Kinds
  <2>7. ASSUME NEW n \in {1, 2}, FindActionsForVarDecl(m, NextObject..(NextObject + n - 1))
        PROVE  DistinctInv'
    <3> DEFINE names == NextObject..(NextObject + n - 1)
    <3>1. PICK a : actions' = [actions EXCEPT ![2] = Append(@, a)] /\ a.defines = names
      <4>1. MakeAction("var", names, names, m.type \cup m.uses, m.type).defines = names
        BY DEF MakeAction
      <4> QED
        BY <2>7, <4>1 DEF FindActionsForVarDecl
    <3>2. PICK b : b = [defines |-> {}]
      OBVIOUS
    <3>3. Declare("var", names, m)
      BY <2>7, Zenon DEF FindActionsForVarDecl
    <3>4. actions'[2] = Append(actions[2], a) /\ \A h \in Groups \ {2} : actions'[h] = actions[h]
      BY <2>2, <3>1
    <3>5. b.defines = {}
      BY <3>2
    <3> QED
      BY <2>5, <3>1, <3>3, <3>4, <3>5 DEF Kinds
  <2>8. CASE FindActionsForFuncDecl(m)
    <3>1. PICK a, b : /\ actions' = [actions EXCEPT ![2] = Append(@, a), ![3] = Append(@, b)]
                      /\ a.defines = {NextObject} /\ b.defines = {}
      <4>1. /\ MakeAction("func", {NextObject}, {NextObject}, m.type \cup m.uses, m.type).defines
                 = {NextObject}
            /\ MakeAction("body", {NextObject}, {}, {}, {NextObject}).defines = {}
        BY DEF MakeAction
      <4> QED
        BY <2>8, <4>1 DEF FindActionsForFuncDecl
    <3>2. actions'[2] = Append(actions[2], a)
      BY <2>2, <3>1
    <3>3. actions'[1] = actions[1] /\ actions'[3] = Append(actions[3], b)
      <4> DEFINE x == Append(actions[2], a)
                 y == Append(actions[3], b)
      <4>1. actions' = [actions EXCEPT ![2] = x, ![3] = y]
        BY <3>1
      <4> HIDE DEF x, y
      <4>2. DOMAIN actions = Groups
        BY <2>2
      <4>3. actions'[1] = actions[1] /\ actions'[3] = y
        BY <4>1, <4>2 DEF Groups
      <4> QED
        BY <4>3 DEF y
    <3>4. \A h \in Groups \ {2} : actions'[h] \in {actions[h], Append(actions[h], b)}
      BY <2>2, <3>3
    <3>5. Declare("func", NextObject..(NextObject + 1 - 1), m)
      BY <2>3, <2>8, Zenon DEF FindActionsForFuncDecl
    <3>6. a.defines = NextObject..(NextObject + 1 - 1)
      BY <2>3, <3>1
    <3> QED
      BY <2>5, <3>1, <3>2, <3>4, <3>5, <3>6 DEF Kinds
  <2> QED
    BY <2>1, <2>4, <2>6, <2>7, <2>8
<1>2. CASE UNCHANGED found
  BY <1>2 DEF found, IInv, DistinctInv
<1> QED
  BY <1>1, <1>2
  DEF Next, Returned, vars, FindActionOrder, Complete, NextPass, NoProgress, GroupOrdered,
      FindLoopFrom, FollowPrerequisite, Search, CloseLoop, NoLoopFound, ReportLoop,
      StartExecution, Execute, Finished

LEMMA StackNext == IInv /\ [Next]_vars => StackInv'
<1> SUFFICES ASSUME IInv, [Next]_vars
             PROVE  StackInv'
  OBVIOUS
<1>1. CASE UNCHANGED <<stack, actions, group, phase>>
  BY <1>1 DEF IInv, StackInv, Indices, DependsOn
<1>2. CASE stack' = <<>>
  BY <1>2 DEF StackInv
<1>3. CASE FindActions \/ FindActionOrder \/ GroupOrdered \/ NoProgress \/ StartExecution
           \/ Execute \/ Finished
  BY <1>2, <1>3, FindActionsFrame
  DEF FindActionOrder, GroupOrdered, NoProgress, StartExecution, Execute, Finished, IInv, StackInv
<1>4. ASSUME NEW i \in Remaining, Complete(i)
      PROVE  StackInv'
  BY <1>1, <1>4 DEF Complete, found
<1>5. CASE NextPass
  BY <1>1, <1>5 DEF NextPass, found
<1>6. ASSUME NEW i \in Indices, FindLoopFrom(i)
      PROVE  StackInv'
  BY <1>6 DEF FindLoopFrom, Search, StackInv, found, ordering, Indices
<1>7. ASSUME NEW i \in Indices, FollowPrerequisite(i)
      PROVE  StackInv'
  <2> DEFINE a == actions[group][i]
  <2>1. /\ stack \in Seq(Action) /\ stack # <<>> /\ stack' = Append(stack, a)
        /\ DependsOn(stack[Len(stack)], a) /\ phase' = "loop"
        /\ UNCHANGED <<actions, group>>
    BY <1>7 DEF FollowPrerequisite, Search, found, ordering, Top, IInv, TypeInv, TypeOK
  <2>2. a = actions[group][i]
    OBVIOUS
  <2> HIDE DEF a
  <2>3. \A l \in DOMAIN stack' : \E j \in Indices' : stack'[l] = actions'[group'][j]
    BY <1>7, <2>1, <2>2 DEF IInv, StackInv, Indices
  <2>4. \A l \in 1..(Len(stack') - 1) : DependsOn(stack'[l], stack'[l + 1])
    BY <2>1 DEF IInv, StackInv
  <2> QED
    BY <2>1, <2>3, <2>4 DEF StackInv, DependsOn
<1>8. ASSUME NEW members, ReportLoop(members)
      PROVE  StackInv'
  BY <1>2, <1>8 DEF ReportLoop
<1>9. CASE UNCHANGED vars
  BY <1>1, <1>9 DEF vars, found, ordering
<1> QED
  BY <1>3, <1>4, <1>5, <1>6, <1>7, <1>8, <1>9
  DEF Next, Returned, CloseLoop, NoLoopFound

LEMMA Invariance == Spec => []IInv
<1>1. IInv /\ [Next]_vars => IInv'
  BY NextType, PhaseNext, PassNext, LoopNext, OrderNext, FoundNext, PlacedNext,
     DefinedNext, IssueNext, DistinctNext, StackNext DEF IInv
<1> QED
  BY <1>1, InitInv, PTL DEF Spec

(* In a package of any size in which no loop was reported, every action is  *)
(* executed after those that define what it mentions.                       *)
THEOREM OrderIsTopological == Spec => []PrerequisitesFirst
<1>1. IInv => PrerequisitesFirst
  <2> SUFFICES ASSUME IInv, phase = "execute", order # <<>>, LoopFree,
                      NEW p \in Head(order).prerequisites
               PROVE  \E a \in done : p \in a.defines
    BY DEF PrerequisitesFirst, LoopFree
  <2>1. Pending = order /\ 1 \in DOMAIN Pending /\ Head(order) = Pending[1]
    BY DEF IInv, PhaseInv, TypeInv, TypeOK, Pending
  <2>2. DefinedBefore(p, 1)
    BY <2>1 DEF IInv, OrderInv, InOrder
  <2> QED
    BY <2>2 DEF DefinedBefore
<1> QED
  BY <1>1, Invariance, PTL

(* When the search for a loop starts, some of the group's actions all wait  *)
(* for one another or for what nobody defines: there is no order.           *)
THEOREM ReportedLoopIsReal == Spec => []LoopIsReal
<1>1. IInv => LoopIsReal
  <2> SUFFICES ASSUME IInv, phase = "loop" PROVE LoopIsReal
    BY DEF LoopIsReal
  <2> DEFINE S == Indices \ completed
  <2>1. group \in Groups /\ actions[group] \in Seq(Action) /\ ordered \in Seq(Action)
    BY DEF IInv, LoopInv, TypeInv, TypeOK
  <2>2. S # {}
    <3>1. SUFFICES ASSUME completed = Indices PROVE FALSE
      BY <2>1 DEF IInv, PassInv, Indices
    <3>2. Cardinality(Indices) = Len(actions[group])
      BY <2>1, FS_Interval DEF Indices
    <3> QED
      BY <3>1, <3>2 DEF IInv, PassInv, LoopInv, AllOrdered
  <2>3. \A i \in S : ~(actions[group][i].prerequisites \subseteq defined)
    BY <2>1 DEF IInv, LoopInv, NothingPossible, Remaining, IsPossible, Indices
  <2>4. \A j \in Indices \ S : actions[group][j].defines \subseteq defined
    BY <2>1 DEF IInv, PassInv
  <2> HIDE DEF S
  <2>5. S \in (SUBSET Indices) \ {{}}
    BY <2>2 DEF S
  <2>6. ASSUME NEW i \in S
        PROVE  \E p \in actions[group][i].prerequisites :
                 /\ \A j \in Indices \ S : p \notin actions[group][j].defines
                 /\ \A g \in 1..(group - 1) : \A j \in DOMAIN actions[g] :
                      p \in actions[g][j].defines => p \notin defined
    BY <2>3, <2>4
  <2> QED
    BY <2>5, <2>6 DEF LoopIsReal
<1> QED
  BY <1>1, Invariance, PTL

(* A package of any size that is processed without an issue is processed    *)
(* whole: no action of a declaration is left out.                           *)
THEOREM AllProcessed == Spec => []EverythingProcessed
<1>1. IInv => EverythingProcessed
  <2> SUFFICES ASSUME IInv, phase = "ok", issues = {}, NEW o \in Objects
               PROVE  CASE kind[o] = "type" -> HasUnderlying(o)
                        [] kind[o] = "func" -> HasSignature(o) /\ \E a \in done : a.kind = "body" /\ o \in a.of
                        [] OTHER -> \E a \in done : o \in a.defines
    BY DEF EverythingProcessed
  <2>1. \A g \in Groups : \A i \in DOMAIN actions[g] : actions[g][i] \in done
    BY DEF IInv, PhaseInv, PlacedInv, LoopFree, Groups
  <2>2. o \in 1..Len(kind) /\ kind[o] \in Kinds
    BY DEF IInv, FoundInv, Objects, TypeInv, TypeOK
  <2> QED
    BY <2>1, <2>2 DEF IInv, FoundInv, HasAction, Defines, HasUnderlying, HasSignature, Kinds, Groups
<1> QED
  BY <1>1, Invariance, PTL

-----------------------------------------------------------------------------
(* What is reported of a loop.                                             *)

Less == {pair \in Nat \X Nat : pair[1] < pair[2]}

LEMMA SmallestElement ==
  ASSUME NEW T \in SUBSET Nat, T # {}
  PROVE  \E x \in T : \A y \in T : x <= y
<1>1. IsWellFoundedOn(Less, Nat)
  BY NatLessThanWellFounded, Zenon DEF OpToRel, Less
<1>2. PICK x \in T : \A y \in T : ~(<<y, x>> \in Less)
  BY <1>1, WFMin, Zenon
<1>3. ASSUME NEW y \in T PROVE x <= y
  <2>1. SUFFICES ASSUME y < x PROVE FALSE
    OBVIOUS
  <2>2. <<y, x>> \in Nat \X Nat /\ <<y, x>>[1] < <<y, x>>[2]
    BY <2>1
  <2>3. <<y, x>> \in Less
    BY <2>2, Zenon DEF Less
  <2> QED
    BY <1>2, <2>3
<1> QED
  BY <1>3

Closed(S) == S \subseteq Objects /\ \A q \in S : Mentioned(q) \subseteq S

(* A closed set that an action depends on holds what the next one mentions. *)
LEMMA ClosedStep ==
  ASSUME IInv, NEW S, Closed(S), NEW a \in DOMAIN stack, NEW b \in DOMAIN stack,
         stack[a].prerequisites \subseteq S, DependsOn(stack[a], stack[b])
  PROVE  stack[b].prerequisites \subseteq S /\ S \cap stack[b].defines # {}
<1>1. PICK p : p \in stack[a].prerequisites /\ p \in stack[b].defines
  BY DEF DependsOn
<1>2. PICK i \in Indices : stack[b] = actions[group][i]
  BY DEF IInv, StackInv
<1>3. i \in DefinitionsOf(p)
  BY <1>1, <1>2 DEF DefinitionsOf
<1>4. actions[group][i].prerequisites \subseteq Mentioned(p)
  BY <1>3 DEF Mentioned
<1> QED
  BY <1>1, <1>2, <1>4 DEF Closed

LEMMA ClosedChain ==
  ASSUME IInv, NEW S, Closed(S), NEW a \in DOMAIN stack, stack[a].prerequisites \subseteq S
  PROVE  \A b \in a..Len(stack) : stack[b].prerequisites \subseteq S
<1> DEFINE T == {b \in a..Len(stack) : ~(stack[b].prerequisites \subseteq S)}
<1>1. stack \in Seq(Action) /\ DOMAIN stack = 1..Len(stack) /\ Len(stack) \in Nat
  BY DEF IInv, TypeInv, TypeOK
<1>2. SUFFICES ASSUME T # {} PROVE FALSE
  OBVIOUS
<1>3. PICK b \in T : \A c \in T : b <= c
  <2>1. T \in SUBSET Nat
    BY <1>1
  <2> HIDE DEF T
  <2> QED
    BY <1>2, <2>1, SmallestElement
<1>4. b # a /\ b - 1 \in a..Len(stack) /\ b \in DOMAIN stack /\ b - 1 \in 1..(Len(stack) - 1)
  BY <1>1, <1>3
<1>5. stack[b - 1].prerequisites \subseteq S
  BY <1>1, <1>3, <1>4
<1>6. DependsOn(stack[b - 1], stack[b]) /\ b - 1 \in DOMAIN stack
  <2>1. (b - 1) + 1 = b /\ b - 1 \in DOMAIN stack
    BY <1>1, <1>3, <1>4
  <2>2. \A c \in 1..(Len(stack) - 1) : DependsOn(stack[c], stack[c + 1])
    BY DEF IInv, StackInv
  <2> HIDE DEF T
  <2> QED
    BY <1>4, <2>1, <2>2
<1>7. stack[b].prerequisites \subseteq S
  BY <1>4, <1>5, <1>6, ClosedStep
<1> QED
  BY <1>3, <1>7

(* Everything that an action of a closed chain defines depends on itself. *)
LEMMA LoopMemberDependsOnItself ==
  ASSUME IInv, NEW k \in DOMAIN stack, DependsOn(Top, stack[k]),
         NEW l \in k..Len(stack), NEW o \in stack[l].defines
  PROVE  DependsOnItself(o)
<1> SUFFICES ASSUME NEW S \in SUBSET Objects, Mentioned(o) \subseteq S,
                    \A q \in S : Mentioned(q) \subseteq S
             PROVE  S \cap DefinedWith(o) # {}
  BY DEF DependsOnItself
<1>1. stack \in Seq(Action) /\ DOMAIN stack = 1..Len(stack) /\ Len(stack) \in Nat /\ Closed(S)
      /\ l \in DOMAIN stack /\ Len(stack) \in DOMAIN stack /\ Len(stack) \in l..Len(stack)
  BY DEF IInv, TypeInv, TypeOK, Closed
<1>2. PICK i \in Indices : stack[l] = actions[group][i]
  BY <1>1 DEF IInv, StackInv
<1>3. stack[l].prerequisites \subseteq S /\ stack[l].defines \subseteq DefinedWith(o)
  BY <1>2 DEF Mentioned, DefinedWith, DefinitionsOf
<1>4. stack[Len(stack)].prerequisites \subseteq S
  BY <1>1, <1>3, ClosedChain
<1>5. stack[k].prerequisites \subseteq S /\ S \cap stack[k].defines # {}
  BY <1>1, <1>4, ClosedStep DEF Top
<1>6. CASE l = k
  BY <1>3, <1>5, <1>6
<1>7. CASE l # k
  <2>1. l - 1 \in k..Len(stack) /\ l - 1 \in 1..(Len(stack) - 1) /\ (l - 1) + 1 = l
    BY <1>1, <1>7
  <2>2. stack[l - 1].prerequisites \subseteq S
    BY <1>1, <1>5, <2>1, ClosedChain
  <2>3. DependsOn(stack[l - 1], stack[l]) /\ l - 1 \in DOMAIN stack
    BY <1>1, <2>1 DEF IInv, StackInv
  <2>4. S \cap stack[l].defines # {}
    BY <1>1, <2>2, <2>3, ClosedStep
  <2> QED
    BY <1>3, <2>4
<1> QED
  BY <1>6, <1>7

(* Without a cycle of actions no object depends on itself: the actions that *)
(* mention something outside the largest closed set that avoids the object  *)
(* would all be waiting for one another.                                   *)
LEMMA NothingDependsOnItself ==
  ASSUME IInv, phase = "loop", Looping = {}, NEW o \in Objects
  PROVE  ~DependsOnItself(o)
<1> SUFFICES ASSUME DependsOnItself(o) PROVE FALSE
  OBVIOUS
<1> DEFINE Avoiding == {S \in SUBSET Objects : Closed(S) /\ S \cap DefinedWith(o) = {}}
           W == UNION Avoiding
           T == {i \in Indices : ~(actions[group][i].prerequisites \subseteq W)}
<1>1. W \subseteq Objects /\ W \cap DefinedWith(o) = {}
  OBVIOUS
<1>2. \A q \in W : Mentioned(q) \subseteq W
  BY DEF Closed
<1>3. \A S \in Avoiding : S \subseteq W
  OBVIOUS
<1>4. ~(Mentioned(o) \subseteq W)
  BY <1>1, <1>2 DEF DependsOnItself
<1>5. \A i \in Indices : actions[group][i].prerequisites \subseteq Objects
  <2>1. \A i \in Indices : actions[group][i] \in Action
    BY DEF IInv, LoopInv, TypeInv, TypeOK, Indices
  <2> QED
    BY <2>1 DEF Action
<1>6. ASSUME NEW i \in T
      PROVE  \E j \in T : DependsOn(actions[group][i], actions[group][j])
  <2>1. PICK p \in actions[group][i].prerequisites : p \notin W
    OBVIOUS
  <2>2. p \in Objects
    BY <1>5
  <2>3. CASE p \in DefinedWith(o)
    <3>1. PICK k \in DefinitionsOf(o) : p \in actions[group][k].defines
      BY <2>3 DEF DefinedWith
    <3>2. PICK j \in DefinitionsOf(o) : ~(actions[group][j].prerequisites \subseteq W)
      BY <1>4 DEF Mentioned
    <3>3. j = k
      <4>1. Distinct(actions[group], Len(kind))
        BY DEF IInv, LoopInv, DistinctInv
      <4> QED
        BY <3>1, <3>2, <4>1 DEF Distinct, DefinitionsOf, Indices
    <3> QED
      BY <2>1, <3>1, <3>2, <3>3 DEF DefinitionsOf, DependsOn
  <2>4. CASE p \notin DefinedWith(o)
    <3>1. ~(Mentioned(p) \subseteq W)
      <4>1. SUFFICES ASSUME Mentioned(p) \subseteq W PROVE W \cup {p} \in Avoiding
        BY <1>3, <2>1
      <4> QED
        BY <1>1, <1>2, <2>2, <2>4, <4>1 DEF Closed
    <3>2. PICK j \in DefinitionsOf(p) : ~(actions[group][j].prerequisites \subseteq W)
      BY <3>1 DEF Mentioned
    <3> QED
      BY <2>1, <3>2 DEF DefinitionsOf, DependsOn
  <2> QED
    BY <2>3, <2>4
<1>7. T # {}
  <2>1. PICK j \in DefinitionsOf(o) : ~(actions[group][j].prerequisites \subseteq W)
    BY <1>4 DEF Mentioned
  <2> QED
    BY <2>1 DEF DefinitionsOf
<1>8. T \in SUBSET Indices
  OBVIOUS
<1> HIDE DEF T
<1>9. T \subseteq Looping
  BY <1>6, <1>8 DEF Looping
<1> QED
  BY <1>7, <1>9

(* A group that gets stuck without a cycle has an action that mentions what *)
(* only a later group defines, which has been reported.                     *)
LEMMA StuckWithoutLoop ==
  ASSUME IInv, phase = "loop", Looping = {}
  PROVE  issues # {}
<1> SUFFICES ASSUME issues = {} PROVE FALSE
  OBVIOUS
<1> DEFINE S == Indices \ completed
<1>1. /\ group \in Groups /\ Groups = {1, 2, 3} /\ actions[group] \in Seq(Action)
      /\ ordered \in Seq(Action) /\ order \in Seq(Action) /\ done = {} /\ LoopFree
  BY DEF IInv, LoopInv, PhaseInv, TypeInv, TypeOK, LoopFree, Groups
<1>2. S # {}
  <2>1. SUFFICES ASSUME completed = Indices PROVE FALSE
    BY <1>1 DEF IInv, PassInv, Indices
  <2>2. Cardinality(Indices) = Len(actions[group])
    BY <1>1, FS_Interval DEF Indices
  <2> QED
    BY <2>1, <2>2 DEF IInv, PassInv, LoopInv, AllOrdered
<1>3. PICK i \in S : \A j \in S : ~DependsOn(actions[group][i], actions[group][j])
  <2>1. S \in SUBSET Indices
    OBVIOUS
  <2> HIDE DEF S
  <2> QED
    BY <1>2, <2>1 DEF Looping
<1>4. ~(actions[group][i].prerequisites \subseteq defined)
  BY <1>1 DEF IInv, LoopInv, NothingPossible, Remaining, IsPossible, Indices
<1>5. PICK p \in actions[group][i].prerequisites : p \notin defined
  BY <1>4
<1>6. \A j \in Indices : p \notin actions[group][j].defines
  <2>1. \A j \in S : p \notin actions[group][j].defines
    BY <1>3, <1>5 DEF DependsOn
  <2>2. \A j \in completed : p \notin actions[group][j].defines
    BY <1>1, <1>5 DEF IInv, PassInv
  <2> QED
    BY <2>1, <2>2
<1>7. p \in 1..Len(kind) /\ kind[p] \in Kinds
  <2>1. actions[group][i] \in Action
    BY <1>1 DEF Indices
  <2>2. p \in Objects
    BY <1>5, <2>1 DEF Action
  <2> QED
    BY <2>2 DEF IInv, FoundInv, Objects, TypeInv, TypeOK
<1>8. PICK g \in {1, 2} : Defines(g, p) /\ (kind[p] \notin {"type", "const"} <=> g = 2)
  BY <1>7 DEF IInv, FoundInv, Kinds
<1>9. g # group
  BY <1>6, <1>8 DEF Defines, Indices
<1>10. CASE g < group
  <2>1. PICK j \in DOMAIN actions[g] : p \in actions[g][j].defines
    BY <1>8 DEF Defines
  <2>2. PICK k \in DOMAIN order : order[k] = actions[g][j]
    BY <1>1, <1>8, <1>10 DEF IInv, PlacedInv
  <2>3. k \in DOMAIN Pending /\ Pending[k] = order[k]
    BY <1>1 DEF Pending
  <2> QED
    BY <1>1, <1>5, <2>1, <2>2, <2>3 DEF IInv, DefinedInv
<1>11. CASE group < g
  <2>1. group = 1 /\ kind[p] \notin {"type", "const"}
    BY <1>1, <1>8, <1>11
  <2>2. i \in DOMAIN actions[1] /\ 1 \in Groups
    BY <1>1, <2>1 DEF Indices
  <2>3. DependsUnexpectedly(actions[1][i])
    BY <1>5, <2>1, <2>2 DEF IInv, IssueInv, DependsUnexpectedly
  <2> QED
    BY <2>2, <2>3 DEF IInv, IssueInv
<1> QED
  BY <1>1, <1>8, <1>9, <1>10, <1>11

(* In a package of any size the objects of a reported loop depend on        *)
(* themselves, or on what is defined with them; where the order got stuck   *)
(* without a loop, another issue had been reported before.                  *)
THEOREM LoopMembersAreExplained == Spec => LoopMembersExplained
<1> DEFINE Explained ==
      phase = "loop" /\ phase' # "loop" =>
        \/ loop' # {} /\ \A o \in loop' : DependsOnItself(o)
        \/ issues # {} /\ \A o \in Objects : ~DependsOnItself(o)
<1>1. ASSUME IInv, [Next]_vars
      PROVE  Explained
  <2> SUFFICES ASSUME phase = "loop", phase' # "loop"
               PROVE  \/ loop' # {} /\ \A o \in loop' : DependsOnItself(o)
                      \/ issues # {} /\ \A o \in Objects : ~DependsOnItself(o)
    OBVIOUS
  <2>1. ASSUME NEW k \in DOMAIN stack, CloseLoop(k)
        PROVE  loop' # {} /\ \A o \in loop' : DependsOnItself(o)
    <3>1. DependsOn(Top, stack[k]) /\ loop' = UNION {stack[l].defines : l \in k..Len(stack)}
      BY <2>1 DEF CloseLoop, ReportLoop
    <3>2. k \in k..Len(stack) /\ stack[k].defines # {}
      <4>1. stack \in Seq(Action)
        BY <1>1 DEF IInv, TypeInv, TypeOK
      <4> QED
        BY <3>1, <4>1 DEF DependsOn
    <3>3. loop' # {}
      BY <3>1, <3>2
    <3>4. ASSUME NEW o \in loop'
          PROVE  DependsOnItself(o)
      <4>1. PICK l \in k..Len(stack) : o \in stack[l].defines
        BY <3>1, <3>4
      <4> QED
        BY <1>1, <2>1, <3>1, <4>1, LoopMemberDependsOnItself
    <3> QED
      BY <3>3, <3>4
  <2>2. CASE NoLoopFound
    BY <1>1, <2>2, StuckWithoutLoop, NothingDependsOnItself DEF NoLoopFound
  <2>3. (\E k \in DOMAIN stack : CloseLoop(k)) \/ NoLoopFound
    <3>1. ~FindActions
      BY DEF FindActions, FindActionsForTypeDecl, FindActionsForConstDecl,
         FindActionsForVarDecl, FindActionsForFuncDecl, Declare
    <3> QED
      BY <1>1, <3>1
      DEF Next, vars, Returned, FindActionOrder, Complete, NextPass, GroupOrdered, NoProgress,
          FindLoopFrom, FollowPrerequisite, Search, StartExecution, Execute, Finished
  <2> QED
    BY <2>1, <2>2, <2>3
<1>2. IInv /\ [Next]_vars => [Explained]_vars
  BY <1>1
<1> QED
  BY <1>2, Invariance, PTL DEF Spec, LoopMembersExplained
=============================================================================
