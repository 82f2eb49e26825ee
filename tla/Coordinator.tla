---------------------------- MODULE Coordinator ----------------------------
(***************************************************************************)
(* The order in which the type checker processes the declarations of a     *)
(* package (src/src/lang/processors/type_checker/coordinator.cc): every    *)
(* declaration becomes one or two actions with prerequisites, the actions  *)
(* are put in order, types and constants first, variables and functions    *)
(* next, function bodies last, and are executed in that order.             *)
(*                                                                         *)
(* Objects are numbered in the order of their declaration. Of a            *)
(* declaration only the package level objects it mentions matter: type is  *)
(* the object named as the type of a constant or a variable, as the        *)
(* constraint of a type parameter or as a method's receiver, whose         *)
(* underlying type is looked at when the action is executed; uses are the  *)
(* objects mentioned anywhere else.                                        *)
(***************************************************************************)
EXTENDS Integers, Sequences, FiniteSets

CONSTANTS
  N,       \* number of objects in the package
  MaxUses  \* bound on the mentions of objects in all declarations

ASSUME BoundsAssumption == N \in Nat \ {0} /\ MaxUses \in Nat

Objects == 1..N
Groups == 1..3  \* const_and_type, variable_and_func_decl, func_body actions
Kinds == {"type", "const", "var", "func"}
ActionKinds == {"params", "underlying", "const", "var", "func", "body"}
Phases == {"find", "order", "loop", "execute", "ok", "failed", "crashed"}
Issues == {"unexpected_dependency", "dependency_loop"}

Action == [kind : ActionKinds, of : SUBSET Objects, defines : SUBSET Objects,
           prerequisites : SUBSET Objects, looksAt : SUBSET Objects]

VARIABLES
  kind,      \* of the objects declared so far
  mentioned, \* how often the declarations mention an object
  actions,   \* of each group, in the order of their creation
  phase,     \* what the coordinator does
  group,     \* being ordered
  position,  \* in the current pass over the group's actions
  progress,  \* made in the current pass
  defined,   \* defined_objects
  completed, \* the group's actions that are in order, as indices
  ordered,   \* ordered actions of the current group
  stack,     \* of FindLoop
  issues,    \* reported
  loop,      \* members of the loop reported last
  order,     \* ordered actions of all groups; the executed ones are removed
  done       \* the executed actions

found == <<kind, mentioned, actions>>
ordering == <<group, position, progress, defined, completed, ordered>>
vars == <<found, phase, ordering, stack, issues, loop, order, done>>

TypeOK ==
  /\ \E n \in 0..N : kind \in [1..n -> Kinds]
  /\ mentioned \in 0..MaxUses
  /\ actions \in [Groups -> Seq(Action)]
  /\ phase \in Phases
  /\ group \in 1..4
  /\ position \in Nat \ {0}
  /\ progress \in BOOLEAN
  /\ defined \subseteq Objects
  /\ completed \subseteq Nat
  /\ ordered \in Seq(Action) /\ stack \in Seq(Action) /\ order \in Seq(Action)
  /\ issues \subseteq Issues
  /\ loop \subseteq Objects
  /\ done \subseteq Action

Init ==
  /\ kind = <<>>
  /\ mentioned = 0
  /\ actions = [g \in Groups |-> <<>>]
  /\ phase = "find"
  /\ group = 1 /\ position = 1 /\ progress = FALSE
  /\ defined = {} /\ completed = {} /\ ordered = <<>>
  /\ stack = <<>> /\ issues = {} /\ loop = {} /\ order = <<>> /\ done = {}

-----------------------------------------------------------------------------
(* FindActions                                                             *)
NumMentioned(m) == Cardinality(m.type) + Cardinality(m.uses)

Mentions ==
  {m \in [type : {{}} \cup {{o} : o \in Objects}, uses : SUBSET Objects] :
     mentioned + NumMentioned(m) <= MaxUses}

MakeAction(k, of, defines, prerequisites, looksAt) ==
  [kind |-> k, of |-> of, defines |-> defines, prerequisites |-> prerequisites,
   looksAt |-> looksAt]

NextObject == Len(kind) + 1

Declare(k, names, m) ==
  /\ phase = "find"
  /\ mentioned' = mentioned + NumMentioned(m)
  /\ names \subseteq Objects
  /\ kind' = kind \o [i \in 1..Cardinality(names) |-> k]
  /\ UNCHANGED <<phase, ordering, stack, issues, loop, order, done>>

FindActionsForTypeDecl(m) ==
  /\ Declare("type", {NextObject}, m)
  /\ actions' = [actions EXCEPT ![1] = @ \o
       <<MakeAction("params", {NextObject}, {NextObject}, m.type, m.type),
         MakeAction("underlying", {NextObject}, {}, m.uses, {})>>]

FindActionsForConstDecl(m) ==
  /\ Declare("const", {NextObject}, m)
  /\ actions' = [actions EXCEPT ![1] = Append(@,
       MakeAction("const", {NextObject}, {NextObject}, m.type \cup m.uses, m.type))]

(* Several names with one value are defined by one action.                  *)
FindActionsForVarDecl(m, names) ==
  /\ Declare("var", names, m)
  /\ actions' = [actions EXCEPT ![2] = Append(@,
       MakeAction("var", names, names, m.type \cup m.uses, m.type))]

FindActionsForFuncDecl(m) ==
  /\ Declare("func", {NextObject}, m)
  /\ actions' = [actions EXCEPT
       ![2] = Append(@, MakeAction("func", {NextObject}, {NextObject}, m.type \cup m.uses, m.type)),
       ![3] = Append(@, MakeAction("body", {NextObject}, {}, {}, {NextObject}))]

(* Types, constants and the types of variables can only depend on types and *)
(* constants.                                                              *)
DependsUnexpectedly(a) ==
  \E p \in IF a.kind \in {"params", "underlying", "const"} THEN a.prerequisites
           ELSE IF a.kind = "var" THEN a.looksAt ELSE {} :
    kind[p] \notin {"type", "const"}

FindActionOrder ==
  /\ phase = "find"
  /\ Len(kind) = N
  /\ phase' = "order"
  /\ issues' = IF \E g \in Groups : \E i \in DOMAIN actions[g] : DependsUnexpectedly(actions[g][i])
                 THEN issues \cup {"unexpected_dependency"} ELSE issues
  /\ UNCHANGED <<found, ordering, stack, loop, order, done>>

-----------------------------------------------------------------------------
(* FindActionOrderForActions: passes over the group's actions until all are *)
(* in order or a pass makes no progress.                                    *)
(* mutant: one prerequisite is enough *)
IsPossibleIfAny(a) == a.prerequisites = {} \/ a.prerequisites \cap defined # {}

IsPossible(a) == a.prerequisites \subseteq defined

Remaining == (position..Len(actions[group])) \ completed

Complete(i) ==
  /\ phase = "order" /\ group \in Groups
  /\ i \in Remaining
  /\ IsPossible(actions[group][i])
  /\ \A j \in Remaining : IsPossible(actions[group][j]) => i <= j
  /\ position' = i + 1
  /\ progress' = TRUE
  /\ defined' = defined \cup actions[group][i].defines
  /\ completed' = completed \cup {i}
  /\ ordered' = Append(ordered, actions[group][i])
  /\ UNCHANGED <<found, phase, group, stack, issues, loop, order, done>>

NothingPossible == ~\E i \in Remaining : IsPossible(actions[group][i])
AllOrdered == Len(ordered) = Len(actions[group])

NextPass ==
  /\ phase = "order" /\ group \in Groups
  /\ NothingPossible /\ ~AllOrdered /\ progress
  /\ position' = 1
  /\ progress' = FALSE
  /\ UNCHANGED <<found, phase, group, defined, completed, ordered, stack, issues,
                 loop, order, done>>

(* mutant: the actions of the groups before are forgotten *)
NextGroupAlone(orderOfGroup) ==
  /\ order' = orderOfGroup
  /\ group' = group + 1
  /\ position' = 1 /\ progress' = FALSE /\ completed' = {} /\ ordered' = <<>>
  /\ UNCHANGED defined

NextGroup(orderOfGroup) ==
  /\ order' = order \o orderOfGroup
  /\ group' = group + 1
  /\ position' = 1 /\ progress' = FALSE /\ completed' = {} /\ ordered' = <<>>
  /\ UNCHANGED defined

GroupOrdered ==
  /\ phase = "order" /\ group \in Groups
  /\ NothingPossible /\ AllOrdered
  /\ NextGroup(ordered)
  /\ UNCHANGED <<found, phase, stack, issues, loop, done>>

(* mutant: whatever one pass leaves over is a loop *)
NoProgressInOnePass ==
  /\ phase = "order" /\ group \in Groups
  /\ NothingPossible /\ ~AllOrdered
  /\ phase' = "loop"
  /\ UNCHANGED <<found, ordering, stack, issues, loop, order, done>>

NoProgress ==
  /\ phase = "order" /\ group \in Groups
  /\ NothingPossible /\ ~AllOrdered /\ ~progress
  /\ phase' = "loop"
  /\ UNCHANGED <<found, ordering, stack, issues, loop, order, done>>

-----------------------------------------------------------------------------
(* ReportLoopInActions and FindLoop: a depth-first search from each action. *)
(* A branch without a loop returns the empty set and leaves no trace, so    *)
(* that only the branches to a loop remain, in any order of an unordered    *)
(* set of prerequisites.                                                   *)
Indices == DOMAIN actions[group]
DependsOn(a, b) == a.prerequisites \cap b.defines # {}

Looping ==
  UNION {S \in SUBSET Indices :
           \A i \in S : \E j \in S : DependsOn(actions[group][i], actions[group][j])}

Top == stack[Len(stack)]
Closes == \E k \in DOMAIN stack : DependsOn(Top, stack[k])

Search(newStack) ==
  /\ stack' = newStack
  /\ UNCHANGED <<found, phase, ordering, issues, loop, order, done>>

FindLoopFrom(i) ==
  /\ phase = "loop" /\ stack = <<>>
  /\ i \in Looping /\ \A j \in Looping : i <= j
  /\ Search(<<actions[group][i]>>)

FollowPrerequisite(i) ==
  /\ phase = "loop" /\ stack # <<>> /\ ~Closes
  /\ i \in Looping /\ DependsOn(Top, actions[group][i])
  /\ Search(Append(stack, actions[group][i]))

(* The group's actions are dropped; what they define stays in               *)
(* defined_objects.                                                        *)
ReportLoop(members) ==
  /\ phase = "loop"
  /\ loop' = members
  /\ issues' = issues \cup {"dependency_loop"}
  /\ stack' = <<>>
  /\ phase' = "order"
  /\ NextGroup(<<>>)
  /\ UNCHANGED <<found, done>>

(* mutant: the members include the way to the loop *)
CloseLoopFromStart(k) ==
  /\ stack # <<>>
  /\ DependsOn(Top, stack[k])
  /\ ReportLoop(UNION {stack[l].defines : l \in 1..Len(stack)})

CloseLoop(k) ==
  /\ stack # <<>>
  /\ DependsOn(Top, stack[k])
  /\ ReportLoop(UNION {stack[l].defines : l \in k..Len(stack)})

NoLoopFound ==
  /\ phase = "loop" /\ stack = <<>> /\ Looping = {}
  /\ ReportLoop(UNION {actions[group][i].defines : i \in Indices})

-----------------------------------------------------------------------------
(* ExecuteActions: an action of a package with other errors may fail, and   *)
(* one that looks at a type nobody has set follows a null pointer.          *)
HasUnderlying(o) == \E a \in done : a.kind = "underlying" /\ o \in a.of
HasSignature(o) == \E a \in done : a.kind = "func" /\ o \in a.of

FollowsNull(a) ==
  \E o \in a.looksAt :
    \/ kind[o] = "type" /\ ~HasUnderlying(o)
    \/ a.kind = "body" /\ ~HasSignature(o)

StartExecution ==
  /\ phase = "order" /\ group \notin Groups
  /\ phase' = "execute"
  /\ UNCHANGED <<found, ordering, stack, issues, loop, order, done>>

Execute ==
  /\ phase = "execute" /\ order # <<>>
  /\ \/ /\ FollowsNull(Head(order))
        /\ phase' = "crashed"
        /\ UNCHANGED <<order, done>>
     \/ /\ ~FollowsNull(Head(order))
        /\ done' = done \cup {Head(order)}
        /\ order' = Tail(order)
        /\ UNCHANGED phase
     \/ /\ ~FollowsNull(Head(order))
        /\ phase' = "failed"
        /\ UNCHANGED <<order, done>>
  /\ UNCHANGED <<found, ordering, stack, issues, loop>>

Finished ==
  /\ phase = "execute" /\ order = <<>>
  /\ phase' = "ok"
  /\ UNCHANGED <<found, ordering, stack, issues, loop, order, done>>

(* ProcessPackage returns, or the process has crashed.                     *)
Returned == phase \in {"ok", "failed", "crashed"} /\ UNCHANGED vars

FindActions ==
  \E m \in Mentions :
    \/ FindActionsForTypeDecl(m)
    \/ FindActionsForConstDecl(m)
    \/ \E n \in {1, 2} : FindActionsForVarDecl(m, NextObject..(NextObject + n - 1))
    \/ FindActionsForFuncDecl(m)

Next ==
  \/ FindActions
  \/ FindActionOrder
  \/ group \in Groups /\ \E i \in Remaining : Complete(i)
  \/ NextPass
  \/ GroupOrdered
  \/ NoProgress
  \/ group \in Groups /\ \E i \in Indices : FindLoopFrom(i) \/ FollowPrerequisite(i)
  \/ \E k \in DOMAIN stack : CloseLoop(k)
  \/ NoLoopFound
  \/ StartExecution
  \/ Execute
  \/ Finished
  \/ Returned

Spec == Init /\ [][Next]_vars

-----------------------------------------------------------------------------
(* Without a loop, what an action mentions was processed before it.         *)
PrerequisitesFirst ==
  phase = "execute" /\ order # <<>> /\ "dependency_loop" \notin issues =>
    Head(order).prerequisites \subseteq UNION {a.defines : a \in done}

(* A loop is reported only if no order of the group's actions exists: some  *)
(* of them all wait for one another or for what nobody defines.             *)
LoopIsReal ==
  phase = "loop" =>
    \E S \in (SUBSET Indices) \ {{}} : \A i \in S :
      \E p \in actions[group][i].prerequisites :
        /\ \A j \in Indices \ S : p \notin actions[group][j].defines
        /\ \A g \in 1..(group - 1) : \A j \in DOMAIN actions[g] :
             p \in actions[g][j].defines => p \notin defined

DefinitionsOf(o) == {i \in Indices : o \in actions[group][i].defines}
Mentioned(o) == UNION {actions[group][i].prerequisites : i \in DefinitionsOf(o)}
DefinedWith(o) == UNION {actions[group][i].defines : i \in DefinitionsOf(o)}

DependsOnItself(o) ==
  \A S \in SUBSET Objects :
    Mentioned(o) \subseteq S /\ (\A q \in S : Mentioned(q) \subseteq S)
      => S \cap DefinedWith(o) # {}

(* The objects a loop is reported to involve all depend on themselves, or   *)
(* on what is defined with them; without a loop (something is never defined) *)
(* another issue was reported before.                                      *)
LoopMembersExplained ==
  [][phase = "loop" /\ phase' # "loop" =>
       \/ loop' # {} /\ \A o \in loop' : DependsOnItself(o)
       \/ issues # {} /\ \A o \in Objects : ~DependsOnItself(o)]_vars

(* A package without issues whose actions all succeed is checked whole.     *)
EverythingProcessed ==
  phase = "ok" /\ issues = {} =>
    \A o \in Objects :
      CASE kind[o] = "type" -> HasUnderlying(o)
        [] kind[o] = "func" -> HasSignature(o) /\ \E a \in done : a.kind = "body" /\ o \in a.of
        [] OTHER -> \E a \in done : o \in a.defines
=============================================================================
