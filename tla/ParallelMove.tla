---------------------------- MODULE ParallelMove ----------------------------
(***************************************************************************)
(* GenerateMovs (src/src/x86_64/ir_translator/mov_generator.cc): the moves *)
(* that put a call's arguments in place, or its results, are meant to      *)
(* happen at once; the function emits mov and xchg instructions that do    *)
(* the same one after the other.                                           *)
(*                                                                         *)
(* A location is the color of a register (a number) or of a stack slot. An *)
(* action emits the instructions of one step of the code, and content is   *)
(* what the locations hold when the instructions emitted so far have run.  *)
(* At the start every location holds its own name, so that the value a     *)
(* move is to carry is named like its origin.                              *)
(***************************************************************************)
EXTENDS Integers, FiniteSets

CONSTANTS
  Regs,     \* colors of registers
  Mems,     \* colors of stack slots
  Imms,     \* immediate origins that fit an instruction's 32 bits
  WideImms, \* immediate origins that do not
  Reserved  \* the number of rsp, which like the next register has no color

ASSUME RegsAssumption == Regs \subseteq Nat /\ IsFiniteSet(Regs)
ASSUME LocsDisjoint == Regs \cap Mems = {} /\ IsFiniteSet(Mems)
ASSUME ReservedAssumption == Reserved \in Nat
ASSUME ImmsDisjoint == (Imms \cup WideImms) \cap (Regs \cup Mems) = {}

Locs == Regs \cup Mems
Origins == Locs \cup Imms \cup WideImms
MoveOperation == [result : Locs, origin : Origins]
NoReg == -1

VARIABLES
  operations,  \* the moves to carry out, without the no-ops
  live,        \* registers, no results, whose values are used afterwards
  phase,       \* "partition", "generate" or "done"
  candidates,  \* moves that may take part in a cycle
  moves,       \* moves outside all cycles, not emitted yet
  cycles,      \* moves of the cycles, as far as they remain to be done
  free,        \* result registers that nothing uses before they are written
  tmp,         \* the uninvolved register taken as a temporary, or NoReg
  saved,       \* what Prepare pushed before tmp was first written
  content      \* what each location holds

vars == <<operations, live, phase, candidates, moves, cycles, free, tmp, saved, content>>
fixed == <<operations, live>>

Results(S) == {m.result : m \in S}
Involved == (Results(operations) \cup {m.origin : m \in operations}) \cap Locs
Uninvolved == Regs \ Involved

(* ColorAndSizeToOperand: the number of the register of color c.           *)
RegNumber(c) == IF c < Reserved THEN c ELSE c + 2

TypeOK ==
  /\ operations \subseteq MoveOperation
  /\ live \subseteq Regs
  /\ phase \in {"partition", "generate", "done"}
  /\ candidates \subseteq MoveOperation
  /\ moves \subseteq MoveOperation
  /\ cycles \subseteq [result : Locs, origin : Locs]
  /\ free \subseteq Regs
  /\ tmp \in Regs \cup {NoReg}
  /\ saved \in Origins \cup {NoReg}
  /\ content \in [Locs -> Origins]

(* The callers pass distinct results. A function has six arguments at most, *)
(* which with their origins involve twelve of the fourteen registers that   *)
(* have a color: FindUninvolvedReg finds one.                               *)
ValidOperations ==
  UNION {{{[result |-> l, origin |-> f[l]] : l \in S} :
            f \in {g \in [S -> Origins] : \A l \in S : g[l] # l}} :
         S \in SUBSET Locs}

(* mutant: a register that other moves read counts as free *)
AllResultRegColors == Results(operations) \cap Regs

FindInitialFreeInvolvedRegColors ==
  {r \in Results(operations) \cap Regs : \A m \in operations : m.origin # r}

Init ==
  /\ operations \in ValidOperations
  /\ Uninvolved # {}
  /\ live \in SUBSET (Regs \ Results(operations))
  /\ phase = "partition"
  /\ candidates = operations
  /\ moves = {}
  /\ cycles = {}
  /\ free = FindInitialFreeInvolvedRegColors
  /\ tmp = NoReg
  /\ saved = NoReg
  /\ content = [l \in Locs |-> l]

-----------------------------------------------------------------------------
(* PartitionMoveOperationsByCycleParticipation: a round separates the moves *)
(* whose result is no candidate's origin; what is left after the last round *)
(* takes part in cycles.                                                    *)
PartitionRound ==
  LET separate == {m \in candidates : \A n \in candidates : n.origin # m.result} IN
  /\ phase = "partition"
  /\ separate # {}
  /\ candidates' = candidates \ separate
  /\ moves' = moves \cup separate
  /\ UNCHANGED <<fixed, phase, cycles, free, tmp, saved, content>>

(* mutant: the partition stops although moves could be separated *)
PartitionEndsEarly ==
  /\ phase = "partition"
  /\ cycles' = candidates
  /\ candidates' = {}
  /\ phase' = "generate"
  /\ UNCHANGED <<fixed, moves, free, tmp, saved, content>>

PartitionEnds ==
  /\ phase = "partition"
  /\ \A m \in candidates : \E n \in candidates : n.origin = m.result
  /\ cycles' = candidates
  /\ candidates' = {}
  /\ phase' = "generate"
  /\ UNCHANGED <<fixed, moves, free, tmp, saved, content>>

(* remaining_origin_color_uses: how many moves still have to read l. A move *)
(* of a cycle is never subtracted in the code; of a cycle's operands that   *)
(* remain, the remaining moves of the cycle read each once, before and      *)
(* after every swap.                                                        *)
Uses(l) == {m \in moves \cup cycles : m.origin = l}

(* mutant: the uses of emitted moves are not subtracted *)
IsReadyIfNeverRead(m) == \A n \in operations : n.origin # m.result

IsReady(m) == Uses(m.result) = {}
ReducesFree(m) == m.result \in free

(* NextMoveOperation: a ready move, one that keeps the free registers if    *)
(* there is one.                                                            *)
IsNextMove(m) ==
  /\ IsReady(m)
  /\ ReducesFree(m) => \A n \in moves : IsReady(n) => ReducesFree(n)

FindUninvolvedReg(u) == u \in Uninvolved /\ \A v \in Uninvolved : u <= v

(* mutant: the register is used without being pushed *)
ProvideTmpUnsaved(r) ==
  IF free # {}
    THEN r \in free /\ UNCHANGED <<tmp, saved>>
    ELSE /\ FindUninvolvedReg(r)
         /\ tmp' = r
         /\ saved' = NoReg

(* temporary_reg_provider: a free involved register, or else the lowest     *)
(* uninvolved one, which is pushed the first time if it is live. What is    *)
(* used then is the register whose color is that register's number, and if  *)
(* no register has it, the program ends in Operand::reg().                  *)
ProvideTmp(r) ==
  IF free # {}
    THEN r \in free /\ UNCHANGED <<tmp, saved>>
    ELSE IF tmp # NoReg
      THEN r = RegNumber(tmp) /\ UNCHANGED <<tmp, saved>>
      ELSE \E u \in Uninvolved :
             /\ FindUninvolvedReg(u)
             /\ r = RegNumber(u)
             /\ tmp' = u
             /\ saved' = IF u \in live THEN content[u] ELSE NoReg

ValueOf(o) == IF o \in Locs THEN content[o] ELSE o

MovNeedsTmpReg(m) == m.result \in Mems /\ m.origin \in Mems \cup WideImms

Emitted(m) ==
  /\ moves' = moves \ {m}
  /\ free' = free \ {m.result}
  /\ UNCHANGED <<fixed, phase, candidates, cycles>>

(* GenerateMov *)
Move(m) ==
  /\ phase = "generate" /\ IsNextMove(m)
  /\ ~MovNeedsTmpReg(m)
  /\ content' = [content EXCEPT ![m.result] = ValueOf(m.origin)]
  /\ UNCHANGED <<tmp, saved>>
  /\ Emitted(m)

MoveViaTmp(m, r) ==
  /\ phase = "generate" /\ IsNextMove(m)
  /\ MovNeedsTmpReg(m)
  /\ ProvideTmp(r)
  /\ content' = [content EXCEPT ![r] = ValueOf(m.origin), ![m.result] = ValueOf(m.origin)]
  /\ Emitted(m)

(* NextSwapOperation: only if no move is ready, and only with two operands  *)
(* that the cycle alone still reads. Afterwards m is done; the move that    *)
(* was to read m's result finds the value in m's origin, or is done too.    *)
Swappable(m) ==
  /\ \A n \in moves : ~IsReady(n)
  /\ \A n1, n2 \in Uses(m.origin) : n1 = n2
  /\ \A n1, n2 \in Uses(m.result) : n1 = n2

(* mutant: the next move of the cycle still reads the swapped operand *)
ForgetRedirection(m) ==
  {n \in cycles \ {m} : n.result # m.origin}

AfterSwap(m) ==
  {n \in cycles \ {m} : n.origin # m.result} \cup
  {[result |-> n.result, origin |-> m.origin] :
     n \in {k \in cycles : k.origin = m.result /\ k.result # m.origin}}

Swapped(m) ==
  /\ cycles' = AfterSwap(m)
  /\ UNCHANGED <<fixed, phase, candidates, moves, free>>

(* GenerateXchg *)
Swap(m) ==
  /\ phase = "generate" /\ Swappable(m)
  /\ ~(m.origin \in Mems /\ m.result \in Mems)
  /\ content' = [content EXCEPT ![m.origin] = content[m.result],
                                ![m.result] = content[m.origin]]
  /\ UNCHANGED <<tmp, saved>>
  /\ Swapped(m)

SwapViaTmp(m, r) ==
  /\ phase = "generate" /\ Swappable(m)
  /\ m.origin \in Mems /\ m.result \in Mems
  /\ ProvideTmp(r)
  /\ content' = [content EXCEPT ![m.origin] = content[m.result],
                                ![m.result] = content[m.origin],
                                ![r] = content[m.result]]
  /\ Swapped(m)

(* The temporary is popped if it was pushed.                                *)
Restore ==
  /\ phase = "generate"
  /\ moves = {} /\ cycles = {}
  /\ content' = IF saved = NoReg THEN content ELSE [content EXCEPT ![tmp] = saved]
  /\ phase' = "done"
  /\ UNCHANGED <<fixed, candidates, moves, cycles, free, tmp, saved>>

Next ==
  \/ PartitionRound
  \/ PartitionEnds
  \/ \E m \in moves : Move(m)
  \/ \E m \in moves, r \in Regs : MoveViaTmp(m, r)
  \/ \E m \in cycles : Swap(m)
  \/ \E m \in cycles, r \in Regs : SwapViaTmp(m, r)
  \/ Restore

Spec == Init /\ [][Next]_vars

(* The moves leave one of rax, rcx, rdx and rbx alone, whose numbers are    *)
(* their colors: a temporary is then the register that Prepare looked at.   *)
(* (The calls that call_generator.cc generates need no temporary at all: of *)
(* a move's two locations one is always a register.)                        *)
TmpKeepsNumber == \E r \in Uninvolved : r < Reserved

LowInit == Init /\ TmpKeepsNumber

LowSpec == LowInit /\ [][Next]_vars

-----------------------------------------------------------------------------
(* "the mov instructions to complete the given MoveOperations"              *)
(* (mov_generator.h): they amount to one parallel move. Every result holds  *)
(* what its origin held before all of them, and every live register that is *)
(* no result holds what it held.                                            *)
ParallelResult ==
  phase = "done" =>
    /\ \A m \in operations : content[m.result] = m.origin
    /\ \A r \in live : content[r] = r

(* "move cycle is incomplete": what the partition leaves is a set of closed *)
(* cycles, each location read once and written once, and stays one while    *)
(* the swaps shorten it.                                                    *)
CyclesAreClosed ==
  /\ Results(cycles) = {m.origin : m \in cycles}
  /\ \A m, n \in cycles : m.origin = n.origin => m = n

(* "could not find any ready move or swap operation" is never reached.      *)
NeverStuck ==
  phase = "generate" =>
    \/ moves = {} /\ cycles = {}
    \/ \E m \in moves : IsNextMove(m)
    \/ \E m \in cycles : Swappable(m)

(* A temporary never destroys a value that is still to be moved: what each  *)
(* remaining move is to carry is where it will be looked for.               *)
ValuesAreWhereRead ==
  /\ \A m \in moves : ValueOf(m.origin) = m.origin
  /\ \A m \in cycles : \E n \in operations :
       n.result = m.result /\ content[m.origin] = n.origin
=============================================================================
