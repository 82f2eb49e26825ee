------------------------- MODULE ParallelMoveProofs -------------------------
(***************************************************************************)
(* GenerateMovs is correct for every set of registers, stack slots and     *)
(* immediates, and for every set of moves with distinct results that       *)
(* leaves a register alone whose number is its color (TmpKeepsNumber).     *)
(***************************************************************************)
EXTENDS ParallelMove, FiniteSetTheorems, TLAPS

Injective(S) == \A m, n \in S : m.result = n.result => m = n

(* What the callers pass, without the no-ops that RemoveNoOps drops.       *)
OperationsInv ==
  /\ operations \subseteq MoveOperation
  /\ Injective(operations)
  /\ \A m \in operations : m.origin # m.result
  /\ live \subseteq Regs /\ live \cap Results(operations) = {}
  /\ TmpKeepsNumber

(* Until the partition ends nothing is emitted.                            *)
PhaseInv ==
  /\ phase = "partition" =>
       /\ cycles = {} /\ tmp = NoReg /\ saved = NoReg
       /\ content = [l \in Locs |-> l]
  /\ phase # "partition" => candidates = {}
  /\ phase = "done" => moves = {} /\ cycles = {}

Cyclic == candidates \cup cycles

(* The moves outside the cycles come from the operations, write what no     *)
(* cycle reads or writes, and can be emitted one after the other.          *)
MovesInv ==
  /\ candidates \subseteq operations
  /\ moves \subseteq operations
  /\ \A m \in moves, n \in Cyclic : m.result # n.result /\ m.result # n.origin
  /\ \A X \in SUBSET moves : X # {} =>
       \E m \in X : \A n \in X : n.origin # m.result

CyclesInv ==
  /\ cycles \subseteq [result : Locs, origin : Locs]
  /\ Injective(cycles)
  /\ \A m \in cycles : m.origin # m.result
  /\ CyclesAreClosed

(* A free register is still to be written, by a move outside the cycles     *)
(* once the partition has ended, and nothing reads it.                     *)
FreeInv ==
  /\ free \subseteq Results(candidates \cup moves) \cap Regs
  /\ \A m \in operations : m.origin \notin free

(* The temporary holds nothing that a move needs, and what it held is on    *)
(* the stack if it is live.                                                *)
TmpInv ==
  /\ tmp # NoReg => tmp \in Uninvolved /\ tmp < Reserved
  /\ saved # NoReg => tmp \in live /\ saved = tmp
  /\ saved = NoReg => tmp \notin live
  /\ \A u \in live : u # tmp => content[u] = u
  /\ phase = "done" => \A u \in live : content[u] = u

(* A move that is neither waiting nor in a cycle is done.                  *)
DoneInv ==
  \A n \in operations :
    n.result \notin Results(moves \cup Cyclic) => content[n.result] = n.origin

IInv ==
  /\ TypeOK
  /\ OperationsInv
  /\ PhaseInv
  /\ MovesInv
  /\ CyclesInv
  /\ FreeInv
  /\ TmpInv
  /\ ValuesAreWhereRead
  /\ DoneInv

-----------------------------------------------------------------------------
(* Moves with distinct results, each of which some move of the set reads,   *)
(* form closed cycles: reading is then a bijection.                        *)
LEMMA ClosedCycles ==
  ASSUME NEW C \in SUBSET MoveOperation, Injective(C),
         \A m \in C : \E n \in C : n.origin = m.result
  PROVE  /\ \A n \in C : \E m \in C : n.origin = m.result
         /\ \A m, n \in C : m.origin = n.origin => m = n
<1>1. IsFiniteSet(C)
  <2> DEFINE f == [m \in C |-> m.result]
  <2>1. IsFiniteSet(Locs)
    BY RegsAssumption, LocsDisjoint, FS_Union DEF Locs
  <2>2. f \in Injection(C, Locs)
    BY DEF Injection, IsInjective, Injective, MoveOperation
  <2> HIDE DEF f
  <2> QED BY <2>1, <2>2, FS_Injection
<1> DEFINE reader == [m \in C |-> CHOOSE n \in C : n.origin = m.result]
<1>2. \A m \in C : reader[m] \in C /\ reader[m].origin = m.result
  OBVIOUS
<1>3. reader \in [C -> C]
  BY <1>2
<1> HIDE DEF reader
<1>4. reader \in Injection(C, C)
  <2>1. ASSUME NEW m \in C, NEW n \in C, reader[m] = reader[n]
        PROVE  m = n
    <3>1. m.result = n.result
      BY <1>2, <2>1
    <3> QED
      BY <3>1 DEF Injective
  <2> QED
    BY <1>3, <2>1 DEF Injection, IsInjective
<1>5. reader \in Surjection(C, C)
  BY <1>1, <1>4, FS_Injection
<1>6. \A n \in C : \E m \in C : reader[m] = n
  BY <1>5 DEF Surjection
<1>7. \A n \in C : \E m \in C : n.origin = m.result
  BY <1>2, <1>6
<1>8. ASSUME NEW m \in C, NEW n \in C, m.origin = n.origin
      PROVE  m = n
  <2>1. PICK k \in C : reader[k] = m
    BY <1>6
  <2>2. PICK l \in C : reader[l] = n
    BY <1>6
  <2>3. k.result = l.result
    BY <1>2, <1>8, <2>1, <2>2
  <2>4. k = l
    BY <2>3 DEF Injective
  <2> QED
    BY <2>1, <2>2, <2>4
<1> QED
  BY <1>7, <1>8

-----------------------------------------------------------------------------
LEMMA InitIInv == Init /\ TmpKeepsNumber => IInv
<1> SUFFICES ASSUME Init, TmpKeepsNumber
             PROVE  IInv
  OBVIOUS
<1> USE DEF Init, Locs, Origins
<1>1. OperationsInv
  <2>0. PICK S \in SUBSET Locs :
          \E f \in [S -> Origins] :
            /\ \A l \in S : f[l] # l
            /\ operations = {[result |-> l, origin |-> f[l]] : l \in S}
    BY DEF ValidOperations
  <2>1. PICK f \in [S -> Origins] :
          /\ \A l \in S : f[l] # l
          /\ operations = {[result |-> l, origin |-> f[l]] : l \in S}
    BY <2>0
  <2>2. operations \subseteq MoveOperation
    BY <2>1 DEF MoveOperation
  <2>3. Injective(operations)
    BY <2>1 DEF Injective
  <2>4. \A m \in operations : m.origin # m.result
    BY <2>1
  <2>5. live \subseteq Regs /\ live \cap Results(operations) = {}
    OBVIOUS
  <2> QED
    BY <2>2, <2>3, <2>4, <2>5 DEF OperationsInv
<1>2. TypeOK
  <2>1. free \subseteq Regs
    BY DEF FindInitialFreeInvolvedRegColors
  <2>2. live \subseteq Regs
    BY DEF Uninvolved
  <2> QED
    BY <1>1, <2>1, <2>2 DEF TypeOK, OperationsInv, NoReg
<1>3. MovesInv /\ CyclesInv /\ PhaseInv
  BY DEF MovesInv, CyclesInv, CyclesAreClosed, PhaseInv, Results, Injective, Cyclic
<1>4. FreeInv
  BY DEF FreeInv, FindInitialFreeInvolvedRegColors, Results
<1>5. TmpInv
  BY <1>1, RegsAssumption DEF TmpInv, NoReg, OperationsInv, Uninvolved
<1>6. ValuesAreWhereRead /\ DoneInv
  BY DEF ValuesAreWhereRead, DoneInv, Results, Cyclic
<1> QED
  BY <1>1, <1>2, <1>3, <1>4, <1>5, <1>6 DEF IInv

-----------------------------------------------------------------------------
(* The operations do not change, and neither does what they involve.       *)
LEMMA OperationsStay ==
  ASSUME OperationsInv, UNCHANGED fixed
  PROVE  OperationsInv' /\ Uninvolved' = Uninvolved
BY DEF OperationsInv, fixed, Uninvolved, Involved, Results, Injective, TmpKeepsNumber

LEMMA PartitionRoundIInv ==
  ASSUME IInv, PartitionRound
  PROVE  IInv'
<1> DEFINE separate == {m \in candidates : \A n \in candidates : n.origin # m.result}
<1>1. /\ phase = "partition" /\ phase' = phase
      /\ candidates' = candidates \ separate
      /\ moves' = moves \cup separate
      /\ operations' = operations /\ live' = live
      /\ cycles' = cycles /\ free' = free /\ tmp' = tmp /\ saved' = saved
      /\ content' = content
  BY DEF PartitionRound, fixed
<1>2. \A m \in separate, n \in candidates : n.origin # m.result
  OBVIOUS
<1>3. separate \subseteq candidates
  OBVIOUS
<1> HIDE DEF separate
<1>4. OperationsInv' /\ Uninvolved' = Uninvolved
  BY <1>1, OperationsStay DEF IInv, fixed
<1>5. TypeOK' /\ PhaseInv'
  BY <1>1, <1>3 DEF IInv, TypeOK, PhaseInv
<1>6. cycles = {}
  BY <1>1 DEF IInv, PhaseInv
<1>7. MovesInv'
  <2>1. candidates' \subseteq operations /\ moves' \subseteq operations
    BY <1>1, <1>3 DEF IInv, MovesInv
  <2>2. ASSUME NEW m \in moves', NEW n \in candidates'
        PROVE  m.result # n.result /\ m.result # n.origin
    <3>1. CASE m \in moves
      BY <1>1, <2>2, <3>1 DEF IInv, MovesInv, Cyclic
    <3>2. CASE m \in separate
      <4>1. m \in operations /\ n \in operations /\ m # n
        BY <1>1, <1>3, <2>2, <3>2 DEF IInv, MovesInv
      <4> QED
        BY <1>1, <1>2, <2>2, <3>2, <4>1 DEF IInv, OperationsInv, Injective
    <3> QED
      BY <1>1, <3>1, <3>2
  <2>3. ASSUME NEW X \in SUBSET moves', X # {}
        PROVE  \E m \in X : \A n \in X : n.origin # m.result
    <3>1. CASE X \cap moves = {}
      BY <1>1, <1>2, <1>3, <2>3, <3>1
    <3>2. CASE X \cap moves # {}
      <4>1. PICK m \in X \cap moves : \A n \in X \cap moves : n.origin # m.result
        BY <3>2 DEF IInv, MovesInv
      <4>2. \A n \in separate : n.origin # m.result
        BY <1>3, <4>1 DEF IInv, MovesInv, Cyclic
      <4> QED
        BY <1>1, <4>1, <4>2
    <3> QED
      BY <3>1, <3>2
  <2> QED
    BY <1>1, <1>6, <2>1, <2>2, <2>3 DEF MovesInv, Cyclic
<1>8. CyclesInv'
  BY <1>1 DEF IInv, CyclesInv, CyclesAreClosed, Results, Injective
<1>9. FreeInv'
  BY <1>1, <1>3 DEF IInv, FreeInv, Results
<1>10. TmpInv'
  BY <1>1, <1>4 DEF IInv, TmpInv
<1>11. ValuesAreWhereRead'
  <2>1. \A m \in moves' : m \in MoveOperation
    BY <1>1, <1>3 DEF IInv, TypeOK
  <2> QED
    BY <1>1, <1>6, <2>1 DEF IInv, PhaseInv, ValuesAreWhereRead, ValueOf
<1>12. DoneInv'
  BY <1>1, <1>3 DEF IInv, DoneInv, Results, Cyclic
<1> QED
  BY <1>4, <1>5, <1>7, <1>8, <1>9, <1>10, <1>11, <1>12 DEF IInv

LEMMA PartitionEndsIInv ==
  ASSUME IInv, PartitionEnds
  PROVE  IInv'
<1>1. /\ phase = "partition" /\ phase' = "generate"
      /\ candidates' = {} /\ cycles' = candidates
      /\ \A m \in candidates : \E n \in candidates : n.origin = m.result
      /\ operations' = operations /\ live' = live
      /\ moves' = moves /\ free' = free /\ tmp' = tmp /\ saved' = saved
      /\ content' = content
  BY DEF PartitionEnds, fixed
<1>2. OperationsInv' /\ Uninvolved' = Uninvolved
  BY <1>1, OperationsStay DEF IInv, fixed
<1>3. candidates \subseteq operations /\ operations \subseteq MoveOperation
  BY DEF IInv, MovesInv, OperationsInv
<1>4. Injective(candidates)
  BY <1>3 DEF IInv, OperationsInv, Injective
<1>5. /\ \A n \in candidates : \E m \in candidates : n.origin = m.result
      /\ \A m, n \in candidates : m.origin = n.origin => m = n
  BY <1>1, <1>3, <1>4, ClosedCycles
<1>6. candidates \subseteq [result : Locs, origin : Locs]
  BY <1>3, <1>5 DEF MoveOperation
<1>7. TypeOK' /\ PhaseInv'
  BY <1>1, <1>6 DEF IInv, TypeOK, PhaseInv
<1>8. MovesInv'
  BY <1>1, <1>3 DEF IInv, MovesInv, PhaseInv, Cyclic
<1>9. CyclesInv'
  BY <1>1, <1>3, <1>4, <1>5, <1>6
  DEF IInv, OperationsInv, CyclesInv, CyclesAreClosed, Results, Injective
<1>10. FreeInv'
  <2>1. free \cap Results(candidates) = {}
    BY <1>1, <1>3 DEF IInv, FreeInv, Results
  <2> QED
    BY <1>1, <2>1 DEF IInv, FreeInv, Results
<1>11. TmpInv'
  BY <1>1, <1>2 DEF IInv, TmpInv
<1>12. ValuesAreWhereRead'
  <2>1. \A m \in cycles' : content'[m.origin] = m.origin
    BY <1>1, <1>6 DEF IInv, PhaseInv
  <2>2. \A m \in moves' : ValueOf(m.origin)' = m.origin
    BY <1>1 DEF IInv, ValuesAreWhereRead, ValueOf
  <2>3. ASSUME NEW m \in cycles'
        PROVE  \E n \in operations' : n.result = m.result /\ content'[m.origin] = n.origin
    <3>1. m \in operations'
      BY <1>1, <1>3, <2>3
    <3> QED
      BY <2>1, <3>1
  <2> QED
    BY <2>2, <2>3 DEF ValuesAreWhereRead, ValueOf
<1>13. DoneInv'
  <2>1. moves' \cup Cyclic' = moves \cup Cyclic
    BY <1>1 DEF IInv, PhaseInv, Cyclic
  <2> QED
    BY <1>1, <2>1 DEF IInv, DoneInv, Results
<1> QED
  BY <1>2, <1>7, <1>8, <1>9, <1>10, <1>11, <1>12, <1>13 DEF IInv

-----------------------------------------------------------------------------
(* What an instruction may overwrite besides its operands: registers that   *)
(* no move still needs and whose value, if it is live, has been pushed.    *)
Scratch(R) ==
  /\ R \subseteq Regs
  /\ \A r \in R :
       /\ \A n \in operations : n.origin # r /\ (n.result = r => n \in moves)
       /\ r \notin Results(cycles)
  /\ tmp' \in Regs \cup {NoReg} /\ saved' \in Origins \cup {NoReg}
  /\ tmp' # NoReg => tmp' \in Uninvolved /\ tmp' < Reserved
  /\ saved' # NoReg => tmp' \in live /\ saved' = tmp'
  /\ saved' = NoReg => tmp' \notin live
  /\ \A u \in live : u # tmp' => u \notin R /\ content[u] = u

LEMMA NothingScratched ==
  ASSUME IInv, UNCHANGED <<tmp, saved>>
  PROVE  Scratch({})
BY DEF IInv, TypeOK, TmpInv, Scratch

LEMMA TmpIsScratch ==
  ASSUME IInv, phase = "generate", NEW r \in Regs, ProvideTmp(r)
  PROVE  Scratch({r})
<1>1. CASE free # {}
  <2>1. r \in free /\ tmp' = tmp /\ saved' = saved
    BY <1>1 DEF ProvideTmp
  <2>2. PICK m \in moves : m.result = r
    BY <2>1 DEF IInv, FreeInv, PhaseInv, Results
  <2>3. \A n \in operations : n.origin # r /\ (n.result = r => n = m)
    BY <2>1, <2>2 DEF IInv, FreeInv, MovesInv, OperationsInv, Injective
  <2>4. r \notin Results(cycles)
    BY <2>2 DEF IInv, MovesInv, Results, Cyclic
  <2>5. m \in operations
    BY <2>2 DEF IInv, MovesInv
  <2>6. r \notin live
    BY <2>2, <2>5 DEF IInv, OperationsInv, Results
  <2> QED
    BY <2>1, <2>2, <2>3, <2>4, <2>6 DEF IInv, TypeOK, TmpInv, Scratch
<1>2. CASE free = {}
  <2>1. r \in Uninvolved /\ tmp' = r /\ r < Reserved
    <3>1. CASE tmp = NoReg
      <4>1. PICK u \in Uninvolved : FindUninvolvedReg(u) /\ r = RegNumber(u) /\ tmp' = u
        BY <1>2, <3>1 DEF ProvideTmp
      <4>2. PICK v \in Uninvolved : v < Reserved
        BY DEF IInv, OperationsInv, TmpKeepsNumber
      <4>3. u < Reserved
        BY <4>1, <4>2, RegsAssumption, ReservedAssumption DEF FindUninvolvedReg, Uninvolved
      <4> QED
        BY <4>1, <4>3 DEF RegNumber
    <3>2. CASE tmp # NoReg
      BY <1>2, <3>2 DEF ProvideTmp, RegNumber, IInv, TmpInv
    <3> QED
      BY <3>1, <3>2
  <2>2. \A n \in operations : n.origin # r /\ n.result # r
    BY <2>1 DEF Uninvolved, Involved, Results, Locs
  <2>3. r \notin Results(cycles)
    <3>1. ASSUME NEW n \in cycles
          PROVE  \E k \in operations : k.result = n.result
      BY DEF IInv, ValuesAreWhereRead
    <3> QED
      BY <2>2, <3>1 DEF Results
  <2>4. r # NoReg
    BY RegsAssumption DEF NoReg
  <2>5. CASE tmp = NoReg
    <3>1. saved' = IF r \in live THEN content[r] ELSE NoReg
      BY <1>2, <2>1, <2>5 DEF ProvideTmp
    <3>2. \A u \in live : content[u] = u
      BY <2>5, RegsAssumption DEF IInv, TmpInv, TypeOK, NoReg
    <3> QED
      BY <2>1, <2>2, <2>3, <2>4, <3>1, <3>2 DEF Scratch, Origins, Locs
  <2>6. CASE tmp # NoReg
    <3>1. tmp = r /\ saved' = saved
      BY <1>2, <2>1, <2>6 DEF ProvideTmp
    <3> QED
      BY <2>1, <2>2, <2>3, <2>4, <3>1 DEF IInv, TypeOK, TmpInv, Scratch
  <2> QED
    BY <2>5, <2>6
<1> QED
  BY <1>1, <1>2

(* A move is emitted, with or without scratch registers.                   *)
LEMMA EmitIInv ==
  ASSUME IInv, phase = "generate", NEW m \in moves, IsNextMove(m), Emitted(m),
         NEW R, Scratch(R), m.result \notin R,
         content' \in [Locs -> Origins],
         content'[m.result] = ValueOf(m.origin),
         \A l \in Locs : l # m.result /\ l \notin R => content'[l] = content[l]
  PROVE  IInv'
<1>1. /\ moves' = moves \ {m} /\ free' = free \ {m.result}
      /\ operations' = operations /\ live' = live
      /\ phase' = phase /\ candidates' = candidates /\ cycles' = cycles
  BY DEF Emitted, fixed
<1>2. OperationsInv' /\ Uninvolved' = Uninvolved
  BY <1>1, OperationsStay DEF IInv, fixed
<1>3. candidates = {} /\ candidates' = {}
  BY <1>1 DEF IInv, PhaseInv
<1>4. m \in operations /\ m \in MoveOperation /\ m.result \in Locs
  BY DEF IInv, MovesInv, TypeOK, MoveOperation
<1>5. \A n \in moves \cup cycles : n.origin # m.result
  BY DEF IsNextMove, IsReady, Uses
<1>6. m.result \notin live
  BY <1>4 DEF IInv, OperationsInv, Results
<1>7. TypeOK' /\ PhaseInv'
  BY <1>1, <1>3 DEF IInv, TypeOK, PhaseInv, Scratch
<1>8. MovesInv'
  BY <1>1 DEF IInv, MovesInv, Cyclic
<1>9. CyclesInv'
  BY <1>1 DEF IInv, CyclesInv, CyclesAreClosed, Results, Injective
<1>10. FreeInv'
  BY <1>1, <1>3 DEF IInv, FreeInv, Results
<1>11. TmpInv'
  <2>1. live \subseteq Locs
    BY DEF IInv, TypeOK, Locs
  <2> QED
    BY <1>1, <1>2, <1>6, <2>1 DEF TmpInv, Scratch
<1>12. ValuesAreWhereRead'
  <2>1. ASSUME NEW n \in moves'
        PROVE  ValueOf(n.origin)' = n.origin
    <3>1. n \in moves /\ n \in operations
      BY <1>1 DEF IInv, MovesInv
    <3>2. n.origin # m.result /\ n.origin \notin R
      BY <1>5, <3>1 DEF Scratch
    <3> QED
      BY <3>1, <3>2 DEF IInv, ValuesAreWhereRead, ValueOf
  <2>2. ASSUME NEW n \in cycles'
        PROVE  \E k \in operations' : k.result = n.result /\ content'[n.origin] = k.origin
    <3>1. n \in cycles /\ n.origin \in Locs /\ n.origin \in Results(cycles)
      BY <1>1 DEF IInv, CyclesInv, CyclesAreClosed
    <3>2. n.origin # m.result /\ n.origin \notin R
      BY <1>5, <3>1 DEF Scratch
    <3> QED
      BY <1>1, <3>1, <3>2 DEF IInv, ValuesAreWhereRead
  <2> QED
    BY <2>1, <2>2 DEF ValuesAreWhereRead, ValueOf
<1>13. DoneInv'
  <2> SUFFICES ASSUME NEW n \in operations, n.result \notin Results(moves' \cup Cyclic')
               PROVE  content'[n.result] = n.origin
    BY <1>1 DEF DoneInv
  <2>1. CASE n = m
    BY <2>1 DEF IInv, ValuesAreWhereRead
  <2>2. CASE n # m
    <3>1. n.result # m.result
      BY <1>4, <2>2 DEF IInv, OperationsInv, Injective
    <3>2. n.result \notin Results(moves \cup Cyclic)
      BY <1>1, <3>1 DEF Results, Cyclic
    <3>3. n.result \notin R /\ n.result \in Locs
      BY <3>2 DEF Scratch, Results, IInv, OperationsInv, MoveOperation
    <3> QED
      BY <3>1, <3>2, <3>3 DEF IInv, DoneInv
  <2> QED
    BY <2>1, <2>2
<1> QED
  BY <1>2, <1>7, <1>8, <1>9, <1>10, <1>11, <1>12, <1>13 DEF IInv

-----------------------------------------------------------------------------
(* A swap carries out m: cycles stay closed when m is taken out of its      *)
(* cycle and the move that reads m's result reads m's origin instead.      *)
LEMMA SwapKeepsCycles ==
  ASSUME CyclesInv, NEW m \in cycles
  PROVE  /\ AfterSwap(m) \subseteq [result : Locs, origin : Locs]
         /\ Injective(AfterSwap(m))
         /\ \A n \in AfterSwap(m) : n.origin # n.result
         /\ Results(AfterSwap(m)) = {n.origin : n \in AfterSwap(m)}
         /\ \A n, k \in AfterSwap(m) : n.origin = k.origin => n = k
         /\ Results(AfterSwap(m)) \subseteq Results(cycles) \ {m.result}
<1> DEFINE C == AfterSwap(m)
<1>1. /\ m.result \in Locs /\ m.origin \in Locs /\ m.origin # m.result
      /\ \A n \in cycles : n.result \in Locs /\ n.origin \in Locs
  BY DEF CyclesInv
<1>2. PICK k \in cycles : k.origin = m.result
  BY DEF CyclesInv, CyclesAreClosed, Results
<1>3. k # m /\ \A n \in cycles : n.origin = m.result => n = k
  BY <1>1, <1>2 DEF CyclesInv, CyclesAreClosed
<1>4. \A n \in cycles : n.origin = m.origin => n = m
  BY DEF CyclesInv, CyclesAreClosed
<1>5. \A n, l \in cycles : n.result = l.result => n = l
  BY DEF CyclesInv, Injective
<1>6. CASE k.result = m.origin
  <2>1. C = cycles \ {m, k}
    BY <1>2, <1>3, <1>6 DEF AfterSwap
  <2>2. {n.origin : n \in C} = {n.origin : n \in cycles} \ {m.origin, m.result}
    BY <1>2, <1>3, <1>4, <2>1
  <2>3. Results(C) = Results(cycles) \ {m.origin, m.result}
    BY <1>5, <1>6, <2>1 DEF Results
  <2> QED
    BY <2>1, <2>2, <2>3 DEF CyclesInv, CyclesAreClosed, Injective
<1>7. CASE k.result # m.origin
  <2> DEFINE r == [result |-> k.result, origin |-> m.origin]
  <2>1. C = (cycles \ {m, k}) \cup {r}
    BY <1>2, <1>3, <1>7 DEF AfterSwap
  <2>2. r.result = k.result /\ r.origin = m.origin /\ r \in [result : Locs, origin : Locs]
    BY <1>1
  <2> HIDE DEF C, r
  <2>3. {n.origin : n \in C} = {n.origin : n \in cycles} \ {m.result}
    BY <1>1, <1>2, <1>3, <1>4, <2>1, <2>2
  <2>4. Results(C) = Results(cycles) \ {m.result}
    BY <1>3, <1>5, <2>1, <2>2 DEF Results
  <2>5. Injective(C)
    BY <1>5, <2>1, <2>2 DEF Injective
  <2>6. \A n, l \in C : n.origin = l.origin => n = l
    BY <1>4, <2>1, <2>2 DEF CyclesInv, CyclesAreClosed
  <2>7. \A n \in C : n.origin # n.result
    BY <1>7, <2>1, <2>2 DEF CyclesInv
  <2>8. C \subseteq [result : Locs, origin : Locs]
    BY <2>1, <2>2 DEF CyclesInv
  <2>9. Results(C) = {n.origin : n \in C}
    BY <2>3, <2>4 DEF CyclesInv, CyclesAreClosed
  <2> QED
    BY <2>4, <2>5, <2>6, <2>7, <2>8, <2>9 DEF C
<1> QED
  BY <1>6, <1>7

LEMMA SwapIInv ==
  ASSUME IInv, phase = "generate", NEW m \in cycles, Swappable(m), Swapped(m),
         NEW R, Scratch(R),
         content' \in [Locs -> Origins],
         content'[m.result] = content[m.origin],
         content'[m.origin] = content[m.result],
         \A l \in Locs : l # m.result /\ l # m.origin /\ l \notin R => content'[l] = content[l]
  PROVE  IInv'
<1>1. /\ cycles' = AfterSwap(m)
      /\ operations' = operations /\ live' = live
      /\ phase' = phase /\ candidates' = candidates /\ moves' = moves /\ free' = free
  BY DEF Swapped, fixed
<1>2. OperationsInv' /\ Uninvolved' = Uninvolved
  BY <1>1, OperationsStay DEF IInv, fixed
<1>3. candidates = {} /\ candidates' = {}
  BY <1>1 DEF IInv, PhaseInv
<1>4. /\ cycles' \subseteq [result : Locs, origin : Locs]
      /\ Results(cycles') = {n.origin : n \in cycles'}
      /\ Results(cycles') \subseteq Results(cycles) \ {m.result}
  BY <1>1, SwapKeepsCycles DEF IInv
<1>5. CyclesInv'
  BY <1>1, <1>4, SwapKeepsCycles DEF IInv, CyclesInv, CyclesAreClosed, Injective
<1>6. m.result \in Results(cycles) /\ m.origin \in Results(cycles)
  BY DEF IInv, CyclesInv, CyclesAreClosed, Results
<1>7. \A l \in Results(cycles) : l \notin R /\ l \notin live
  <2> SUFFICES ASSUME NEW n \in cycles
               PROVE  n.result \notin R /\ n.result \notin live
    BY DEF Results
  <2>1. PICK k \in operations : k.result = n.result
    BY DEF IInv, ValuesAreWhereRead
  <2>2. n.result \notin R
    BY DEF Scratch, Results
  <2>3. n.result \in Results(operations)
    BY <2>1 DEF Results
  <2> QED
    BY <2>2, <2>3 DEF IInv, OperationsInv
<1>8. TypeOK' /\ PhaseInv'
  BY <1>1, <1>3, <1>4 DEF IInv, TypeOK, PhaseInv, Scratch
<1>9. MovesInv'
  <2>1. ASSUME NEW n \in moves', NEW k \in Cyclic'
        PROVE  n.result # k.result /\ n.result # k.origin
    <3>1. k.result \in Results(cycles) /\ k.origin \in Results(cycles)
      BY <1>3, <1>4, <2>1 DEF Cyclic, Results
    <3>2. n.result \notin Results(cycles)
      BY <1>1, <2>1 DEF IInv, MovesInv, Cyclic, Results
    <3> QED
      BY <3>1, <3>2
  <2> QED
    BY <1>1, <2>1 DEF IInv, MovesInv
<1>10. FreeInv'
  BY <1>1 DEF IInv, FreeInv, Results
<1>11. TmpInv'
  <2>1. live \subseteq Locs
    BY DEF IInv, TypeOK, Locs
  <2> QED
    BY <1>1, <1>2, <1>6, <1>7, <2>1 DEF TmpInv, Scratch
<1>12. ValuesAreWhereRead'
  <2>1. ASSUME NEW n \in moves'
        PROVE  ValueOf(n.origin)' = n.origin
    <3>1. n \in moves /\ n \in operations
      BY <1>1 DEF IInv, MovesInv
    <3>2. n.origin # m.origin
      BY <3>1 DEF Swappable, Uses, IInv, MovesInv, Cyclic
    <3>3. n.origin # m.result
      <4>1. PICK k \in cycles : k.origin = m.result
        BY DEF IInv, CyclesInv, CyclesAreClosed, Results
      <4> QED
        BY <3>1, <4>1 DEF Swappable, Uses, IInv, MovesInv, Cyclic
    <3>4. n.origin \notin R
      BY <3>1 DEF Scratch
    <3> QED
      BY <3>1, <3>2, <3>3, <3>4 DEF IInv, ValuesAreWhereRead, ValueOf
  <2>2. ASSUME NEW n \in cycles'
        PROVE  \E k \in operations' : k.result = n.result /\ content'[n.origin] = k.origin
    <3>1. CASE n \in cycles \ {m} /\ n.origin # m.result
      <4>1. n.origin # m.origin
        BY <3>1 DEF IInv, CyclesInv, CyclesAreClosed
      <4>2. n.origin \in Locs /\ n.origin \notin R
        BY <1>7, <3>1 DEF IInv, CyclesInv, CyclesAreClosed
      <4> QED
        BY <1>1, <3>1, <4>1, <4>2 DEF IInv, ValuesAreWhereRead
    <3>2. CASE \E k \in cycles : /\ k.origin = m.result
                                /\ n = [result |-> k.result, origin |-> m.origin]
      BY <1>1, <3>2 DEF IInv, ValuesAreWhereRead
    <3> QED
      BY <1>1, <2>2, <3>1, <3>2 DEF AfterSwap
  <2> QED
    BY <2>1, <2>2 DEF ValuesAreWhereRead, ValueOf
<1>13. DoneInv'
  <2> SUFFICES ASSUME NEW n \in operations, n.result \notin Results(moves' \cup Cyclic')
               PROVE  content'[n.result] = n.origin
    BY <1>1 DEF DoneInv
  <2>0. n.result \in Locs /\ n.result \notin Results(moves)
    BY <1>1 DEF Results, IInv, OperationsInv, MoveOperation
  <2>1. CASE n.result \notin Results(cycles)
    <3>1. n.result \notin R /\ n.result # m.result /\ n.result # m.origin
      BY <1>6, <2>0, <2>1 DEF Scratch, Results
    <3>2. n.result \notin Results(moves \cup Cyclic)
      BY <1>3, <2>0, <2>1 DEF Results, Cyclic
    <3> QED
      BY <2>0, <3>1, <3>2 DEF IInv, DoneInv
  <2>2. CASE n.result = m.result
    <3>1. PICK k \in operations : k.result = m.result /\ content[m.origin] = k.origin
      BY DEF IInv, ValuesAreWhereRead
    <3> QED
      BY <2>2, <3>1 DEF IInv, OperationsInv, Injective
  <2>3. CASE n.result \in Results(cycles) /\ n.result # m.result
    <3>1. PICK k \in cycles : k.result = n.result
      BY <2>3 DEF Results
    <3>2. k # m /\ n.result \notin Results(AfterSwap(m))
      BY <1>1, <2>3, <3>1 DEF Results, Cyclic
    <3>3. k \notin AfterSwap(m)
      BY <3>1, <3>2 DEF Results
    <3>4. k.origin = m.result
      BY <3>2, <3>3 DEF AfterSwap
    <3>5. k.result = m.origin
      <4> SUFFICES ASSUME k.result # m.origin
                   PROVE  FALSE
        OBVIOUS
      <4>1. [result |-> k.result, origin |-> m.origin] \in AfterSwap(m)
        BY <3>4 DEF AfterSwap
      <4>2. [result |-> k.result, origin |-> m.origin].result = k.result
        OBVIOUS
      <4> QED
        BY <3>1, <3>2, <4>1, <4>2 DEF Results
    <3>6. PICK l \in operations : l.result = k.result /\ content[k.origin] = l.origin
      BY DEF IInv, ValuesAreWhereRead
    <3> QED
      BY <3>1, <3>4, <3>5, <3>6 DEF IInv, OperationsInv, Injective
  <2> QED
    BY <2>1, <2>2, <2>3
<1> QED
  BY <1>2, <1>5, <1>8, <1>9, <1>10, <1>11, <1>12, <1>13 DEF IInv

LEMMA RestoreIInv ==
  ASSUME IInv, Restore
  PROVE  IInv'
<1>1. /\ phase = "generate" /\ phase' = "done" /\ moves = {} /\ cycles = {}
      /\ operations' = operations /\ live' = live /\ candidates' = candidates
      /\ moves' = moves /\ cycles' = cycles /\ free' = free
      /\ tmp' = tmp /\ saved' = saved
      /\ content' = IF saved = NoReg THEN content ELSE [content EXCEPT ![tmp] = saved]
  BY DEF Restore, fixed
<1>2. OperationsInv' /\ Uninvolved' = Uninvolved
  BY <1>1, OperationsStay DEF IInv, fixed
<1>3. live \subseteq Regs /\ Regs \subseteq Locs /\ NoReg \notin Regs
  BY RegsAssumption DEF IInv, TypeOK, Locs, NoReg
<1>4. candidates = {}
  BY <1>1 DEF IInv, PhaseInv
<1>5. TypeOK' /\ PhaseInv' /\ MovesInv' /\ CyclesInv' /\ FreeInv'
  BY <1>1, <1>4 DEF IInv, TypeOK, PhaseInv, MovesInv, Cyclic, CyclesInv, CyclesAreClosed,
     Injective, Results, FreeInv
<1>6. TmpInv'
  <2>1. \A u \in live : content'[u] = u
    BY <1>1, <1>3 DEF IInv, TypeOK, TmpInv
  <2> QED
    BY <1>1, <1>2, <2>1 DEF IInv, TmpInv
<1>7. ValuesAreWhereRead'
  BY <1>1 DEF ValuesAreWhereRead
<1>8. DoneInv'
  <2> SUFFICES ASSUME NEW n \in operations
               PROVE  content'[n.result] = n.origin
    BY <1>1 DEF DoneInv
  <2>1. content[n.result] = n.origin
    BY <1>1, <1>4 DEF IInv, DoneInv, Results, Cyclic
  <2>2. n.result \in Locs /\ n.result \notin Uninvolved
    BY DEF IInv, OperationsInv, MoveOperation, Uninvolved, Involved, Results
  <2>3. saved # NoReg => tmp # n.result
    BY <1>3, <2>2 DEF IInv, TmpInv, OperationsInv
  <2> QED
    BY <1>1, <2>1, <2>2, <2>3 DEF IInv, TypeOK
<1> QED
  BY <1>2, <1>5, <1>6, <1>7, <1>8 DEF IInv

LEMMA StutterIInv ==
  ASSUME IInv, UNCHANGED vars
  PROVE  IInv'
<1>1. OperationsInv' /\ Uninvolved' = Uninvolved
  BY OperationsStay DEF IInv, vars, fixed
<1>2. TypeOK' /\ PhaseInv' /\ MovesInv' /\ CyclesInv' /\ FreeInv'
  BY DEF IInv, vars, fixed, TypeOK, PhaseInv, MovesInv, Cyclic, CyclesInv, CyclesAreClosed,
     Injective, Results, FreeInv
<1>3. TmpInv'
  BY <1>1 DEF IInv, vars, fixed, TmpInv
<1>4. ValuesAreWhereRead' /\ DoneInv'
  BY DEF IInv, vars, fixed, ValuesAreWhereRead, ValueOf, DoneInv, Results, Cyclic
<1> QED
  BY <1>1, <1>2, <1>3, <1>4 DEF IInv

-----------------------------------------------------------------------------
LEMMA NextIInv == IInv /\ [Next]_vars => IInv'
<1> SUFFICES ASSUME IInv, [Next]_vars
             PROVE  IInv'
  OBVIOUS
<1>0. /\ content \in [Locs -> Origins]
      /\ \A l \in Origins : ValueOf(l) \in Origins
      /\ moves \subseteq MoveOperation /\ cycles \subseteq [result : Locs, origin : Locs]
      /\ Locs \subseteq Origins /\ Regs \subseteq Locs
  BY DEF IInv, TypeOK, ValueOf, Origins, Locs
<1>1. CASE PartitionRound
  BY <1>1, PartitionRoundIInv
<1>2. CASE PartitionEnds
  BY <1>2, PartitionEndsIInv
<1>3. ASSUME NEW m \in moves, Move(m)
      PROVE  IInv'
  <2>1. /\ phase = "generate" /\ IsNextMove(m) /\ Emitted(m)
        /\ content' = [content EXCEPT ![m.result] = ValueOf(m.origin)]
        /\ UNCHANGED <<tmp, saved>>
    BY <1>3 DEF Move
  <2>2. m.result \in Locs /\ m.origin \in Origins
    BY <1>0 DEF MoveOperation
  <2>3. Scratch({})
    BY <2>1, NothingScratched
  <2> QED
    BY <1>0, <2>1, <2>2, <2>3, EmitIInv
<1>4. ASSUME NEW m \in moves, NEW r \in Regs, MoveViaTmp(m, r)
      PROVE  IInv'
  <2>1. /\ phase = "generate" /\ IsNextMove(m) /\ Emitted(m) /\ ProvideTmp(r)
        /\ content' = [content EXCEPT ![r] = ValueOf(m.origin), ![m.result] = ValueOf(m.origin)]
        /\ m.result \in Mems
    BY <1>4 DEF MoveViaTmp, MovNeedsTmpReg
  <2>2. m.result \in Locs /\ m.origin \in Origins /\ m.result # r
    BY <1>0, <2>1, LocsDisjoint DEF MoveOperation
  <2>3. Scratch({r})
    BY <2>1, TmpIsScratch
  <2> QED
    BY <1>0, <2>1, <2>2, <2>3, EmitIInv
<1>5. ASSUME NEW m \in cycles, Swap(m)
      PROVE  IInv'
  <2>1. /\ phase = "generate" /\ Swappable(m) /\ Swapped(m)
        /\ content' = [content EXCEPT ![m.origin] = content[m.result],
                                      ![m.result] = content[m.origin]]
        /\ UNCHANGED <<tmp, saved>>
    BY <1>5 DEF Swap
  <2>2. m.result \in Locs /\ m.origin \in Locs /\ m.origin # m.result
    BY <1>0 DEF IInv, CyclesInv
  <2>3. Scratch({})
    BY <2>1, NothingScratched
  <2> QED
    BY <1>0, <2>1, <2>2, <2>3, SwapIInv
<1>6. ASSUME NEW m \in cycles, NEW r \in Regs, SwapViaTmp(m, r)
      PROVE  IInv'
  <2>1. /\ phase = "generate" /\ Swappable(m) /\ Swapped(m) /\ ProvideTmp(r)
        /\ content' = [content EXCEPT ![m.origin] = content[m.result],
                                      ![m.result] = content[m.origin],
                                      ![r] = content[m.result]]
        /\ m.origin \in Mems /\ m.result \in Mems
    BY <1>6 DEF SwapViaTmp
  <2>2. /\ m.result \in Locs /\ m.origin \in Locs /\ m.origin # m.result
        /\ m.result # r /\ m.origin # r
    BY <1>0, <2>1, LocsDisjoint DEF IInv, CyclesInv
  <2>3. Scratch({r})
    BY <2>1, TmpIsScratch
  <2> QED
    BY <1>0, <2>1, <2>2, <2>3, SwapIInv
<1>7. CASE Restore
  BY <1>7, RestoreIInv
<1>8. CASE UNCHANGED vars
  BY <1>8, StutterIInv
<1> QED
  BY <1>1, <1>2, <1>3, <1>4, <1>5, <1>6, <1>7, <1>8 DEF Next

(* The inductive invariant, from which the theorems below follow.          *)
THEOREM Invariance == LowSpec => []IInv
  BY InitIInv, NextIInv, PTL DEF LowSpec, LowInit

(* Every location holds the value of an origin, and every set of moves has  *)
(* moves in it, at every step of GenerateMovs.                             *)
THEOREM TypeCorrect == LowSpec => []TypeOK
<1>1. IInv => TypeOK
  BY DEF IInv
<1> QED
  BY <1>1, Invariance, PTL

(* The instructions GenerateMovs emits amount to one parallel move.        *)
THEOREM Parallel == LowSpec => []ParallelResult
<1>1. IInv => ParallelResult
  <2> SUFFICES ASSUME IInv, phase = "done"
               PROVE  /\ \A m \in operations : content[m.result] = m.origin
                      /\ \A r \in live : content[r] = r
    BY DEF ParallelResult
  <2>1. moves = {} /\ cycles = {} /\ candidates = {}
    BY DEF IInv, PhaseInv
  <2> QED
    BY <2>1 DEF IInv, DoneInv, TmpInv, Results, Cyclic
<1> QED
  BY <1>1, Invariance, PTL

(* The moves that PartitionMoveOperationsByCycleParticipation leaves, and   *)
(* what the swaps leave of them, are closed cycles.                        *)
THEOREM ClosedAlways == LowSpec => []CyclesAreClosed
<1>1. IInv => CyclesAreClosed
  BY DEF IInv, CyclesInv
<1> QED
  BY <1>1, Invariance, PTL

(* What a remaining move carries is where it will look for it.             *)
THEOREM WhereRead == LowSpec => []ValuesAreWhereRead
<1>1. IInv => ValuesAreWhereRead
  BY DEF IInv
<1> QED
  BY <1>1, Invariance, PTL

(* GenerateMovs never reaches its fail(): while moves remain, a move is     *)
(* ready, and once only cycles remain, each can be swapped.                *)
THEOREM Progress == LowSpec => []NeverStuck
<1>1. IInv => NeverStuck
  <2> SUFFICES ASSUME IInv, phase = "generate"
               PROVE  NeverStuck
    BY DEF NeverStuck
  <2>1. CASE moves # {}
    <3>1. PICK m \in moves : \A n \in moves : n.origin # m.result
      BY <2>1 DEF IInv, MovesInv
    <3>2. IsReady(m)
      BY <3>1 DEF IInv, MovesInv, IsReady, Uses, Cyclic
    <3>3. CASE \A n \in moves : IsReady(n) => ReducesFree(n)
      BY <3>2, <3>3 DEF NeverStuck, IsNextMove
    <3>4. CASE \E n \in moves : IsReady(n) /\ ~ReducesFree(n)
      BY <3>4 DEF NeverStuck, IsNextMove
    <3> QED
      BY <3>3, <3>4
  <2>2. CASE moves = {}
    BY <2>2 DEF IInv, CyclesInv, CyclesAreClosed, NeverStuck, Swappable, Uses
  <2> QED
    BY <2>1, <2>2
<1> QED
  BY <1>1, Invariance, PTL
=============================================================================
