\* Every set of moves over three registers, of which one whose number is its
\* color is uninvolved, two stack slots and one immediate of each width.
SPECIFICATION LowSpec
CONSTANTS
  Regs = {0, 1, 2}
  Mems = {14, 15}
  Imms = {100}
  WideImms = {101}
  Reserved = 2
INVARIANTS
  ParallelResult
  CyclesAreClosed
  NeverStuck
  ValuesAreWhereRead
CHECK_DEADLOCK FALSE
