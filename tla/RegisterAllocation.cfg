CONSTANT Funcs <- AllFuncs
SPECIFICATION Spec
INVARIANTS RangesAreLiveness ReadsAreRight
PROPERTY AllocationEnds
CHECK_DEADLOCK FALSE
