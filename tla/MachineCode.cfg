SPECIFICATION Spec
CONSTANTS
    Capacity = 36
    Instrs <- MCInstrs
    Programs <- MCPrograms
INVARIANTS
    RunsAsWritten
    RefusesOnlyFullMemory
CHECK_DEADLOCK FALSE
