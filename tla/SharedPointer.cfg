\* Programs of four variables with up to two more blocks that never use the
\* pointer behind a pointer as a value.
SPECIFICATION Spec
CONSTANTS
  Vars <- MCVars
  VarType <- MCVarType
  Blocks = {1, 2, 3, 4, 5}
  Exprs = {"ident", "new", "address", "weak", "deref"}
INVARIANTS
  CountsMatchOwners
  NoUseAfterFree
PROPERTY
  NothingElseIsAbandoned
\* The program ends or stops with a fault.
CHECK_DEADLOCK FALSE
