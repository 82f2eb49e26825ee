CONSTANTS
  NumRegs = 5
  NumColors = 7
  ArgColors <- MCArgColors
  ResultColors <- MCResultColors
  CalleeSaved = {3, 4}
  Cases <- AllCases
SPECIFICATION Spec
INVARIANT TranslatedRight
CHECK_DEADLOCK FALSE
