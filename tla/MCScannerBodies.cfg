\* Dollar-quoted bodies with a tag, which the no-transaction path lets through.
SPECIFICATION Spec
CONSTANTS
  Characters <- MCCharacters
  Alphabets <- OnlyBodies
  MaxLexemes = 7
  Environment <- MCEnvironment
INVARIANTS
  BodiesStayWhole
CHECK_DEADLOCK FALSE
