\* Texts of up to five pieces; writing ends there.
SPECIFICATION Spec
CONSTANTS
  Characters <- MCCharacters
  Alphabets <- MCAlphabets
  MaxLexemes = 5
  Environment <- MCEnvironment
INVARIANTS
  SplitKeepsTokens
  StripKeepsCode
  ValuesAreInert
CHECK_DEADLOCK FALSE
