\* Three-line files, merged and deployed one after another.
SPECIFICATION Spec
CONSTANTS
  Migrations <- MCMigrations
  NoName = NoName
  NoDigest = NoDigest
  NoRow = NoRow
  MaxInt64 = 20
  Lines <- MCLines
  MaxLines = 3
INVARIANTS
  KeysAreNumbers
  CheckedChainsDeploy
  LintedFilesDeploy
