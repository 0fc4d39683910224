\* Safety of the Postgres apply path: two processes, three numbers, one scope.
SPECIFICATION Spec
CONSTANTS
  P1 = P1
  P2 = P2
  S1 = S1
  S2 = S2
  Nobody = Nobody
  NoName = NoName
  NoDigest = NoDigest
  NoRow = NoRow
  Migrations <- MCMigrations
  Procs <- MCProcs
  Scopes <- OneScope
  Trees <- MCTrees
  Exemptions <- MCExemptions
  Histories <- MCHistories
  StrictOrdering = TRUE
SYMMETRY MCSymmetry
INVARIANTS
  TypeOK
  LedgerTellsTheTruth
  SuccessMeansApplied
  ValidatedMeansComplete
  SchemaBeforeDDL
  StatusErrorsBlock
PROPERTIES
  DirtyRowBlocks
  LandsInOrder
  ExceptionsAreAudited
  ImplementsRollout
