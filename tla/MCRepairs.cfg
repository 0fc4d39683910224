\* The operator's verbs racing each other and live migrators.
SPECIFICATION RepairSpec
CONSTANTS
  P1 = P1
  P2 = P2
  S1 = S1
  S2 = S2
  Nobody = Nobody
  NoName = NoName
  NoDigest = NoDigest
  NoRow = NoRow
  Migrations <- RepairMigrations
  Procs <- MCProcs
  Scopes <- OneScope
  Trees <- RepairTrees
  Exemptions <- NoExemptions
  Histories <- RepairHistory
  StrictOrdering = FALSE
  MaxRepairs = 1
SYMMETRY MCSymmetry
INVARIANTS
  DeskOK
  DigestsAgree
PROPERTIES
  DirtyEndsOnRecord
  RebindingIsAudited
  BaselineStopsApply
