\* Conversions and strict integrity racing an older release and a lane.
SPECIFICATION ConversionSpec
CONSTANTS
  P1 = P1
  P2 = P2
  S1 = S1
  S2 = S2
  Nobody = Nobody
  NoName = NoName
  NoDigest = NoDigest
  NoRow = NoRow
  Migrations <- ConversionMigrations
  Procs <- MCProcs
  Scopes <- OneScope
  Trees <- ConversionTrees
  Exemptions <- NoExemptions
  Histories <- ConversionHistories
  StrictOrdering = FALSE
  Objects <- ConversionObjects
  Shape <- ConversionShape
  Declared <- ConversionDeclared
  Strays <- ConversionStrays
  StrictIntegrity = TRUE
  MaxAudits = 3
SYMMETRY MCSymmetry
PROPERTIES
  NeverAppliesOverEdits
