\* Liveness: two scopes whose releases convert, and one advisory lock.
SPECIFICATION FairConversionSpec
CONSTANTS
  P1 = P1
  P2 = P2
  S1 = S1
  S2 = S2
  Nobody = Nobody
  NoName = NoName
  NoDigest = NoDigest
  NoRow = NoRow
  Migrations <- ConversionMigrations
  Procs <- MCProcs
  Scopes <- TwoScopes
  Trees <- OnlyLane
  Exemptions <- NoExemptions
  Histories <- OnlyBase
  StrictOrdering = FALSE
  Objects <- ConversionObjects
  Shape <- ConversionShape
  Declared <- OnlyLaneDeclared
  Strays <- NoStrays
  StrictIntegrity = TRUE
  MaxAudits = 1
PROPERTIES
  EveryCallReturns
