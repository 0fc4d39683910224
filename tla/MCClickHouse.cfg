\* Two processes, trees that disagree, one ghost replica, any failure.
SPECIFICATION FairSpec
CONSTANTS
  P1 = P1
  P2 = P2
  Nobody = Nobody
  NoName = NoName
  NoDigest = NoDigest
  NoRow = NoRow
  Migrations <- MCMigrations
  Procs <- MCProcs
  Trees <- MCTrees
  Histories <- MCHistories
  Replicated <- MCReplicated
  MaxWaits = 1
INVARIANTS
  ClickHouseOK
  EffectsAreRecorded
  AppliedMeansComplete
  SuccessMeansApplied
PROPERTIES
  AppliedIsFinal
  RetriesEnd
