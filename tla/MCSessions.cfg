\* Three goroutines, two migrators and a pool of one connection.
SPECIFICATION FairSpec
CONSTANTS
  C1 = C1
  C2 = C2
  C3 = C3
  Shared = Shared
  Own = Own
  Here = Here
  There = There
  None = None
  Callers <- MCCallers
  Objects <- MCObjects
  Pools <- OnePool
  ObjectOf <- MCObjectOf
  PoolOf <- SamePool
  PoolSize <- OneOfOne
  Trackers <- NoTrackers
  Backends = 2
INVARIANTS
  SessionsOK
  PooledSessionsAreClean
  WorkIsExclusive
PROPERTIES
  EveryCallReturns
