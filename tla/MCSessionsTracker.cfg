\* Tracker objects, which close the connection where a Postgres discards it.
SPECIFICATION Spec
CONSTANTS
  C1 = C1
  C2 = C2
  C3 = C3
  Shared = Shared
  Own = Own
  Here = Here
  There = There
  None = None
  Callers <- MCCallers
  Objects <- MCObjects
  Pools <- TwoPools
  ObjectOf <- MCObjectOf
  PoolOf <- OtherPool
  PoolSize <- TwoOfOne
  Trackers <- OneTracker
  Backends = 2
PROPERTIES
  ClosingReleases
