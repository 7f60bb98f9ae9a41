CONSTANTS
  d1 = d1
  Groups = {1}
  SnapTimes <- MCSnapTimes
  Finished <- MCFinished
  FilterKeep = {1}
  HasChanger = FALSE
  PriorIndexes = {{}}
  NumChunks = 1
  m1 = m1
  m2 = m2
  m3 = m3
  Media = {m1, m2, m3}
  InitialUse <- MCInitialUse
  Capacity = 4
  ArchiveSize = 2
  CatalogSize = 1
  ChanCap = 1
  NoMedium = NoMedium
  NoSnap = NoSnap
  ReadError = ReadError
  MaxRuns = 2
  r1 = r1
  r2 = r2
  Requests = {r1, r2}
  Drive = d1
  NoRequest = NoRequest
  Privs <- MCPrivs

SPECIFICATION SSpec

INVARIANT CommittedIsOnTape
PROPERTY NoRewriteOfCommitted
PROPERTY WritesOnlyUnderLock
PROPERTY WorkerReturns
