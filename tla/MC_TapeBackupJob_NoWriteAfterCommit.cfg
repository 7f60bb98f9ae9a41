CONSTANTS
  Groups = {1, 2, 3, 4}
  SnapTimes <- MCSnapTimes
  Finished <- MCFinished
  FilterKeep = {1, 2, 3}
  HasChanger = TRUE
  PriorIndexes <- MCPriorIndexes
  NumChunks = 2
  m1 = m1
  m2 = m2
  m3 = m3
  m4 = m4
  Media = {m1, m2, m3, m4}
  InitialUse <- MCInitialUse
  Capacity = 5
  ArchiveSize = 2
  CatalogSize = 2
  ChanCap = 2
  NoMedium = NoMedium
  NoSnap = NoSnap
  ReadError = ReadError

SPECIFICATION Spec

PROPERTY NoWriteAfterCommit
