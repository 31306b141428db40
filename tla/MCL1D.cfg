CONSTANTS
  v0 = v0
  v1 = v1
  A = A
  B = B
  IO = IO
  way0 = way0
  way1 = way1
  None = None
  Values = {v0, v1}
  Ways = {way0, way1}
  Tags = {A, B, IO}
  Sets = {0}
  LineWords = 1
  LaneNum = 2
  CoreReqs <- LaneReqs
SPECIFICATION Spec
SYMMETRY Symmetries
INVARIANTS
  TypeOK
  ReadReturnsLatest
  OneRequestInFlight
  OneWayHits
  LinesAreCurrent
  DeferredStoreHasItsLine
  MemoryIsCurrent
