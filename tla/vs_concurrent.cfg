SPECIFICATION FairApiSpec
CONSTANTS
  b1 = b1  i1 = i1  i2 = i2  k1 = k1  k2 = k2
  v1 = v1  v2 = v2  w1 = w1  d1 = d1  d2 = d2
  Buckets = {b1}
  Indexes = {i1, i2}
  Keys = {k1, k2}
  Vecs <- MCVecs
  Dims = {d1, d2}
  DimOf <- MCDimOf
  Tables <- MCTables
  TableOf <- Aliased
  Slots = {s1, s2}
  Requests <- TwoIndexes
  MaxRequests = 6
  MaxFaults = 1
  MaxCrashes = 0
  MayLackVss = FALSE
  MayLoseDb = FALSE
  NoDim = NoDim  NoVec = NoVec  NoSlot = NoSlot  NoRequest = NoRequest
INVARIANTS TypeOK NoStrayTable OneOwner IndexHasBucket DeletesAreFinal
PROPERTIES Answered Implements
