SPECIFICATION ApiSpec
CONSTANTS
  b1 = b1  i1 = i1  i2 = i2  k1 = k1  k2 = k2
  v1 = v1  v2 = v2  w1 = w1  d1 = d1  d2 = d2
  Buckets = {b1}
  Indexes = {i1}
  Keys = {k1, k2}
  Vecs <- MCVecs
  Dims = {d1, d2}
  DimOf <- MCDimOf
  Tables <- MCTables
  TableOf <- Distinct
  Slots = {s1}
  Requests <- OneIndex
  MaxRequests = 4
  MaxFaults = 0
  MaxCrashes = 0
  MayLackVss = TRUE
  MayLoseDb = FALSE
  NoDim = NoDim  NoVec = NoVec  NoSlot = NoSlot  NoRequest = NoRequest
INVARIANT NoStrayTable
