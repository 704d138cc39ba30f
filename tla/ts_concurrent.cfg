SPECIFICATION Spec
CONSTANTS
  b1 = b1  n1 = n1  t1 = t1
  Buckets = {b1}
  Namespaces = {n1}
  TableNames = {t1}
  Slots = {s1, s2}
  Requests <- OneBucket
  MaxWarehouses = 6
  MaxRequests = 6
  MaxFaults = 1
  MaxCrashes = 2
  NoName = NoName  NoId = NoId  NoRequest = NoRequest
SYMMETRY SlotSymmetry
INVARIANTS TypeOK RowBacked DeleteRecovers NotFoundIsTrue LeftoversKnown
PROPERTIES CreatedIsUsable Implements
