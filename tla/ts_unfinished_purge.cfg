SPECIFICATION Spec
CONSTANTS
  b1 = b1  n1 = n1  t1 = t1
  Buckets = {b1}
  Namespaces = {n1}
  TableNames = {t1}
  Slots = {s1}
  Requests <- OneBucket
  MaxWarehouses = 7
  MaxRequests = 7
  MaxFaults = 0
  MaxCrashes = 0
  NoName = NoName  NoId = NoId  NoRequest = NoRequest
INVARIANT FreshNameCreates
