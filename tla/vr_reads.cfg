SPECIFICATION FairSpec
CONSTANTS
  c1 = c1
  cosine = cosine
  euclidean = euclidean
  NoMetric = NoMetric
  NoFilter = NoFilter
  Absent = Absent
  gold = gold
  iron = iron
  Names <- MCNames
  Clients = {c1}
  PageSizes = {1, 2}
  Prefixes <- MCPrefixes
  Filters <- MCFilters
  Terms <- MCTerms
  Depth <- MCDepth
  Lets <- MCLets
  Meta <- MCMeta
  Fields = {"tier", "label"}
  Numbers = {1, 2, 3}
  TopKs = {1, 2}
  Oversample = 2
  Metrics = {cosine, euclidean}
  Dist <- MCDist
INVARIANTS TypeOK ListedAll ListedOnce FilterMeans
PROPERTIES NearestMatches ListingEnds
